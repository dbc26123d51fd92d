--------------------------- MODULE IrepSearchSpec ---------------------------
(***************************************************************************)
(* What the split search and the pruner promise (spec.md 4.4 and 4.5),     *)
(* stated declaratively over the operators of IrepRules, so that the scans *)
(* IrepRules translates from the code can be checked against them on every *)
(* set the learner really searches.                                        *)
(***************************************************************************)
EXTENDS IrepRules

\* Every candidate literal of S: a midpoint of two distinct adjacent values
\* of some feature, with either operator.
AllCandidates(S) ==
    UNION {Range(SplitCandidates(f, S)) : f \in Features}

\* The candidates that cover something and have a finite FOIL gain.
Scorable(S) ==
    LET p0 == Cardinality(Pos(S))
        n0 == Cardinality(Neg(S))
    IN  {l \in AllCandidates(S) :
            LET s == Score(l, S)
            IN  s.p + s.n > 0 /\ foil_gain_finite(s, p0, n0)}

\* The scorable candidates no other candidate beats.
MaxGain(S) ==
    LET p0 == Cardinality(Pos(S))
        n0 == Cardinality(Neg(S))
    IN  {l \in Scorable(S) :
            \A m \in Scorable(S) : ~foil_gain_gt(Score(m, S), Score(l, S), p0, n0)}

\* Scan order: ascending feature, then ascending threshold, "<" before ">".
ScanBefore(l, m) ==
    \/ l.f < m.f
    \/ l.f = m.f /\ l.t < m.t
    \/ l.f = m.f /\ l.t = m.t /\ l.op = "<" /\ m.op = ">"

\* The best literal: the first of maximal gain in scan order, none when no
\* candidate has a finite gain.
RefBest(S) ==
    IF MaxGain(S) = {} THEN NoLiteral
    ELSE CHOOSE l \in MaxGain(S) :
            \A m \in MaxGain(S) \ {l} : ScanBefore(l, m)

\* The pruned rule: the shortest non-empty prefix of maximal precision on
\* the prune set; the empty rule stays empty.
RefPrune(rule, S) ==
    IF rule = <<>> THEN rule
    ELSE LET lens == 1..Len(rule)
             best == {k \in lens :
                        \A j \in lens :
                           ~PrecisionGt(calculate_precision(SubSeq(rule, 1, j), S),
                                        calculate_precision(SubSeq(rule, 1, k), S))}
         IN  SubSeq(rule, 1, CHOOSE k \in best : \A j \in best : k <= j)

=============================================================================
