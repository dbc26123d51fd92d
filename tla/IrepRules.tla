----------------------------- MODULE IrepRules -----------------------------
(***************************************************************************)
(* The pure helpers of IRepppClassifier (src/UMA/Katalog projektu/         *)
(* IReppp.py): coverage of literals and rules, the FOIL gain comparison,   *)
(* the per-feature split search, the pruner, the acceptance test and the   *)
(* grow/prune split size.  None of them changes state; the learner module  *)
(* IrepLearner uses them inside its actions.                               *)
(*                                                                         *)
(* Feature values are doubles in the code.  Here they are naturals on a    *)
(* grid of consecutive representable values 0..MaxFinite, so that the one *)
(* floating-point operation whose rounding matters, the midpoint           *)
(* (a + b) / 2 of the split search, is modelled by what it does: it        *)
(* rounds half to even, and a sum above the largest finite value becomes   *)
(* infinity.  FOIL gains and precisions are compared exactly as rationals; *)
(* with the small counts of a model no two different ratios round to the  *)
(* same double, and equal ratios give bit-identical doubles.               *)
(***************************************************************************)
EXTENDS Integers, Sequences, FiniteSets, SequencesExt, FiniteSetsExt

CONSTANTS
    X,          \* X[e][f]: value of feature f of example e (a grid point)
    Y,          \* Y[e]: the boolean label of example e
    NF,         \* number of features; features are 1..NF (0-based in code)
    MaxFinite   \* largest finite grid value; sums above it overflow

ASSUME NF \in Nat \ {0} /\ MaxFinite \in Nat

\* A sum of two values above MaxFinite is +inf in the code; every finite
\* value compares below it.
Inf == MaxFinite + 1

Features == 1..NF

\* A literal is the code's dict {'feature', 'operator', 'value'}; the
\* stored 'gain' is only used for comparisons and is recomputed here.
Literals == [f : Features, op : {"<", ">"}, t : 0..Inf]

\* The code's None for "no split found".
NoLiteral == [f |-> 0, op |-> "none", t |-> 0]

Pos(S) == {e \in S : Y[e]}
Neg(S) == {e \in S : ~Y[e]}

(***************************************************************************)
(* Coverage engine.                                                        *)
(***************************************************************************)
literal_covers(lit, e) ==
    IF lit.op = "<" THEN X[e][lit.f] < lit.t ELSE X[e][lit.f] > lit.t

\* An empty rule covers nothing; otherwise the AND of its literals.
rule_covers(rule, e) ==
    /\ rule # <<>>
    /\ \A i \in 1..Len(rule) : literal_covers(rule[i], e)

Covered(rule, S) == {e \in S : rule_covers(rule, e)}

\* Mutation: _not_covered returning data[covered].
not_covered_keeps(rule, S) == Covered(rule, S)

\* _not_covered: the examples of S that the rule does not cover.
not_covered(rule, S) == S \ Covered(rule, S)

\* Mutation: _not_covered_by_literal doing what its docstring says.
not_covered_by_literal_removes(lit, S) == {e \in S : ~literal_covers(lit, e)}

\* _not_covered_by_literal: despite its name and docstring it keeps the
\* examples the literal covers (data[covered]).
not_covered_by_literal(lit, S) == {e \in S : literal_covers(lit, e)}

(***************************************************************************)
(* FOIL gain.  foil_gain(p, n, p0, n0) = p * (log2(p/(p+n)) -              *)
(* log2(p0/(p0+n0))), and -inf when p = 0, p+n = 0 or p0+n0 = 0.  Only     *)
(* comparisons of gains are ever used, so a score is the pair [p, n] and   *)
(* two finite gains over the same baseline (p0, n0) are compared by        *)
(* exponentiating both sides: g1 > g2 iff                                  *)
(*   (p1/(p1+n1))^p1 * (p0/(p0+n0))^p2 > (p2/(p2+n2))^p2 * (p0/(p0+n0))^p1 *)
(***************************************************************************)
foil_gain_finite(s, p0, n0) ==
    s.p # 0 /\ s.p + s.n # 0 /\ p0 + n0 # 0

foil_gain_gt(s1, s2, p0, n0) ==
    s1.p ^ s1.p * (s2.p + s2.n) ^ s2.p * p0 ^ s2.p * (p0 + n0) ^ s1.p
      > s2.p ^ s2.p * (s1.p + s1.n) ^ s1.p * p0 ^ s1.p * (p0 + n0) ^ s2.p

\* Positive and negative examples of S a literal covers.
Score(lit, S) ==
    [p |-> Cardinality({e \in Pos(S) : literal_covers(lit, e)}),
     n |-> Cardinality({e \in Neg(S) : literal_covers(lit, e)})]

(***************************************************************************)
(* (sorted_values[i] + sorted_values[i + 1]) / 2 in double arithmetic: the *)
(* sum overflows to inf above MaxFinite, and a midpoint between two        *)
(* adjacent grid points rounds half to even.                               *)
(***************************************************************************)
Midpoint(a, b) ==
    LET s == a + b
        h == s \div 2
    IN  IF s > MaxFinite THEN Inf
        ELSE IF s % 2 = 0 \/ h % 2 = 0 THEN h
        ELSE h + 1

\* The candidate literals of one feature in the code's scan order: for
\* each pair of distinct adjacent sorted values, "<" then ">".
SplitCandidates(f, S) ==
    LET sorted == SetToSortSeq({X[e][f] : e \in S}, <)
        k == Len(sorted) - 1
    IN  [j \in 1..(2 * k) |->
            LET i == (j + 1) \div 2
            IN  [f |-> f, op |-> IF j % 2 = 1 THEN "<" ELSE ">",
                 t |-> Midpoint(sorted[i], sorted[i + 1])]]

\* Mutation: gain >= best_gain in _find_split (the last of equal gains wins).
BetterSplit_ge(best, lit, S, p0, n0) ==
    LET s == Score(lit, S)
    IN  /\ s.p + s.n > 0
        /\ foil_gain_finite(s, p0, n0)
        /\ \/ best = NoLiteral
           \/ ~foil_gain_gt(Score(best, S), s, p0, n0)

\* One iteration of _find_split's scan: take lit when it covers something,
\* has a finite gain and beats the best so far strictly.
BetterSplit(best, lit, S, p0, n0) ==
    LET s == Score(lit, S)
    IN  /\ s.p + s.n > 0
        /\ foil_gain_finite(s, p0, n0)
        /\ \/ best = NoLiteral
           \/ foil_gain_gt(s, Score(best, S), p0, n0)

find_split(f, S) ==
    LET p_total == Cardinality(Pos(S))
        n_total == Cardinality(Neg(S))
        step(best, lit) ==
            IF BetterSplit(best, lit, S, p_total, n_total) THEN lit ELSE best
    IN  IF p_total = 0 THEN NoLiteral
        ELSE FoldLeft(step, NoLiteral, SplitCandidates(f, S))

\* The feature loop of _grow_rule: the per-feature best with the strictly
\* largest gain, the first feature winning ties.
GrowBest(S) ==
    LET p0 == Cardinality(Pos(S))
        n0 == Cardinality(Neg(S))
        step(best, f) ==
            LET s == find_split(f, S)
            IN  IF /\ s # NoLiteral
                   /\ \/ best = NoLiteral
                      \/ foil_gain_gt(Score(s, S), Score(best, S), p0, n0)
                THEN s ELSE best
    IN  FoldLeft(step, NoLiteral, [i \in Features |-> i])

\* _no_errors_on_grow_set: the rule covers no negative example of S.
no_errors_on_grow_set(rule, S) ==
    \/ S = {}
    \/ rule = <<>> /\ Neg(S) = {}
    \/ rule # <<>> /\ Neg(S) \cap Covered(rule, S) = {}

(***************************************************************************)
(* Rule pruner.  A precision p/(p+n) is the pair <<p, p+n>>; 0 is <<0, 1>>.*)
(***************************************************************************)
calculate_precision(rule, S) ==
    LET c == Covered(rule, S)
    IN  IF rule = <<>> \/ c = {} THEN <<0, 1>>
        ELSE <<Cardinality(Pos(c)), Cardinality(c)>>

PrecisionGt(a, b) == a[1] * b[2] > b[1] * a[2]
PrecisionEq(a, b) == a[1] * b[2] = b[1] * a[2]

\* Mutation: _prune_rule without the "equal and shorter" alternative.
prune_rule_strict(rule, S) ==
    LET step(best, i) ==
            LET pr == SubSeq(rule, 1, i)
                acc == calculate_precision(pr, S)
            IN  IF i # 0 /\ PrecisionGt(acc, best.acc)
                THEN [rule |-> pr, acc |-> acc] ELSE best
        order == [k \in 1..Len(rule) |-> Len(rule) - k]
    IN  IF rule = <<>> THEN rule
        ELSE FoldLeft(step, [rule |-> rule,
                             acc |-> calculate_precision(rule, S)], order).rule

\* _prune_rule: scan the prefixes of length Len-1 down to 0, skipping the
\* empty one, keeping a prefix that is more precise, or as precise and
\* shorter than the best so far.
prune_rule(rule, S) ==
    LET step(best, i) ==
            LET pr == SubSeq(rule, 1, i)
                acc == calculate_precision(pr, S)
            IN  IF /\ i # 0
                   /\ \/ PrecisionGt(acc, best.acc)
                      \/ PrecisionEq(acc, best.acc) /\ i < Len(best.rule)
                THEN [rule |-> pr, acc |-> acc] ELSE best
        order == [k \in 1..Len(rule) |-> Len(rule) - k]
    IN  IF rule = <<>> THEN rule
        ELSE FoldLeft(step, [rule |-> rule,
                             acc |-> calculate_precision(rule, S)], order).rule

\* Mutation: _keep returning p >= n.
keep_ge(rule, S) ==
    /\ rule # <<>>
    /\ Cardinality(Pos(Covered(rule, S))) >= Cardinality(Neg(Covered(rule, S)))

\* _keep: a non-empty rule covering strictly more positives than negatives.
keep(rule, S) ==
    /\ rule # <<>>
    /\ Cardinality(Pos(Covered(rule, S))) > Cardinality(Neg(Covered(rule, S)))

\* _split: int(n * grow_ratio) examples go to the grow set; grow_ratio is
\* GrowNum/GrowDen (2/3 by default; int(n * (2/3)) = (2 * n) \div 3 for
\* every n the code can be given).
SplitPoint(n, GrowNum, GrowDen) == (n * GrowNum) \div GrowDen

=============================================================================
