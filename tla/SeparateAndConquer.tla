------------------------- MODULE SeparateAndConquer -------------------------
(***************************************************************************)
(* What the learner of IRepppClassifier promises, without the split, the   *)
(* grow loop, the pruner or the bad-rule counter: from the examples of a   *)
(* fit() call it repeatedly takes some rule that covers strictly more      *)
(* positive than negative examples of what is left, adds it to the rule    *)
(* set and sets aside what it covers, until it stops (spec.md 4.6).        *)
(* IrepLearner refines this module (SaCSpec of the learner_safety run).   *)
(***************************************************************************)
EXTENDS Integers, Sequences, FiniteSets

CONSTANTS Ex, X, NF, MaxFinite

VARIABLES
    data,      \* the examples of the fit() call
    y,         \* their labels
    pool,      \* the examples no accepted rule covers
    rules,     \* the accepted rules, in order
    finished   \* fit() has returned

avars == <<data, y, pool, rules, finished>>

LOCAL R == INSTANCE IrepRules WITH Y <- y

Init ==
    /\ data \in SUBSET Ex
    /\ y \in [data -> BOOLEAN]
    /\ pool = data
    /\ rules = <<>>
    /\ finished = FALSE

\* A strict majority of positives among the examples of S the rule covers.
Majority(r, S) ==
    LET c == R!Covered(r, S)
    IN  Cardinality({e \in c : y[e]}) > Cardinality({e \in c : ~y[e]})

\* Accept one more rule: it is the new last element of rules'.  (The rule
\* is read off the next state rather than drawn from the infinite set of
\* rules, so that the action can be evaluated on a pair of states.)
Learn ==
    /\ ~finished
    /\ Len(rules') = Len(rules) + 1
    /\ SubSeq(rules', 1, Len(rules)) = rules
    /\ LET r == rules'[Len(rules')]
       IN  /\ r # <<>>
           /\ Majority(r, pool)
           /\ pool' = pool \ R!Covered(r, pool)
    /\ UNCHANGED <<data, y, finished>>

Stop ==
    /\ ~finished
    /\ finished' = TRUE
    /\ UNCHANGED <<data, y, pool, rules>>

Next == Learn \/ Stop

\* The learner eventually returns.
Spec == Init /\ [][Next]_avars /\ WF_avars(Stop)

=============================================================================
