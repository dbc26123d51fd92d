---------------------------- MODULE IrepLearner ----------------------------
(***************************************************************************)
(* The rule-set learner of IRepppClassifier (src/UMA/Katalog projektu/     *)
(* IReppp.py): fit() and the loop of _learn, with the literal-by-literal   *)
(* loop of _grow_rule as steps of its own, and predict().                  *)
(*                                                                         *)
(* The only nondeterminism of the code is np.random.permutation in _split; *)
(* the model explores every grow set it can draw.  A behaviour is one      *)
(* fit() call on one of the inputs in Inputs; "done" is the return of      *)
(* fit(), after which the classifier only answers predict().               *)
(***************************************************************************)
EXTENDS Integers, Sequences, FiniteSets, SequencesExt, FiniteSetsExt

CONSTANTS
    Ex,          \* the identities of the examples fit() may be given
    X,           \* X[e][f]: feature values, grid points in 0..MaxFinite
    NF,          \* number of features
    MaxFinite,   \* largest finite grid value (see IrepRules)
    Inputs,      \* set of [data |-> SUBSET Ex, y |-> labels] given to fit()
    MaxBadRules, \* max_bad_rules
    GrowNum,     \* grow_ratio = GrowNum / GrowDen
    GrowDen,
    MaxRuleLen   \* bound on the length of a grown rule (state-space cap)

ASSUME /\ MaxBadRules \in Nat \ {0}
       /\ GrowNum \in Nat /\ GrowDen \in Nat \ {0} /\ GrowNum < GrowDen
       /\ MaxRuleLen \in Nat \ {0}

VARIABLES
    data,             \* the examples of the fit() call (constant per run)
    y,                \* their labels (constant per run)
    pool,             \* training_data of _learn: examples not yet covered
    rules,            \* rule_set: the accepted rules, in order
    bad_rule_count,   \* consecutive rejected rules
    phase,            \* "learn" (top of the while loop), "grow", "done"
    grow_set,         \* the grow set of the current iteration
    prune_set,        \* the prune set of the current iteration
    new_rule,         \* the rule being grown
    current_grow_set  \* the working copy of the grow set in _grow_rule

vars == <<data, y, pool, rules, bad_rule_count, phase, grow_set, prune_set,
          new_rule, current_grow_set>>

INSTANCE IrepSearchSpec WITH Y <- y

----------------------------------------------------------------------------
(* fit(): the training pool starts as the whole input. *)
Init ==
    /\ \E in \in Inputs : data = in.data /\ y = in.y
    /\ pool = data
    /\ rules = <<>>
    /\ bad_rule_count = 0
    /\ phase = "learn"
    /\ grow_set = {}
    /\ prune_set = {}
    /\ new_rule = <<>>
    /\ current_grow_set = {}

ClearLocals ==
    /\ grow_set' = {} /\ prune_set' = {}
    /\ new_rule' = <<>> /\ current_grow_set' = {}

\* Mutation: while bad_rule_count <= self.max_bad_rules.
LoopCondition_le == bad_rule_count <= MaxBadRules

\* The condition of the while loop of _learn.
LoopCondition == bad_rule_count < MaxBadRules

\* The while condition fails: max_bad_rules consecutive rejections.
StopBadRules ==
    /\ phase = "learn"
    /\ ~LoopCondition
    /\ phase' = "done"
    /\ UNCHANGED <<data, y, pool, rules, bad_rule_count, grow_set, prune_set,
                   new_rule, current_grow_set>>

\* len(training_data) == 0: break.
StopEmptyPool ==
    /\ phase = "learn"
    /\ LoopCondition
    /\ pool = {}
    /\ phase' = "done"
    /\ UNCHANGED <<data, y, pool, rules, bad_rule_count, grow_set, prune_set,
                   new_rule, current_grow_set>>

\* _split draws a random permutation and cuts it at int(n * grow_ratio);
\* an empty grow or prune set ends learning.
SplitEmpty ==
    /\ phase = "learn"
    /\ LoopCondition
    /\ pool # {}
    /\ SplitPoint(Cardinality(pool), GrowNum, GrowDen) \in {0, Cardinality(pool)}
    /\ phase' = "done"
    /\ UNCHANGED <<data, y, pool, rules, bad_rule_count, grow_set, prune_set,
                   new_rule, current_grow_set>>

\* Both sets are non-empty: _grow_rule starts from the empty rule on a copy
\* of the grow set.
Split ==
    /\ phase = "learn"
    /\ LoopCondition
    /\ pool # {}
    /\ \E g \in kSubset(SplitPoint(Cardinality(pool), GrowNum, GrowDen), pool) :
          /\ g # {} /\ pool \ g # {}
          /\ grow_set' = g
          /\ prune_set' = pool \ g
          /\ current_grow_set' = g
    /\ new_rule' = <<>>
    /\ phase' = "grow"
    /\ UNCHANGED <<data, y, pool, rules, bad_rule_count>>

\* Mutation: each literal narrows the original grow set, not the working
\* copy.
GrowStep_from_grow_set ==
    /\ phase = "grow"
    /\ ~no_errors_on_grow_set(new_rule, current_grow_set)
    /\ LET best == GrowBest(current_grow_set)
       IN  /\ best # NoLiteral
           /\ Len(new_rule) < MaxRuleLen
           /\ new_rule' = Append(new_rule, best)
           /\ current_grow_set' = not_covered_by_literal(best, grow_set)
    /\ UNCHANGED <<data, y, pool, rules, bad_rule_count, phase, grow_set,
                   prune_set>>

\* One iteration of the while loop of _grow_rule: the rule still covers a
\* negative example and some feature yields a split; append the best
\* literal and keep only the examples it covers.
GrowStep ==
    /\ phase = "grow"
    /\ ~no_errors_on_grow_set(new_rule, current_grow_set)
    /\ LET best == GrowBest(current_grow_set)
       IN  /\ best # NoLiteral
           /\ Len(new_rule) < MaxRuleLen
           /\ new_rule' = Append(new_rule, best)
           /\ current_grow_set' = not_covered_by_literal(best, current_grow_set)
    /\ UNCHANGED <<data, y, pool, rules, bad_rule_count, phase, grow_set,
                   prune_set>>

\* _grow_rule returns: no errors left, or no feature yields a split.
GrowDone ==
    /\ phase = "grow"
    /\ \/ no_errors_on_grow_set(new_rule, current_grow_set)
       \/ GrowBest(current_grow_set) = NoLiteral

\* The rest of the loop body: prune the rule on the prune set, judge it on
\* the whole pool, and either accept it or count a bad rule.
AcceptRule ==
    /\ GrowDone
    /\ LET pruned == prune_rule(new_rule, prune_set)
       IN  /\ keep(pruned, pool)
           /\ rules' = Append(rules, pruned)
           /\ pool' = not_covered(pruned, pool)
    /\ bad_rule_count' = 0
    /\ phase' = "learn"
    /\ ClearLocals
    /\ UNCHANGED <<data, y>>

\* Mutation: the else branch of _learn without bad_rule_count += 1.
RejectRule_uncounted ==
    /\ GrowDone
    /\ ~keep(prune_rule(new_rule, prune_set), pool)
    /\ phase' = "learn"
    /\ ClearLocals
    /\ UNCHANGED <<data, y, pool, rules, bad_rule_count>>

RejectRule ==
    /\ GrowDone
    /\ ~keep(prune_rule(new_rule, prune_set), pool)
    /\ bad_rule_count' = bad_rule_count + 1
    /\ phase' = "learn"
    /\ ClearLocals
    /\ UNCHANGED <<data, y, pool, rules>>

\* After fit() has returned nothing changes.
Finished ==
    /\ phase = "done"
    /\ UNCHANGED vars

Next ==
    \/ StopBadRules
    \/ StopEmptyPool
    \/ SplitEmpty
    \/ Split
    \/ GrowStep
    \/ AcceptRule
    \/ RejectRule
    \/ Finished

Running == phase # "done"

(***************************************************************************)
(* fit() runs to completion in one synchronous call, so the learner is     *)
(* weakly fair: WF_vars(Next).  It is written with ENABLED <<Next>>_vars   *)
(* replaced by Running, which is the same predicate on every reachable     *)
(* state: the deadlock check shows that some action is enabled in every    *)
(* state, Finished is the only one enabled once fit() has returned, and    *)
(* every other action changes phase or new_rule.  TLC evaluates ENABLED of *)
(* the split search far more slowly than the search itself.                *)
(***************************************************************************)
Fairness == <>[]Running => []<><<Next>>_vars

Spec == Init /\ [][Next]_vars /\ Fairness

----------------------------------------------------------------------------
(* predict(): true iff some learned rule covers the example. *)
predict(e) == \E i \in 1..Len(rules) : rule_covers(rules[i], e)

----------------------------------------------------------------------------
(* Properties. *)

TypeOK ==
    /\ data \subseteq Ex
    /\ y \in [data -> BOOLEAN]
    /\ pool \subseteq data
    /\ rules \in Seq(Seq(Literals))
    /\ bad_rule_count \in 0..MaxBadRules
    /\ phase \in {"learn", "grow", "done"}
    /\ grow_set \subseteq pool /\ prune_set \subseteq pool
    /\ new_rule \in Seq(Literals)
    /\ current_grow_set \subseteq grow_set

\* Separate-and-conquer (_learn removes with _not_covered what each kept
\* rule covers): the pool is at every moment exactly the examples of the
\* input that the model learned so far does not predict positive.
PoolIsUncovered == pool = {e \in data : ~predict(e)}

\* _grow_rule narrows its working copy with _not_covered_by_literal: while
\* a rule is grown, the working set is exactly what the rule covers of
\* the grow set (the whole grow set for the empty rule).
WorkIsRuleCoverage ==
    phase = "grow" =>
        current_grow_set = IF new_rule = <<>> THEN grow_set
                           ELSE Covered(new_rule, grow_set)

\* The termination argument of _grow_rule: every literal it appends
\* strictly shrinks the working set and keeps a positive example in it.
GrowNarrows ==
    [][phase = "grow" /\ phase' = "grow" =>
          /\ current_grow_set' \subseteq current_grow_set
          /\ current_grow_set' # current_grow_set
          /\ Pos(current_grow_set') # {}]_vars

\* The split search of _grow_rule and _find_split picks the first literal
\* of maximal FOIL gain in feature-then-threshold order (spec.md 4.4), on
\* every working set a fit() call searches.
ScanMatchesReference ==
    phase = "grow" => GrowBest(current_grow_set) = RefBest(current_grow_set)

\* _prune_rule returns the shortest non-empty prefix of maximal precision
\* on the prune set (spec.md 4.5), for every rule _grow_rule returns.
PruneMatchesReference ==
    GrowDone => prune_rule(new_rule, prune_set) = RefPrune(new_rule, prune_set)

\* Refinement: fit() is a separate-and-conquer learner; the split, the
\* grow steps and rejected rules leave the abstract state unchanged, each
\* accepted rule is an abstract Learn step and the return of fit() is Stop.
SaC == INSTANCE SeparateAndConquer WITH finished <- (phase = "done")

SaCSpec == SaC!Spec

\* fit() returns: the learning loop and every grow loop terminate.
Termination == <>(phase = "done")

\* Threshold exclusivity (spec.md, Literal): the threshold _find_split
\* computes as (sorted_values[i] + sorted_values[i + 1]) / 2 equals no
\* value of its feature in the set it was computed from.
ThresholdExclusive ==
    [][phase = "grow" /\ phase' = "grow" =>
          LET lit == new_rule'[Len(new_rule')]
          IN  \A e \in current_grow_set : X[e][lit.f] # lit.t]_vars

\* test_fit_predict (tests.py): on separable data fit() learns at least
\* one rule, and predict() reproduces every training label.
TestFitPredict ==
    phase = "done" => /\ Len(rules) > 0
                      /\ \A e \in data : predict(e) = y[e]

=============================================================================
