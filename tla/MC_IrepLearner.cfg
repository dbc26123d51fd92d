\* fit() on every labelling of every subset of five two-feature points:
\* the learner's invariants, its termination, the split search and the
\* pruner against their declarative definitions, and the refinement of
\* SeparateAndConquer.
CONSTANTS
    Ex <- MC_Ex
    X <- MC_X
    Inputs <- MC_Inputs
    NF = 2
    MaxFinite = 100
    MaxBadRules = 2
    GrowNum = 2
    GrowDen = 3
    MaxRuleLen = 4
SPECIFICATION Spec

INVARIANT TypeOK
INVARIANT PoolIsUncovered
INVARIANT WorkIsRuleCoverage
INVARIANT ScanMatchesReference
INVARIANT PruneMatchesReference
PROPERTY GrowNarrows
PROPERTY Termination
PROPERTY SaCSpec
