CONSTANTS
    Ex <- MC_Ex3
    X <- MC_X_Adjacent
    Inputs <- MC_Inputs_Adjacent
    NF = 1
    MaxFinite = 10
    MaxBadRules = 2
    GrowNum = 2
    GrowDen = 3
    MaxRuleLen = 4
SPECIFICATION Spec
PROPERTY ThresholdExclusive
