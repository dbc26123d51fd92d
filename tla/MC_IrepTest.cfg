CONSTANTS
    Ex <- MC_Ex
    X <- MC_X_Test
    Inputs <- MC_Inputs_Test
    NF = 1
    MaxFinite = 100
    MaxBadRules = 3
    GrowNum = 2
    GrowDen = 3
    MaxRuleLen = 4
SPECIFICATION Spec
INVARIANT TestFitPredict
