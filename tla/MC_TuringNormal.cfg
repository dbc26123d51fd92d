\* turing_process_normal on every program over two symbols and three
\* states (the lines revealed as the run needs them), for four iterations,
\* against the Turing machine it simulates.
CONSTANTS
    Special = FALSE
    Symbols <- MC_Symbols
    States <- MC_States
    HaltStates <- MC_HaltStates
    Moves <- MC_Moves
    Inputs <- MC_Inputs
    MaxSteps = 4
SPECIFICATION Spec
INVARIANT MatchesMachine
