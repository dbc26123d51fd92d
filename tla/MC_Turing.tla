------------------------------ MODULE MC_Turing ------------------------------
(***************************************************************************)
(* Two symbols, two working states and a halting one; the inputs 1, 11    *)
(* and 1_1 (a blank between two marks).                                   *)
(***************************************************************************)
EXTENDS Turing

MC_Symbols == {"1", "_"}
MC_States == {"init", "q", "halt"}
MC_HaltStates == {"halt"}
MC_Moves == {"R", "L"}
MC_Inputs == {<<"1">>, <<"1", "1">>, <<"1", "_", "1">>}

=============================================================================
