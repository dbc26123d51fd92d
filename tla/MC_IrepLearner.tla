-------------------------- MODULE MC_IrepLearner --------------------------
(***************************************************************************)
(* fit() on every labelling of every subset of five two-feature points.    *)
(* The points are even grid values, so every midpoint is exact and no sum  *)
(* overflows: the model checks the learner on ordinary numeric data.       *)
(***************************************************************************)
EXTENDS IrepLearner

\* Five examples; the two features disagree on their order, and example 5
\* ties example 2 on feature 1 and example 3 on feature 2.
MC_Ex == 1..5
MC_X == <<<<2, 6>>, <<4, 2>>, <<6, 8>>, <<8, 4>>, <<4, 8>>>>

\* Every subset of the examples with every labelling of it.
MC_Inputs == UNION {{[data |-> d, y |-> l] : l \in [d -> BOOLEAN]} : d \in SUBSET MC_Ex}

(***************************************************************************)
(* Data for the runs that confront the code with a claim about it.         *)
(***************************************************************************)

\* Two values whose sum exceeds the largest finite double (MaxFinite = 10):
\* example 1 (6, positive) and example 2 (8, negative) have midpoint inf.
MC_Ex3 == 1..3

MC_X_Overflow == <<<<6>>, <<8>>, <<0>>>>
MC_Inputs_Overflow ==
    {[data |-> 1..3, y |-> [e \in 1..3 |-> e = 1]]}

\* Adjacent doubles 2 and 3: their midpoint rounds (half to even) to 2.
MC_X_Adjacent == <<<<2>>, <<3>>, <<7>>>>
MC_Inputs_Adjacent ==
    {[data |-> 1..3, y |-> [e \in 1..3 |-> e = 2]]}

\* test_fit_predict: features 1, 3, 6, 8, 10 scaled by two onto the grid
\* (every midpoint stays exact and between the same pair), labels
\* F, F, T, T, T.
MC_X_Test == <<<<2>>, <<6>>, <<12>>, <<16>>, <<20>>>>
MC_Inputs_Test ==
    {[data |-> 1..5, y |-> [e \in 1..5 |-> e >= 3]]}

=============================================================================
