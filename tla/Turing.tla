------------------------------- MODULE Turing -------------------------------
(***************************************************************************)
(* The Turing machine simulator of                                         *)
(* src/Algorytmy_i_Struktury_Danych/Turing/turing.py: the while loops of   *)
(* turing_process_normal and turing_process_special, one iteration per     *)
(* step, on a tape string and a 0-based index into it.                     *)
(*                                                                         *)
(* The instruction file is a list of [state, read, write, move, next].     *)
(* The for loop takes the first instruction that matches, so a program is  *)
(* a partial function from (state, read) to [write, move, next]; it is     *)
(* revealed lazily, an entry being chosen the first time a step needs it   *)
(* (no entry stands for no matching line).                                 *)
(*                                                                         *)
(* Beside the simulator runs, as ghost state, the machine it simulates: an *)
(* unbounded tape of blanks with the input at positions 1.., a head and a  *)
(* state, stepping with the same program.                                  *)
(***************************************************************************)
EXTENDS Integers, Sequences, FiniteSets, FiniteSetsExt

CONSTANTS
    Special,    \* turing_process_special (TRUE) or turing_process_normal
    Symbols,    \* tape symbols; "_" is the blank
    States,     \* machine states; "init" is the first
    HaltStates, \* the states whose name starts with "halt"
    Moves,      \* the move letters an instruction may carry
    Inputs,     \* the tape strings main.py may be given
    MaxSteps    \* bound on the iterations of the while loop

Blank == "_"
Wild == "*"
NoInstr == [write |-> "none", move |-> "none", next |-> "none"]
Past == "past"

ASSUME /\ Blank \in Symbols /\ "init" \in States /\ HaltStates \subseteq States
       /\ Inputs \subseteq Seq(Symbols) \ {<<>>}

\* The symbols an instruction reads and writes: "*" only in special mode.
ReadSyms == IF Special THEN Symbols \cup {Wild} ELSE Symbols
Instrs == [write : ReadSyms, move : Moves, next : States]

MaxInput == Max({Len(t) : t \in Inputs})
Window == (1 - MaxSteps)..(MaxInput + MaxSteps + 1)

VARIABLES
    tape,  \* the tape string
    index, \* the index into it
    state, \* the state
    pc,    \* "run", "halted", "crashed" (IndexError), "hung" (no line matches)
    prog,  \* the lines of the instruction file revealed so far
    steps, \* iterations so far
    rtape, \* ghost: the simulated machine's tape, over Window
    rhead, \* ghost: its head
    rstate \* ghost: its state

vars == <<tape, index, state, pc, prog, steps, rtape, rhead, rstate>>

----------------------------------------------------------------------------
\* tape[:index] + w + tape[index + 1:]
Replace(t, i, w) == SubSeq(t, 1, i) \o <<w>> \o SubSeq(t, i + 2, Len(t))

\* Lines 31-41: move, then the correction after writing a blank and moving
\* right.
Moved(i, ins) ==
    LET d == CASE ins.move = "R" -> 1 [] ins.move = "L" -> -1 [] OTHER -> 0
    IN  i + d - (IF ins.write = Blank /\ ins.move = "R" THEN 1 ELSE 0)

\* tape.strip("_")
Strip(t) ==
    LET keep == {k \in 1..Len(t) : t[k] # Blank}
    IN  IF keep = {} THEN <<>> ELSE SubSeq(t, Min(keep), Max(keep))

\* Lines 46-58: extend the tape by a blank at the end or the front when the
\* index has left it, otherwise strip the blanks at both ends; an empty
\* tape becomes "_".
Settle(t, i) ==
    LET r == CASE i >= Len(t) -> [t |-> t \o <<Blank>>, i |-> i]
               [] i < 0       -> [t |-> <<Blank>> \o t, i |-> 0]
               [] OTHER       -> [t |-> Strip(t), i |-> i]
    IN  IF r.t = <<>> THEN [r EXCEPT !.t = <<Blank>>] ELSE r

\* One matched instruction: write (a "*" keeps the symbol), move, set the
\* state, settle the tape.  In the "*" branch an index past the end of
\* the tape appends the written symbol instead.
Apply(ins) ==
    LET t1 == CASE ins.write = Wild      -> tape
                [] index >= Len(tape)    -> tape \o <<ins.write>>
                [] OTHER                 -> Replace(tape, index, ins.write)
        r == Settle(t1, Moved(index, ins))
    IN  /\ tape' = r.t
        /\ index' = r.i
        /\ state' = ins.next

\* The programs that agree with p and also fix the lines for the keys K.
Extend(p, K) ==
    { [k \in DOMAIN p \cup K |-> IF k \in DOMAIN p THEN p[k] ELSE f[k]] :
        f \in [K \ DOMAIN p -> Instrs \cup {NoInstr}] }

\* The lines a lookup for state s and symbol a consults: the line for
\* (s, a), and in special mode, when there is none or the index is past the
\* end of the tape (a = Past), the line for (s, "*").
Fetch(p, s, a) ==
    UNION { Extend(p1, IF Special /\ (a = Past \/ p1[<<s, a>>] = NoInstr)
                       THEN {<<s, Wild>>} ELSE {}) :
            p1 \in Extend(p, IF a = Past THEN {} ELSE {<<s, a>>}) }

\* The line the for loops of one iteration settle on.
Lookup(p, s, a) ==
    IF a # Past /\ p[<<s, a>>] # NoInstr THEN p[<<s, a>>]
    ELSE IF Special THEN p[<<s, Wild>>] ELSE NoInstr

\* The simulated machine's step with instruction ins.
RStep(ins) ==
    /\ rtape' = IF ins.write = Wild THEN rtape
                ELSE [rtape EXCEPT ![rhead] = ins.write]
    /\ rhead' = rhead + CASE ins.move = "R" -> 1 [] ins.move = "L" -> -1
                          [] OTHER -> 0
    /\ rstate' = ins.next

----------------------------------------------------------------------------
Init ==
    /\ \E t \in Inputs :
          /\ tape = t
          /\ rtape = [p \in Window |-> IF p \in 1..Len(t) THEN t[p] ELSE Blank]
    /\ index = 0
    /\ state = "init"
    /\ pc = "run"
    /\ prog = [k \in {} |-> NoInstr]
    /\ steps = 0
    /\ rhead = 1
    /\ rstate = "init"

\* The loop stops at a halting state.
Halt ==
    /\ pc = "run"
    /\ state \in HaltStates
    /\ pc' = "halted"
    /\ UNCHANGED <<tape, index, state, prog, steps, rtape, rhead, rstate>>

\* turing_process_normal reads tape[index]: past the end of the tape it
\* raises IndexError.
NormalCrash ==
    /\ pc = "run" /\ ~Special
    /\ state \notin HaltStates
    /\ index >= Len(tape)
    /\ pc' = "crashed"
    /\ UNCHANGED <<tape, index, state, prog, steps, rtape, rhead, rstate>>

\* One iteration of the while loop that finds its line: the first line for
\* (state, tape[index]), or in special mode, when there is none or the
\* index is past the end of the tape, the first line for (state, "*").
\* The simulated machine steps with its own line: the one for the symbol
\* under its head, else its "*" line.  No line for the simulator: the loop
\* repeats for ever.
Step ==
    /\ pc = "run"
    /\ state \notin HaltStates
    /\ steps < MaxSteps
    /\ Special \/ index < Len(tape)
    /\ LET a == IF index < Len(tape) THEN tape[index + 1] ELSE Past
       IN \E p1 \in Fetch(prog, state, a) :
          \E p2 \in Fetch(p1, rstate, rtape[rhead]) :
          LET use == Lookup(p2, state, a)
              ruse == Lookup(p2, rstate, rtape[rhead])
          IN /\ prog' = p2
             /\ steps' = steps + 1
             /\ IF use = NoInstr
                THEN /\ pc' = "hung"
                     /\ UNCHANGED <<tape, index, state>>
                ELSE /\ Apply(use)
                     /\ UNCHANGED pc
             /\ IF ruse = NoInstr THEN UNCHANGED <<rtape, rhead, rstate>>
                ELSE RStep(ruse)

\* The program has returned, crashed or loops for ever without a change;
\* or the bound on iterations is reached.
Stopped ==
    /\ pc # "run" \/ steps = MaxSteps
    /\ UNCHANGED vars

Next == Halt \/ NormalCrash \/ Step \/ Stopped

Spec == Init /\ [][Next]_vars

----------------------------------------------------------------------------
\* The simulator's string, starting at position o of the machine's tape,
\* with the index at the machine's head: every cell of the string is the
\* machine's, and the machine has blanks everywhere else.
Denotes(o) ==
    /\ rhead = o + index + 1
    /\ \A k \in 1..Len(tape) :
          tape[k] = IF o + k \in Window THEN rtape[o + k] ELSE Blank
    /\ \A q \in Window : q - o \notin 1..Len(tape) => rtape[q] = Blank

\* The simulator is a Turing machine: after every iteration of the while
\* loop the tape string, the index into it and the state are the
\* machine's configuration, up to where the string starts, and reading
\* tape[index] never raises.
MatchesMachine ==
    /\ pc # "crashed"
    /\ state = rstate
    /\ \E o \in (Min(Window) - Len(tape))..Max(Window) : Denotes(o)

=============================================================================
