------------------------------ MODULE GridGraph ------------------------------
(***************************************************************************)
(* Graph of src/Algorytmy_i_Struktury_Danych/Grafy/graph.py: a board of   *)
(* digits, whose two 0 cells are start and end (in row-major order);       *)
(* entering a cell costs its digit.  get_path runs Dijkstra's algorithm    *)
(* with the binary min heap of Heap.tla (lazy deletion: a cell may be in  *)
(* the heap several times, a popped cell already visited is skipped), then *)
(* walks back from the end, each time to the neighbour of least distance.  *)
(* One iteration of either while loop is one step.                         *)
(*                                                                         *)
(* A heap entry (distance, y, x) is the integer distance*100 + y*10 + x,  *)
(* which orders as the tuple does for boards of at most 10 x 10 cells.    *)
(***************************************************************************)
EXTENDS Integers, Sequences, SequencesExt, FiniteSets, FiniteSetsExt

CONSTANTS
    Height,  \* rows of the board
    Width,   \* columns of the board
    Weights  \* the digits other than 0 on the board

ASSUME Height \in 1..10 /\ Width \in 1..10 /\ Weights \subseteq 1..9

Inf == 100000   \* float("inf")
Cells == (0..(Height - 1)) \X (0..(Width - 1))
NoCell == <<-1, -1>>

\* The boards load accepts: exactly two 0 cells.
Boards == UNION { { [c \in Cells |-> IF c \in z THEN 0 ELSE w[c]] :
                    w \in [Cells \ z -> Weights] } : z \in kSubset(2, Cells) }

\* [(0, 1), (0, -1), (1, 0), (-1, 0)] as (x_change, y_change), in order.
Changes == <<<<0, 1>>, <<0, -1>>, <<1, 0>>, <<-1, 0>>>>

\* The neighbour of cell c = (y, x) in direction ch, if on the board.
Neighbour(c, ch) == <<c[1] + ch[2], c[2] + ch[1]>>
OnBoard(c) == c \in Cells

Enc(d, c) == d * 100 + c[1] * 10 + c[2]
DecDist(e) == e \div 100
DecCell(e) == <<(e % 100) \div 10, e % 10>>

HP == INSTANCE Heap WITH DAry <- FALSE, D <- 2, Items <- {}, MaxSize <- 0,
                         array <- <<>>, out <- [raised |-> FALSE, ret |-> <<>>]

\* Heap.insert and Heap.delete of AISDI/Grafy/heap.py.
HeapInsert(h, e) == HP!SiftUp(Append(h, e), Len(h), e)
HeapRest(h) == HP!SiftDown(SubSeq([h EXCEPT ![1] = h[Len(h)]], 1, Len(h) - 1), 0, 0)

Adjacent(c, n) == \E i \in 1..Len(Changes) : Neighbour(c, Changes[i]) = n

VARIABLES
    board,    \* self.board
    start,    \* self.start
    end,      \* self.end
    visited,  \* the cells visited
    distance, \* distance[y][x]
    myheap,   \* the heap's array
    cur,      \* cur_point of the walk back
    path,     \* self.path
    phase     \* "idle", "search" (first loop), "walk" (second), "done"

vars == <<board, start, end, visited, distance, myheap, cur, path, phase>>

Init ==
    /\ board = [c \in Cells |-> 1]
    /\ start = NoCell /\ end = NoCell
    /\ visited = {}
    /\ distance = [c \in Cells |-> Inf]
    /\ myheap = <<>>
    /\ cur = NoCell
    /\ path = <<>>
    /\ phase = "idle"

\* Graph(filepath): load a board (start and end are the first and second 0
\* in row-major order), then get_path up to its first loop.
Load ==
    /\ phase = "idle"
    /\ \E b \in Boards :
          LET zeros == {c \in Cells : b[c] = 0}
              s == CHOOSE c \in zeros : \A o \in zeros : c = o \/ c[1] < o[1]
                                          \/ (c[1] = o[1] /\ c[2] < o[2])
          IN  /\ board' = b
              /\ start' = s
              /\ end' = CHOOSE c \in zeros : c # s
              /\ distance' = [c \in Cells |-> IF c = s THEN 0 ELSE Inf]
              /\ myheap' = <<Enc(0, s)>>
    /\ visited' = {}
    /\ cur' = NoCell
    /\ path' = <<>>
    /\ phase' = "search"

\* Mutation: the step costs the digit of the cell left, not the one entered.
Relax_leaving(acc, ch, c, d, vis) ==
    LET n == Neighbour(c, ch)
        nd == d + board[c]
    IN  IF OnBoard(n) /\ n \notin vis /\ nd < acc.dist[n]
        THEN [dist |-> [acc.dist EXCEPT ![n] = nd], heap |-> HeapInsert(acc.heap, Enc(nd, n))]
        ELSE acc

\* The for loop over the neighbours of a cell popped for the first time:
\* a neighbour not visited whose distance improves gets it and is pushed.
Relax(acc, ch, c, d, vis) ==
    LET n == Neighbour(c, ch)
        nd == d + board[n]
    IN  IF OnBoard(n) /\ n \notin vis /\ nd < acc.dist[n]
        THEN [dist |-> [acc.dist EXCEPT ![n] = nd], heap |-> HeapInsert(acc.heap, Enc(nd, n))]
        ELSE acc

\* One iteration of the first while loop: pop the least entry; skip it if
\* its cell was visited, else visit it and relax its neighbours.
Pop ==
    /\ phase = "search"
    /\ myheap # <<>>
    /\ LET e == myheap[1]
           c == DecCell(e)
           rest == HeapRest(myheap)
       IN  IF c \in visited
           THEN /\ myheap' = rest
                /\ UNCHANGED <<visited, distance>>
           ELSE LET r == FoldLeft(LAMBDA acc, ch :
                                     Relax(acc, ch, c, DecDist(e), visited \cup {c}),
                                  [dist |-> distance, heap |-> rest], Changes)
                IN  /\ visited' = visited \cup {c}
                    /\ distance' = r.dist
                    /\ myheap' = r.heap
    /\ UNCHANGED <<board, start, end, cur, path, phase>>

\* The heap is empty: the walk starts at the end.
SearchDone ==
    /\ phase = "search"
    /\ myheap = <<>>
    /\ cur' = end
    /\ path' = <<>>
    /\ phase' = "walk"
    /\ UNCHANGED <<board, start, end, visited, distance, myheap>>

\* One iteration of the second while loop: append the cell, move to the
\* first neighbour of least distance.
Walk ==
    /\ phase = "walk"
    /\ cur # start
    /\ path' = Append(path, cur)
    /\ cur' = FoldLeft(LAMBDA best, ch :
                          LET n == Neighbour(cur, ch)
                          IN  IF OnBoard(n) /\ distance[n] < (IF best = NoCell THEN Inf
                                                             ELSE distance[best])
                              THEN n ELSE best,
                       NoCell, Changes)
    /\ UNCHANGED <<board, start, end, visited, distance, myheap, phase>>

\* Mutation: self.path[::-1] is left out.
WalkDone_noreverse ==
    /\ phase = "walk"
    /\ cur = start
    /\ path' = Append(path, start)
    /\ phase' = "done"
    /\ UNCHANGED <<board, start, end, visited, distance, myheap, cur>>

\* The walk reached the start: append it and reverse the path.
WalkDone ==
    /\ phase = "walk"
    /\ cur = start
    /\ path' = Reverse(Append(path, start))
    /\ phase' = "done"
    /\ UNCHANGED <<board, start, end, visited, distance, myheap, cur>>

\* Graph() has returned.
Finished ==
    /\ phase = "done"
    /\ UNCHANGED vars

Next == Load \/ Pop \/ SearchDone \/ Walk \/ WalkDone \/ Finished

Spec == Init /\ [][Next]_vars

----------------------------------------------------------------------------
\* The costs of reaching the cells from the start are the one solution of
\* Bellman's equations: 0 at the start, elsewhere the cell's digit more
\* than the least of its neighbours (unique, as only the end may cost 0).
SolvesBellman(d) ==
    /\ d[start] = 0
    /\ \A c \in Cells \ {start} :
          d[c] = Min({d[n] + board[c] : n \in {n \in Cells : Adjacent(n, c)}})

\* When the first loop of get_path ends (the heap empty, every cell
\* visited), distance holds the least cost of reaching every cell: the lazy
\* deletion and the visited checks lose no improvement.  get_path then
\* returns a path of neighbouring cells from start to end whose cost (the
\* digits of the cells entered) is distance[end], the least possible: the
\* walk back to the neighbour of least distance never takes a detour.
ShortestPath ==
    /\ phase \in {"walk", "done"} => SolvesBellman(distance)
    /\ phase = "done" =>
          /\ path[1] = start /\ path[Len(path)] = end
          /\ \A k \in 1..(Len(path) - 1) : Adjacent(path[k], path[k + 1])
          /\ FoldLeft(LAMBDA s, c : s + board[c], 0, path) = distance[end]

=============================================================================
