-------------------------------- MODULE Heap --------------------------------
(***************************************************************************)
(* The array heaps of the repository, held in a Python list with the root *)
(* at index 0:                                                             *)
(*   - src/AISDI/Kopce/heap.py: a d-ary max heap with insert, delete (no  *)
(*     result) and clear;                                                  *)
(*   - src/AISDI/Grafy/heap.py: the binary min heap Dijkstra's get_path   *)
(*     uses, with insert and a delete that returns the root.              *)
(* Each call is one step: the heap is used by one thread.  Items are      *)
(* integers (the min heap's (dist, y, x) tuples compare as their order).  *)
(***************************************************************************)
EXTENDS Integers, Sequences, SequencesExt, Bags

CONSTANTS
    DAry,    \* the d-ary max heap of AISDI/Kopce, else the min heap of AISDI/Grafy
    D,       \* Heap.d (2 for the min heap)
    Items,   \* the values inserted
    MaxSize  \* bound on the items held

ASSUME D \in Nat \ {0, 1} /\ (~DAry => D = 2)

VARIABLES
    array, \* self.array
    out    \* what the last call returned: the root, None or HeapDeleteError

vars == <<array, out>>

\* What a call returns: None, an item, or HeapDeleteError raised.
NoReturn == [raised |-> FALSE, ret |-> <<>>]
Returned(t) == [raised |-> FALSE, ret |-> <<t>>]
HeapDeleteError == [raised |-> TRUE, ret |-> <<>>]

\* Index i of the Python list.
At(a, i) == a[i + 1]
Swap(a, i, j) == [a EXCEPT ![i + 1] = a[j + 1], ![j + 1] = a[i + 1]]

\* x must sit above y: array[parent] < item in the max heap, > in the min.
Above(x, y) == IF DAry THEN x > y ELSE x < y

\* The while loop of insert: swap the new item with its parent while the
\* parent should be below it.
RECURSIVE SiftUp(_, _, _)
SiftUp(a, n, item) ==
    LET p == (n - 1) \div D
    IN  IF n > 0 /\ Above(item, At(a, p)) THEN SiftUp(Swap(a, p, n), p, item)
        ELSE a

\* Mutation: a child is compared with array[ind] only, not with the best
\* child so far.
MaxChild_noindmax(a, ind, ind_max) ==
    LET kids == SelectSeq([k \in 1..D |-> ind * D + k], LAMBDA c : c < Len(a))
    IN  FoldLeft(LAMBDA m, c : IF Above(At(a, c), At(a, ind)) THEN c ELSE m,
                 ind_max, kids)

\* The for loop of delete: among the children of ind that exist, keep the
\* last one seen that is above both array[ind] and array[ind_max].
MaxChild(a, ind, ind_max) ==
    LET kids == SelectSeq([k \in 1..D |-> ind * D + k], LAMBDA c : c < Len(a))
    IN  FoldLeft(LAMBDA m, c : IF Above(At(a, c), At(a, ind))
                                  /\ Above(At(a, c), At(a, m))
                               THEN c ELSE m,
                 ind_max, kids)

\* The while loop of delete: swap the moved item with its best child while
\* one is above it.
RECURSIVE SiftDown(_, _, _)
SiftDown(a, ind, ind_max) ==
    IF ind >= Len(a) THEN a
    ELSE LET m == MaxChild(a, ind, ind_max)
         IN  IF m > ind THEN SiftDown(Swap(a, ind, m), m, m) ELSE a

Init == array = <<>> /\ out = NoReturn

\* insert(item): append, sift up.
Insert(item) ==
    /\ Len(array) < MaxSize
    /\ array' = SiftUp(Append(array, item), Len(array), item)
    /\ out' = NoReturn

\* Mutation: pop before copying the last item to the root.
Delete_popfirst ==
    /\ array # <<>>
    /\ LET a == SubSeq(array, 1, Len(array) - 1)
       IN  array' = SiftDown(IF a = <<>> THEN a ELSE [a EXCEPT ![1] = a[Len(a)]], 0, 0)
    /\ out' = IF DAry THEN NoReturn ELSE Returned(array[1])

\* delete(): copy the last item to the root, pop, sift down; the min heap
\* returns the old root.
Delete ==
    /\ array # <<>>
    /\ LET a == [array EXCEPT ![1] = array[Len(array)]]
       IN  array' = SiftDown(SubSeq(a, 1, Len(a) - 1), 0, 0)
    /\ out' = IF DAry THEN NoReturn ELSE Returned(array[1])

\* delete() on an empty heap raises HeapDeleteError.
DeleteEmpty ==
    /\ array = <<>>
    /\ out' = HeapDeleteError
    /\ UNCHANGED array

\* clear() of the d-ary heap.
Clear ==
    /\ DAry
    /\ array' = <<>>
    /\ out' = NoReturn

Next == (\E x \in Items : Insert(x)) \/ Delete \/ DeleteEmpty \/ Clear

Spec == Init /\ [][Next]_vars

----------------------------------------------------------------------------
PQ == INSTANCE PriorityQueue WITH MaxFirst <- DAry, Returns <- ~DAry,
                                  HasClear <- DAry, contents <- ToBag(array)

\* Every call behaves as the priority queue: the list holds exactly the
\* items inserted and not deleted, and delete takes out (and the min heap
\* returns) an item of highest priority.
ImplementsQueue == PQ!Spec

\* The heap property: no item of the list is above its parent
\* array[(k - 1) // d], after any sequence of inserts and deletes.
HeapOrdered ==
    \A k \in 1..(Len(array) - 1) : ~Above(At(array, k), At(array, (k - 1) \div D))

=============================================================================
