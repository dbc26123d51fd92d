-------------------------------- MODULE Sorts --------------------------------
(***************************************************************************)
(* The sorting functions of src/Algorytmy_i_Struktury_Danych/Sortowanie:  *)
(* BubbleSort, SelectionSort, InsertSort (each sorts a deep copy of the   *)
(* list it is given and returns it) and MergeSort with Merge.  Their      *)
(* loops are folds over the index sequences of Python's range(), a while  *)
(* loop a recursive operator.  A call is one step: the list it was given  *)
(* and the list it returned are the state.                                 *)
(***************************************************************************)
EXTENDS Integers, Sequences, SequencesExt

CONSTANTS
    Values, \* the list items
    MaxLen  \* the longest list

VARIABLES
    alg,    \* the function called last
    input,  \* the list it was given
    output  \* the list it returned

vars == <<alg, input, output>>

Lists == UNION {[1..n -> Values] : n \in 0..MaxLen}

\* range(lo, hi) as a sequence.
Range_(lo, hi) == [k \in 1..(hi - lo) |-> lo + k - 1]

\* mylist[j], j >= -len(mylist), and mylist[j] = x, j >= 0.
Get(b, j) == IF j >= 0 THEN b[j + 1] ELSE b[Len(b) + j + 1]
Set(b, j, x) == [b EXCEPT ![j + 1] = x]
Swap(b, i, j) == Set(Set(b, i, Get(b, j)), j, Get(b, i))

\* Mutation: the inner loop stops one pair early, range(n - i - 1).
BubbleSort_short(mylist) ==
    LET pass(b, i) ==
          FoldLeft(LAMBDA c, j : IF Get(c, j) > Get(c, j + 1) THEN Swap(c, j, j + 1)
                                 ELSE c,
                   b, Range_(0, Len(b) - i - 1))
    IN  FoldLeft(pass, mylist, Range_(1, Len(mylist)))

\* bubble_sort.py: for i in range(1, n), for j in range(n - i): swap
\* neighbours out of order.
BubbleSort(mylist) ==
    LET pass(b, i) ==
          FoldLeft(LAMBDA c, j : IF Get(c, j) > Get(c, j + 1) THEN Swap(c, j, j + 1)
                                 ELSE c,
                   b, Range_(0, Len(b) - i))
    IN  FoldLeft(pass, mylist, Range_(1, Len(mylist)))

\* Mutation: the search for the smallest stops before the last item.
SelectionSort_short(mylist) ==
    LET m(b, i) == FoldLeft(LAMBDA k, j : IF Get(b, j) < Get(b, k) THEN j ELSE k,
                            i, Range_(i + 1, Len(b) - 1))
        step(b, i) == Swap(b, m(b, i), i)
    IN  FoldLeft(step, mylist, Range_(0, Len(mylist) - 1))

\* selection_sort.py: for i in range(n - 1): the index m of the smallest of
\* mycopy[i:] (the first one), swapped with i.
SelectionSort(mylist) ==
    LET m(b, i) == FoldLeft(LAMBDA k, j : IF Get(b, j) < Get(b, k) THEN j ELSE k,
                            i, Range_(i + 1, Len(b)))
        step(b, i) == Swap(b, m(b, i), i)
    IN  FoldLeft(step, mylist, Range_(0, Len(mylist) - 1))

\* The while loop of insert_sort.py: shift right while mycopy[j] > pom and
\* j >= 0 (at j = -1 the first test reads the last item).  Returns the
\* list and j.
RECURSIVE ShiftRight(_, _, _)
ShiftRight(b, j, pom) ==
    IF Get(b, j) > pom /\ j >= 0 THEN ShiftRight(Set(b, j + 1, Get(b, j)), j - 1, pom)
    ELSE <<b, j>>

\* Mutation: the outer loop is range(1, n - 1), the last item stays put.
InsertSort_short(mylist) ==
    LET step(b, i) == LET r == ShiftRight(b, i - 1, Get(b, i))
                      IN  Set(r[1], r[2] + 1, Get(b, i))
    IN  FoldLeft(step, mylist, Range_(1, Len(mylist) - 1))

\* insert_sort.py: for i in range(1, n): take pom = mycopy[i], shift the
\* larger items before it right, put pom at j + 1.
InsertSort(mylist) ==
    LET step(b, i) == LET r == ShiftRight(b, i - 1, Get(b, i))
                      IN  Set(r[1], r[2] + 1, Get(b, i))
    IN  FoldLeft(step, mylist, Range_(1, Len(mylist)))

\* Mutation: the last while loop, copying the rest of the second list, is
\* left out.
RECURSIVE Merge_dropsecond(_, _)
Merge_dropsecond(first_list, second_list) ==
    CASE first_list = <<>> -> <<>>
      [] second_list = <<>> -> first_list
      [] Head(first_list) < Head(second_list) ->
             <<Head(first_list)>> \o Merge_dropsecond(Tail(first_list), second_list)
      [] OTHER ->
             <<Head(second_list)>> \o Merge_dropsecond(first_list, Tail(second_list))

\* merge_sort.py Merge: take the head of the first list when it is smaller,
\* else the head of the second; then the rest of the first, then the rest
\* of the second.
RECURSIVE Merge(_, _)
Merge(first_list, second_list) ==
    CASE first_list = <<>> -> second_list
      [] second_list = <<>> -> first_list
      [] Head(first_list) < Head(second_list) ->
             <<Head(first_list)>> \o Merge(Tail(first_list), second_list)
      [] OTHER ->
             <<Head(second_list)>> \o Merge(first_list, Tail(second_list))

RECURSIVE MergeSort(_)
MergeSort(mylist) ==
    IF Len(mylist) > 1
    THEN LET middle == Len(mylist) \div 2
         IN  Merge(MergeSort(SubSeq(mylist, 1, middle)),
                   MergeSort(SubSeq(mylist, middle + 1, Len(mylist))))
    ELSE mylist

Init == alg = "none" /\ input = <<>> /\ output = <<>>

Call(name, result) ==
    \E l \in Lists : alg' = name /\ input' = l /\ output' = result[l]

Next ==
    \/ Call("BubbleSort", [l \in Lists |-> BubbleSort(l)])
    \/ Call("SelectionSort", [l \in Lists |-> SelectionSort(l)])
    \/ Call("InsertSort", [l \in Lists |-> InsertSort(l)])
    \/ Call("MergeSort", [l \in Lists |-> MergeSort(l)])

Spec == Init /\ [][Next]_vars

----------------------------------------------------------------------------
\* Every one of the four sorts returns every list of up to MaxLen items in
\* non-decreasing order, with the items of the list given, each as often:
\* BubbleSort's pass i leaves the i largest items at the end, each swap of
\* SelectionSort puts the smallest of the rest at i, InsertSort's while
\* loop reads mycopy[-1] when the item is smaller than all before it, and
\* Merge of two sorted halves takes every item of both once.
SortedPermutation == IsSorted(output, <=) /\ ToBag(output) = ToBag(input)

=============================================================================
