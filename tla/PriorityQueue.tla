--------------------------- MODULE PriorityQueue ---------------------------
(***************************************************************************)
(* What a heap of the repository promises its callers: a multiset of      *)
(* items, insert adds one, delete takes out one of highest priority (the  *)
(* largest, or the smallest for a min heap) and may return it, delete on  *)
(* an empty heap raises HeapDeleteError, clear empties it.                 *)
(***************************************************************************)
EXTENDS Naturals, Bags, BagsExt

CONSTANTS
    Items,    \* the values inserted
    MaxFirst, \* the largest item has the highest priority
    Returns,  \* delete returns the item it takes out
    HasClear, \* the heap has clear()
    MaxSize   \* bound on the items held

VARIABLES
    contents, \* the bag of items held
    out       \* what the last call returned: an item, None or HeapDeleteError

vars == <<contents, out>>

\* What a call returns: None, an item, or HeapDeleteError raised.
NoReturn == [raised |-> FALSE, ret |-> <<>>]
Returned(t) == [raised |-> FALSE, ret |-> <<t>>]
HeapDeleteError == [raised |-> TRUE, ret |-> <<>>]

\* The items of highest priority.
Tops(B) == {x \in BagToSet(B) :
               \A y \in BagToSet(B) : IF MaxFirst THEN y <= x ELSE x <= y}

Init == contents = EmptyBag /\ out = NoReturn

Insert(x) ==
    /\ BagCardinality(contents) < MaxSize
    /\ contents' = BagAdd(contents, x)
    /\ out' = NoReturn

Delete ==
    /\ contents # EmptyBag
    /\ \E t \in Tops(contents) :
          /\ contents' = BagRemove(contents, t)
          /\ out' = IF Returns THEN Returned(t) ELSE NoReturn

DeleteEmpty ==
    /\ contents = EmptyBag
    /\ out' = HeapDeleteError
    /\ UNCHANGED contents

Clear ==
    /\ HasClear
    /\ contents' = EmptyBag
    /\ out' = NoReturn

Next == (\E x \in Items : Insert(x)) \/ Delete \/ DeleteEmpty \/ Clear

Spec == Init /\ [][Next]_vars

=============================================================================
