-------------------------------- MODULE BST --------------------------------
(***************************************************************************)
(* The binary search tree of src/AISDI/Drzewa/BST.py.  A node is a record *)
(* [v, l, r] and None is NIL; the code changes nodes in place, the model  *)
(* rebuilds the path from the top to the node it changes, which is the    *)
(* same tree.  Equal values go to the right.  One call is one step.        *)
(***************************************************************************)
EXTENDS Integers, Sequences, SequencesExt, Bags, BagsExt

CONSTANTS
    Items,   \* the values inserted, deleted and searched for
    MaxSize  \* bound on the nodes of the tree

NIL == [none |-> TRUE]   \* None

VARIABLES
    top,  \* BST_Tree.top
    out,  \* what the last call returned: the value of the node search
          \* found, None, or NoNodeError raised
    keys  \* ghost: the bag of values inserted and not deleted

vars == <<top, out, keys>>

\* What a call returns: None, a value, or NoNodeError raised.
NoReturn == [raised |-> FALSE, ret |-> <<>>]
Returned(v) == [raised |-> FALSE, ret |-> <<v>>]
NoNodeError == [raised |-> TRUE, ret |-> <<>>]

Node(x) == [v |-> x, l |-> NIL, r |-> NIL]

\* BST_Node.insert, and BST_Tree.insert for an empty tree.
RECURSIVE insert(_, _)
insert(t, x) ==
    CASE t = NIL   -> Node(x)
      [] x < t.v   -> [t EXCEPT !.l = insert(t.l, x)]
      [] OTHER     -> [t EXCEPT !.r = insert(t.r, x)]

\* The loop of search: the first node on the way down with the value.
RECURSIVE search(_, _)
search(t, x) ==
    CASE t = NIL \/ t.v = x -> t
      [] x < t.v            -> search(t.l, x)
      [] OTHER              -> search(t.r, x)

\* The two-children case: the smallest value of the right subtree, and the
\* subtree without its node (parent.set_left(child.get_right()), or
\* node_to_delete.set_right(child.get_right()) when it is the right child).
RECURSIVE Leftmost(_)
Leftmost(t) == IF t.l = NIL THEN t.v ELSE Leftmost(t.l)
\* Mutation: parent.set_left(None), dropping the successor's right subtree.
RECURSIVE DropLeftmost_lose(_)
DropLeftmost_lose(t) ==
    IF t.l = NIL THEN NIL ELSE [t EXCEPT !.l = DropLeftmost_lose(t.l)]
RECURSIVE DropLeftmost(_)
DropLeftmost(t) == IF t.l = NIL THEN t.r ELSE [t EXCEPT !.l = DropLeftmost(t.l)]

\* Mutation: the elif branch copies the right child, as the if branch does.
Unlink_copyright(t) ==
    CASE t.l = NIL /\ t.r = NIL -> NIL
      [] t.l = NIL              -> t.r
      [] t.r = NIL              -> t.r
      [] OTHER -> [t EXCEPT !.v = Leftmost(t.r), !.r = DropLeftmost(t.r)]

\* What delete puts in place of node_to_delete: nothing for a leaf, the
\* copy of its only child, or its successor's value over the right subtree
\* without the successor.
Unlink(t) ==
    CASE t.l = NIL /\ t.r = NIL -> NIL
      [] t.l = NIL              -> t.r
      [] t.r = NIL              -> t.l
      [] OTHER -> [t EXCEPT !.v = Leftmost(t.r), !.r = DropLeftmost(t.r)]

\* The search loop of delete (the first node with the value), then Unlink.
RECURSIVE delete(_, _)
delete(t, x) ==
    CASE t.v = x -> Unlink(t)
      [] x < t.v -> [t EXCEPT !.l = delete(t.l, x)]
      [] OTHER   -> [t EXCEPT !.r = delete(t.r, x)]

Init == top = NIL /\ out = NoReturn /\ keys = EmptyBag

Insert(x) ==
    /\ BagCardinality(keys) < MaxSize
    /\ top' = insert(top, x)
    /\ out' = NoReturn
    /\ keys' = BagAdd(keys, x)

Search(x) ==
    /\ out' = IF search(top, x) = NIL THEN NoReturn ELSE Returned(search(top, x).v)
    /\ UNCHANGED <<top, keys>>

\* delete raises NoNodeError when the search loop ends at None.
Delete(x) ==
    /\ IF search(top, x) = NIL
       THEN /\ out' = NoNodeError
            /\ UNCHANGED <<top, keys>>
       ELSE /\ top' = delete(top, x)
            /\ out' = NoReturn
            /\ keys' = BagRemove(keys, x)

Next == \E x \in Items : Insert(x) \/ Search(x) \/ Delete(x)

Spec == Init /\ [][Next]_vars

----------------------------------------------------------------------------
RECURSIVE InOrder(_)
InOrder(t) == IF t = NIL THEN <<>> ELSE InOrder(t.l) \o <<t.v>> \o InOrder(t.r)

\* Every node is above the values of its left subtree and at most those of
\* its right subtree.
RECURSIVE Ordered(_)
Ordered(t) ==
    t # NIL =>
       /\ \A k \in 1..Len(InOrder(t.l)) : InOrder(t.l)[k] < t.v
       /\ \A k \in 1..Len(InOrder(t.r)) : t.v <= InOrder(t.r)[k]
       /\ Ordered(t.l) /\ Ordered(t.r)

\* After any sequence of insert and delete calls the tree is a search tree
\* (equal values to the right) holding exactly the values inserted and not
\* deleted, and search(x) returns a node, and delete(x) does not raise
\* NoNodeError, exactly when x was inserted more often than deleted.
SearchTree ==
    /\ Ordered(top) /\ ToBag(InOrder(top)) = keys
    /\ \A x \in Items : (search(top, x) # NIL) = (x \in BagToSet(keys))

=============================================================================
