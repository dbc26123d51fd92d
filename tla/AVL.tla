-------------------------------- MODULE AVL --------------------------------
(***************************************************************************)
(* The AVL tree of src/Algorytmy_i_Struktury_Danych/Drzewa/AVL.py: insert *)
(* (insert_rec with its rotations) and search.  A node is a record        *)
(* [v, l, r, level]; None is NIL.  insert_rec returns the new root of the *)
(* subtree it was given, as the model's operator does.  Equal values go   *)
(* to the right.  One call is one step.                                    *)
(***************************************************************************)
EXTENDS Integers, Sequences, SequencesExt, Bags, BagsExt

CONSTANTS
    Items,   \* the values inserted and searched for
    MaxSize  \* bound on the nodes of the tree

NIL == [none |-> TRUE]   \* None

VARIABLES
    top,  \* AVL_Tree.top
    out,  \* the value of the node the last search returned, or None
    keys  \* ghost: the bag of values inserted

vars == <<top, out, keys>>

\* What a call returns: None, a value, or NoNodeError raised.
NoReturn == [raised |-> FALSE, ret |-> <<>>]
Returned(v) == [raised |-> FALSE, ret |-> <<v>>]

AVL_Node(x) == [v |-> x, l |-> NIL, r |-> NIL, level |-> 1]

check_level(n) == IF n = NIL THEN 0 ELSE n.level

check_balance_factor(n) ==
    IF n = NIL THEN 0 ELSE check_level(n.l) - check_level(n.r)

\* node.set_level(max(check_level(left), check_level(right)) + 1)
Relevel(n) ==
    [n EXCEPT !.level = IF check_level(n.l) >= check_level(n.r)
                        THEN check_level(n.l) + 1 ELSE check_level(n.r) + 1]

\* Mutation: node.set_level is left out; only the new root's level is set.
rotate_left_stale(n) ==
    LET nr == n.r
    IN  Relevel([nr EXCEPT !.l = [n EXCEPT !.r = nr.l]])

rotate_left(n) ==
    LET nr == n.r
    IN  Relevel([nr EXCEPT !.l = Relevel([n EXCEPT !.r = nr.l])])

\* Mutation: node.set_left(node_left_right) is left out.
rotate_right_keepleft(n) ==
    LET nl == n.l
    IN  Relevel([nl EXCEPT !.r = Relevel(n)])

rotate_right(n) ==
    LET nl == n.l
    IN  Relevel([nl EXCEPT !.r = Relevel([n EXCEPT !.l = nl.r])])

\* insert_rec: insert below, set the level, rotate when the balance factor
\* leaves -1..1 (right-right, right-left, left-left, left-right).
RECURSIVE insert_rec(_, _)
insert_rec(x, n) ==
    IF n = NIL THEN AVL_Node(x)
    ELSE LET n1 == Relevel(IF x >= n.v THEN [n EXCEPT !.r = insert_rec(x, n.r)]
                                       ELSE [n EXCEPT !.l = insert_rec(x, n.l)])
             bf == check_balance_factor(n1)
         IN  CASE bf < -1 /\ x >= n1.r.v -> rotate_left(n1)
               [] bf < -1 -> rotate_left([n1 EXCEPT !.r = rotate_right(n1.r)])
               [] bf > 1 /\ x < n1.l.v   -> rotate_right(n1)
               [] bf > 1 -> rotate_right([n1 EXCEPT !.l = rotate_left(n1.l)])
               [] OTHER  -> n1

\* The loop of search.
RECURSIVE search(_, _)
search(t, x) ==
    CASE t = NIL \/ t.v = x -> t
      [] x < t.v            -> search(t.l, x)
      [] OTHER              -> search(t.r, x)

Init == top = NIL /\ out = NoReturn /\ keys = EmptyBag

\* insert: the first node becomes the top, else the top is what
\* insert_rec returns.
Insert(x) ==
    /\ BagCardinality(keys) < MaxSize
    /\ top' = insert_rec(x, top)
    /\ out' = NoReturn
    /\ keys' = BagAdd(keys, x)

Search(x) ==
    /\ out' = IF search(top, x) = NIL THEN NoReturn ELSE Returned(search(top, x).v)
    /\ UNCHANGED <<top, keys>>

Next == \E x \in Items : Insert(x) \/ Search(x)

Spec == Init /\ [][Next]_vars

----------------------------------------------------------------------------
RECURSIVE InOrder(_)
InOrder(t) == IF t = NIL THEN <<>> ELSE InOrder(t.l) \o <<t.v>> \o InOrder(t.r)

RECURSIVE Height(_)
Height(t) == IF t = NIL THEN 0
             ELSE 1 + (IF Height(t.l) >= Height(t.r) THEN Height(t.l) ELSE Height(t.r))

RECURSIVE Nodes(_)
Nodes(t) == IF t = NIL THEN {} ELSE {t} \cup Nodes(t.l) \cup Nodes(t.r)

\* After any sequence of inserts insert_rec leaves an AVL search tree:
\* every node's stored level is the height of its subtree and the heights
\* of its two subtrees differ by at most one, the rotations keep the values
\* in order, the tree holds every value inserted, and search(x) finds a
\* node exactly for those values.
AvlSearchTree ==
    /\ \A n \in Nodes(top) :
          /\ n.level = Height(n)
          /\ Height(n.l) - Height(n.r) \in -1..1
    /\ ToBag(InOrder(top)) = keys
    /\ \A k \in 1..(Len(InOrder(top)) - 1) : InOrder(top)[k] <= InOrder(top)[k + 1]
    /\ \A x \in Items : (search(top, x) # NIL) = (x \in BagToSet(keys))

=============================================================================
