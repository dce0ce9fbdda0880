------------------------------ MODULE AvlTree ------------------------------
(***************************************************************************)
(* The intrusive AVL tree that orders the regions of an address space,     *)
(* source/mem/virt/avl/avl_tree.c and include/mem/virt/avl/avl_tree.h.     *)
(* A node has its two children, its parent and its balance factor; there   *)
(* is no stack and no recursion in the code, so every walk up relies on    *)
(* parent links that rotations and the swap with the successor rewrite.    *)
(* A child is selected by its sign, -1 for left and 1 for right, as in the *)
(* code's own templates.                                                   *)
(***************************************************************************)
EXTENDS Integers, Sequences, SequencesExt, FiniteSetsExt

CONSTANTS Nodes,        \* the items, numbered from 1
          Cmp(_, _)     \* the comparison callback on two items

ASSUME NodesAssumption == Nodes \subseteq Nat \ {0}

VARIABLES t,            \* root, child, parent and bal, the fields of the nodes
          members       \* the items inserted and not removed, for the properties

vars == <<t, members>>

NULL == 0
Sign == {-1, 1}

-----------------------------------------------------------------------------
(* Accessors.                                                              *)

avl_get_child(tr, n, sign) == tr.child[n][sign]
avl_get_parent(tr, n) == tr.parent[n]
avl_get_balance_factor(tr, n) == tr.bal[n]

avl_set_child(tr, n, sign, c) == [tr EXCEPT !.child[n][sign] = c]
avl_set_parent(tr, n, p) == [tr EXCEPT !.parent[n] = p]
avl_set_parent_balance(tr, n, p, b) == [tr EXCEPT !.parent[n] = p, !.bal[n] = b]
avl_adjust_balance_factor(tr, n, amount) == [tr EXCEPT !.bal[n] = @ + amount]

\* Slip: a subtree that changes sides keeps its old parent.
SlipSetParentIf(tr, n, p) == tr

SetParentIf(tr, n, p) == IF n = NULL THEN tr ELSE avl_set_parent(tr, n, p)

SideOf(tr, p, n) == IF n = tr.child[p][-1] THEN -1 ELSE 1

\* Slip: the root pointer is forgotten.
Slipavl_replace_child(tr, p, old, new) ==
    IF p = NULL THEN tr ELSE avl_set_child(tr, p, SideOf(tr, p, old), new)

avl_replace_child(tr, p, old, new) ==
    IF p = NULL THEN [tr EXCEPT !.root = new]
    ELSE avl_set_child(tr, p, SideOf(tr, p, old), new)

-----------------------------------------------------------------------------
(* Rotations.                                                              *)

avl_rotate(tr, A, sign) ==
    LET B  == avl_get_child(tr, A, -sign)
        E  == avl_get_child(tr, B, sign)
        P  == avl_get_parent(tr, A)
        t1 == avl_set_parent(avl_set_child(tr, A, -sign, E), A, B)
        t2 == avl_set_parent(avl_set_child(t1, B, sign, A), B, P)
    IN  avl_replace_child(SetParentIf(t2, E, A), P, A, B)

\* Slip: the wrong one of the two nodes below E stays out of balance.
SlipBalanceBelow(sign, e) == IF sign * e <= 0 THEN 0 ELSE -e

\* What A is left with when E, of balance factor e, has taken its place; for B
\* it is the same with the other sign.
BalanceBelow(sign, e) == IF sign * e >= 0 THEN 0 ELSE -e

avl_do_double_rotate(tr, B, A, sign) ==
    LET E  == avl_get_child(tr, B, sign)
        F  == avl_get_child(tr, E, -sign)
        G  == avl_get_child(tr, E, sign)
        P  == avl_get_parent(tr, A)
        e  == avl_get_balance_factor(tr, E)
        t1 == avl_set_parent_balance(avl_set_child(tr, A, -sign, G), A, E, BalanceBelow(sign, e))
        t2 == avl_set_parent_balance(avl_set_child(t1, B, sign, F), B, E, BalanceBelow(-sign, e))
        t3 == avl_set_child(avl_set_child(t2, E, sign, A), E, -sign, B)
        t4 == avl_set_parent_balance(t3, E, P, 0)
    IN  [t |-> avl_replace_child(SetParentIf(SetParentIf(t4, G, A), F, B), P, A, E), E |-> E]

-----------------------------------------------------------------------------
(* Insertion.                                                              *)

\* The tree after the growth of node, the child of parent on the side sign, and
\* whether the whole tree is balanced again.
avl_handle_subtree_growth(tr, node, parent, sign) ==
    LET old == avl_get_balance_factor(tr, parent)
    IN  CASE old = 0 -> [t |-> avl_adjust_balance_factor(tr, parent, sign), done |-> FALSE]
          [] old + sign = 0 -> [t |-> avl_adjust_balance_factor(tr, parent, sign), done |-> TRUE]
          [] OTHER ->
                [done |-> TRUE,
                 t |-> IF sign * avl_get_balance_factor(tr, node) > 0
                       THEN avl_adjust_balance_factor(
                                avl_adjust_balance_factor(avl_rotate(tr, parent, -sign),
                                                          parent, -sign),
                                node, -sign)
                       ELSE avl_do_double_rotate(tr, node, parent, -sign).t]

RECURSIVE GrowUp(_, _)
GrowUp(tr, node) ==
    LET parent == avl_get_parent(tr, node)
    IN  IF parent = NULL THEN tr
        ELSE LET g == avl_handle_subtree_growth(tr, node, parent, SideOf(tr, parent, node))
             IN  IF g.done THEN g.t ELSE GrowUp(g.t, parent)

avl_tree_rebalance_after_insert(tr, inserted) ==
    LET t1     == [tr EXCEPT !.child[inserted] = [s \in Sign |-> NULL]]
        parent == avl_get_parent(t1, inserted)
        t2     == avl_adjust_balance_factor(t1, parent, SideOf(t1, parent, inserted))
    IN  IF parent = NULL THEN t1
        ELSE IF avl_get_balance_factor(t2, parent) = 0 THEN t2 ELSE GrowUp(t2, parent)

\* The walk down: the node where it ends, and the side on which it fell off the
\* tree, 0 when it met an item that compares equal.  cmp[n] is what the callback
\* says of the item sought and the node n.
RECURSIVE Descend(_, _, _)
Descend(tr, cmp, cur) ==
    IF cmp[cur] = 0 \/ tr.child[cur][cmp[cur]] = NULL THEN [cur |-> cur, side |-> cmp[cur]]
    ELSE Descend(tr, cmp, tr.child[cur][cmp[cur]])

avl_tree_lookup(tr, cmp) ==
    IF tr.root = NULL THEN NULL
    ELSE LET d == Descend(tr, cmp, tr.root) IN IF d.side = 0 THEN d.cur ELSE NULL

\* The tree after the call, and the item that compared equal if there was one.
avl_tree_insert(tr, item) ==
    LET d       == Descend(tr, [n \in Nodes |-> Cmp(item, n)], tr.root)
        linked  == IF tr.root = NULL
                   THEN avl_set_parent_balance([tr EXCEPT !.root = item], item, NULL, 0)
                   ELSE avl_set_parent_balance(avl_set_child(tr, d.cur, d.side, item), item, d.cur, 0)
    IN  IF tr.root # NULL /\ d.side = 0 THEN [t |-> tr, found |-> d.cur]
        ELSE [t |-> avl_tree_rebalance_after_insert(linked, item), found |-> NULL]

-----------------------------------------------------------------------------
(* Removal.                                                                *)

\* The tree after the subtree of parent opposite sign has become one lower; the
\* parent to go on with, NULL when the height has not changed, and its sign.
avl_handle_subtree_shrink(tr, parent, sign) ==
    LET old  == avl_get_balance_factor(tr, parent)
        node == avl_get_child(tr, parent, sign)
        nb   == avl_get_balance_factor(tr, node)
        s    == CASE old = 0 -> [t |-> avl_adjust_balance_factor(tr, parent, sign), top |-> NULL]
                  [] old + sign = 0 ->
                        [t |-> avl_adjust_balance_factor(tr, parent, sign), top |-> parent]
                  [] old = sign /\ sign * nb >= 0 ->
                        LET r == avl_rotate(tr, parent, -sign)
                        IN  IF nb = 0
                            THEN [t |-> avl_adjust_balance_factor(r, node, -sign), top |-> NULL]
                            ELSE [t |-> avl_adjust_balance_factor(
                                            avl_adjust_balance_factor(r, parent, -sign), node, -sign),
                                  top |-> node]
                  [] OTHER ->
                        LET r == avl_do_double_rotate(tr, node, parent, -sign)
                        IN  [t |-> r.t, top |-> r.E]
        p    == IF s.top = NULL THEN NULL ELSE avl_get_parent(s.t, s.top)
    IN  [t |-> s.t, parent |-> p, sign |-> IF p = NULL THEN 0 ELSE -SideOf(s.t, p, s.top)]

RECURSIVE ShrinkUp(_, _, _)
ShrinkUp(tr, parent, sign) ==
    IF parent = NULL THEN tr
    ELSE LET s == avl_handle_subtree_shrink(tr, parent, sign)
         IN  ShrinkUp(s.t, s.parent, s.sign)

\* The node at the end of the path that keeps to one side.
RECURSIVE Extreme(_, _, _)
Extreme(tr, n, sign) ==
    IF n = NULL \/ tr.child[n][sign] = NULL THEN n ELSE Extreme(tr, tr.child[n][sign], sign)

\* X, with two children, gives its place to its successor Y and is unlinked.
avl_tree_swap_with_successor(tr, X) ==
    LET first == avl_get_child(tr, X, 1)
        Y     == Extreme(tr, first, -1)
        Q     == avl_get_parent(tr, Y)
        right == avl_get_child(tr, Y, 1)
        t1    == IF Y = first THEN tr
                 ELSE avl_set_parent(
                          avl_set_child(SetParentIf(avl_set_child(tr, Q, -1, right), right, Q),
                                        Y, 1, avl_get_child(tr, X, 1)),
                          first, Y)
        left  == avl_get_child(tr, X, -1)
        t2    == avl_set_parent(avl_set_child(t1, Y, -1, left), left, Y)
        t3    == avl_set_parent_balance(t2, Y, avl_get_parent(t2, X), avl_get_balance_factor(t2, X))
    IN  [t |-> avl_replace_child(t3, avl_get_parent(t3, X), X, Y),
         parent |-> IF Y = first THEN Y ELSE Q, sign |-> IF Y = first THEN -1 ELSE 1]

avl_tree_remove(tr, node) ==
    LET left   == avl_get_child(tr, node, -1)
        right  == avl_get_child(tr, node, 1)
        child  == IF left # NULL THEN left ELSE right
        parent == avl_get_parent(tr, node)
        side   == SideOf(tr, parent, node)
        s      == avl_tree_swap_with_successor(tr, node)
    IN  CASE left # NULL /\ right # NULL -> ShrinkUp(s.t, s.parent, s.sign)
          [] (left = NULL \/ right = NULL) /\ parent = NULL ->
                [SetParentIf(tr, child, NULL) EXCEPT !.root = child]
          [] OTHER -> ShrinkUp(SetParentIf(avl_set_child(tr, parent, side, child), child, parent),
                               parent, -side)

-----------------------------------------------------------------------------
(* Traversals.                                                             *)

avl_tree_first_or_last_in_order(tr, sign) == Extreme(tr, tr.root, sign)

RECURSIVE ClimbWhile(_, _, _)
ClimbWhile(tr, n, sign) ==
    LET p == avl_get_parent(tr, n)
    IN  IF p # NULL /\ n = tr.child[p][sign] THEN ClimbWhile(tr, p, sign) ELSE p

avl_tree_next_or_prev_in_order(tr, n, sign) ==
    IF tr.child[n][sign] # NULL THEN Extreme(tr, tr.child[n][sign], -sign)
    ELSE ClimbWhile(tr, n, sign)

\* The leaf reached by taking the left child where there is one.
RECURSIVE FirstLeaf(_, _)
FirstLeaf(tr, n) ==
    CASE n = NULL -> NULL
      [] n # NULL /\ tr.child[n][-1] # NULL -> FirstLeaf(tr, tr.child[n][-1])
      [] n # NULL /\ tr.child[n][-1] = NULL /\ tr.child[n][1] # NULL ->
            FirstLeaf(tr, tr.child[n][1])
      [] OTHER -> n

avl_tree_first_in_postorder(tr) == FirstLeaf(tr, tr.root)

\* Slip: the sibling subtree is entered at its root.
Slipavl_tree_next_in_postorder(tr, prev, prev_parent) ==
    IF prev_parent # NULL /\ prev = tr.child[prev_parent][-1] /\ tr.child[prev_parent][1] # NULL
    THEN tr.child[prev_parent][1]
    ELSE prev_parent

avl_tree_next_in_postorder(tr, prev, prev_parent) ==
    IF prev_parent # NULL /\ prev = tr.child[prev_parent][-1] /\ tr.child[prev_parent][1] # NULL
    THEN FirstLeaf(tr, tr.child[prev_parent][1])
    ELSE prev_parent

-----------------------------------------------------------------------------
(* The specification.  A node that is not in the tree holds values no call *)
(* reads before insertion writes them: they are kept at one value.         *)

Forget(tr, n) == [tr EXCEPT !.child[n] = [s \in Sign |-> NULL], !.parent[n] = NULL, !.bal[n] = 0]

Init ==
    /\ t = [root |-> NULL, child |-> [n \in Nodes |-> [s \in Sign |-> NULL]],
            parent |-> [n \in Nodes |-> NULL], bal |-> [n \in Nodes |-> 0]]
    /\ members = {}

InsertItem(n) ==
    LET i == avl_tree_insert(t, n)
    IN  /\ n \notin members
        /\ t' = i.t
        /\ members' = IF i.found = NULL THEN members \cup {n} ELSE members

RemoveItem(n) ==
    /\ n \in members
    /\ t' = Forget(avl_tree_remove(t, n), n)
    /\ members' = members \ {n}

Next == \E n \in Nodes : InsertItem(n) \/ RemoveItem(n)

Spec == Init /\ [][Next]_vars

-----------------------------------------------------------------------------
(* Properties.                                                             *)

TypeOK ==
    /\ t.root \in Nodes \cup {NULL}
    /\ t.child \in [Nodes -> [Sign -> Nodes \cup {NULL}]]
    /\ t.parent \in [Nodes -> Nodes \cup {NULL}]
    /\ t.bal \in [Nodes -> -1 .. 1]
    /\ members \subseteq Nodes

RECURSIVE Height(_, _)
Height(tr, n) ==
    IF n = NULL THEN 0 ELSE 1 + Max({Height(tr, tr.child[n][s]) : s \in Sign})

\* The balance factor of every node of the tree is the difference of the heights
\* of its subtrees and is at most one either way: no chain of rotations, of which
\* a removal may make several, leaves avl_adjust_balance_factor with a wrong sum.
BalanceIsHeightDifference ==
    \A n \in members :
        /\ t.bal[n] = Height(t, t.child[n][1]) - Height(t, t.child[n][-1])
        /\ t.bal[n] \in -1 .. 1

\* Links and balance factors after any history of avl_tree_insert and
\* avl_tree_remove: of their types, and true to the heights of the subtrees.
TreeBalanced == TypeOK /\ BalanceIsHeightDifference

\* The items met by next (sign 1) or prev (sign -1) from the node n on, as many
\* as there can be.
Walk(start, Step(_)) ==
    FoldLeft(LAMBDA w, i : IF w.at = NULL THEN w
                           ELSE [seen |-> Append(w.seen, w.at), at |-> Step(w.at)],
             [seen |-> <<>>, at |-> start], [i \in 1 .. Cardinality(Nodes) + 1 |-> i]).seen

Visits(sign) == Walk(avl_tree_first_or_last_in_order(t, -sign),
                     LAMBDA n : avl_tree_next_or_prev_in_order(t, n, sign))

\* Walking with avl_tree_next_in_order meets exactly the items inserted and not
\* removed, in the order of the comparison, and avl_tree_prev_in_order meets them
\* in the reverse order: the children, the parent links and the search order agree.
TraversalIsSorted ==
    LET up == Visits(1)
    IN  /\ ToSet(up) = members
        /\ \A i \in 1 .. Len(up) - 1 : Cmp(up[i], up[i + 1]) = -1
        /\ Visits(-1) = Reverse(up)

\* avl_tree_next_in_postorder may be used to free the nodes on the way: it meets
\* every item once, and each before its parent, from which the walk goes on.
PostorderFreesChildrenFirst ==
    LET seen == Walk(avl_tree_first_in_postorder(t),
                     LAMBDA n : avl_tree_next_in_postorder(t, n, avl_get_parent(t, n)))
    IN  /\ ToSet(seen) = members
        /\ Len(seen) = Cardinality(members)
        /\ \A i, j \in 1 .. Len(seen) : t.parent[seen[i]] = seen[j] => i < j

\* The three walks over the tree meet its items, each in the order it announces.
TraversalsInOrder == TraversalIsSorted /\ PostorderFreesChildrenFirst

\* avl_tree_lookup finds an item that compares equal when there is one, and
\* avl_tree_insert, which makes the same walk, refuses an item for such a one only.
LookupFindsEqual ==
    \A n \in Nodes : LET f == avl_tree_lookup(t, [k \in Nodes |-> Cmp(n, k)])
                     IN  IF \E k \in members : Cmp(n, k) = 0
                         THEN f \in members /\ Cmp(n, f) = 0
                         ELSE f = NULL
=============================================================================
