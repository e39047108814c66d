------------------------------ MODULE RedBlack -------------------------------
(***************************************************************************)
(* The algorithms of redblack.c as operators on the value of a tree.       *)
(*                                                                         *)
(* An element and the node inside it (RB_ELEMENT, RB_NODE: one address     *)
(* plus or minus the offset) are one number, its key.  Nil is the node     *)
(* pTree->root: the end of every branch, the parent of the top, and what   *)
(* the functions return for "none".  The code has every case twice, with   *)
(* left and right exchanged; here the side is a parameter.                 *)
(***************************************************************************)
EXTENDS Integers, Sequences

CONSTANTS Elem      \* the elements of an application, positive integers

ASSUME ElemAssumption == Elem \subseteq Nat \ {0}

Nil  == 0
Node == Elem \union {Nil}
Side == {"left", "right"}
Colour == {"black", "red"}

Other(d) == IF d = "left" THEN "right" ELSE "left"

\* rb_tree_t
Tree == [pRoot : Node, kid : [Side -> [Node -> Node]], up : [Node -> Node],
         color : [Node -> Colour], count : Nat]

\* rb_tree_init.  What a node outside the tree holds is the application's.
EmptyTree ==
    [pRoot |-> Nil,
     kid   |-> [d \in Side |-> [n \in Node |-> Nil]],
     up    |-> [n \in Node |-> Nil],
     color |-> [n \in Node |-> "black"],
     count |-> 0]

\* The nodes at or below n.
Below(t, n) ==
    LET B[m \in Node] ==
            IF m = Nil THEN {}
                       ELSE {m} \union B[t.kid["left"][m]]
                                \union B[t.kid["right"][m]]
    IN  B[n]

Elements(t) == Below(t, t.pRoot)

-----------------------------------------------------------------------------
(* Links and colours                                                       *)

Paint(t, n, c) == [t EXCEPT !.color[n] = c]

\* The side n is on.  The code asks only "is it the left child?".
SideOf(t, n) == IF t.kid["left"][t.up[n]] = n THEN "left" ELSE "right"

\* The parent of n, or the pointer to the top, now points to m.
Hang(t, n, m) ==
    IF t.up[n] = Nil THEN [t EXCEPT !.pRoot = m]
                     ELSE [t EXCEPT !.kid[SideOf(t, n)][t.up[n]] = m]

\* rb_rotate_left (d = "left") and rb_rotate_right: n sinks to the side d and
\* its child on the other side takes its place.
Rotate(t, n, d) ==
    LET y     == t.kid[Other(d)][n]
        b     == t.kid[d][y]
        moved == [t EXCEPT !.kid[Other(d)][n] = b,
                           !.up[b] = IF b = Nil THEN @ ELSE n,
                           !.up[y] = t.up[n]]
    IN  [Hang(moved, n, y) EXCEPT !.kid[d][y] = n, !.up[n] = y]

-----------------------------------------------------------------------------
(* Search                                                                  *)

\* The way from x down to the key k: where it ends, and the last real node on
\* it (y while there is none).
Descend(t, k, x, y) ==
    LET D[w \in Node \X Node] ==
            IF w[1] \in {Nil, k}
            THEN [node |-> w[1], last |-> IF w[1] = Nil THEN w[2] ELSE w[1]]
            ELSE D[<<t.kid[IF k < w[1] THEN "left" ELSE "right"][w[1]], w[1]>>]
    IN  D[<<x, y>>]

Find(t, k) == Descend(t, k, t.pRoot, Nil)

Get(t, k) == IF t.pRoot = Nil THEN Nil ELSE Find(t, k).node

Leftmost(t, n) ==
    LET L[m \in Node] ==
            IF t.kid["left"][m] = Nil THEN m ELSE L[t.kid["left"][m]]
    IN  L[n]

GetFirst(t) == IF t.pRoot = Nil THEN Nil ELSE Leftmost(t, t.pRoot)

\* Up from n while it is the right child of its parent y.
ClimbFrom(t, n, y) ==
    LET C[w \in Node \X Node] ==
            IF w[2] # Nil /\ w[1] = t.kid["right"][w[2]]
            THEN C[<<w[2], t.up[w[2]]>>]
            ELSE w[2]
    IN  C[<<n, y>>]

\* Fault: no climb.
SuccessorParent(t, n) ==
    IF t.kid["right"][n] # Nil THEN Leftmost(t, t.kid["right"][n]) ELSE t.up[n]

Successor(t, n) ==
    IF t.kid["right"][n] # Nil THEN Leftmost(t, t.kid["right"][n])
                               ELSE ClimbFrom(t, n, t.up[n])

\* __rb_tree_get_next: the key need not be in the tree.
GetNext(t, k) ==
    LET way == Find(t, k)
        n   == way.last
    IN  IF t.pRoot = Nil THEN Nil
        ELSE IF way.node # Nil \/ k > n THEN Successor(t, n)
        ELSE n

\* __rb_tree_get_next_from_node: NULL asks for the first.  The parameter is, as
\* its comment says, the rb_node_t of an element, and the result the element:
\* one number stands for both.
GetNextFromNode(t, n) == IF n = Nil THEN GetFirst(t) ELSE Successor(t, n)

\* __rb_tree_step: NULL asks for the top, dir 0 for the element itself.
Step(t, n, dir) ==
    IF n = Nil THEN t.pRoot
    ELSE IF dir > 0 THEN t.kid["right"][n]
    ELSE IF dir < 0 THEN t.kid["left"][n]
    ELSE n

-----------------------------------------------------------------------------
(* Insertion                                                               *)

\* The new node e under y, or at the top.
Attach(t, e, y) ==
    LET linked == IF y = Nil THEN [t EXCEPT !.pRoot = e]
                  ELSE [t EXCEPT !.kid[IF e < y THEN "left" ELSE "right"][y] = e]
    IN  [linked EXCEPT !.up[e] = y,
                       !.kid["left"][e] = Nil, !.kid["right"][e] = Nil,
                       !.color[e] = "red"]

\* The loop that goes up from the new red node x: its condition, the two ways
\* of a turn, and what follows it.
InsertOver(t, x) == x = t.pRoot \/ t.color[t.up[x]] = "black"

Uncle(t, x) ==
    LET p == t.up[x]
    IN  t.kid[Other(SideOf(t, p))][t.up[p]]

Recolour(t, x) ==
    LET p == t.up[x]
        g == t.up[p]
    IN  [t EXCEPT !.color[p] = "black", !.color[Uncle(t, x)] = "black",
                  !.color[g] = "red"]

\* x is an inner grandchild: its parent p sinks.
Straighten(t, x) ==
    LET p == t.up[x]
        d == SideOf(t, p)
    IN  IF x = t.kid[Other(d)][p] THEN [tree |-> Rotate(t, p, d), at |-> p]
                                  ELSE [tree |-> t, at |-> x]

\* x is an outer grandchild, on the side d of its parent.
Topple(t, x, d) ==
    LET p == t.up[x]
        g == t.up[p]
    IN  Rotate(Paint(Paint(t, p, "black"), g, "red"), g, Other(d))

InsertTurn(t, x) ==
    LET d == SideOf(t, t.up[x])
        s == Straighten(t, x)
    IN  IF t.color[Uncle(t, x)] = "red"
        THEN [tree |-> Recolour(t, x), at |-> t.up[t.up[x]]]
        ELSE [tree |-> Topple(s.tree, s.at, d), at |-> s.at]

InsertEnd(t) == Paint(t, t.pRoot, "black")

-----------------------------------------------------------------------------
(* Removal                                                                 *)

\* y, which has left its place, gets the links of n.  When n is the top, its
\* parent is pTree->root, whose right link is written too.
Seat(t, n, y) ==
    LET p  == t.up[n]
        t1 == [t EXCEPT !.pRoot = IF p = Nil THEN y ELSE @,
                        !.up[y] = p,
                        !.kid[SideOf(t, n)][p] = y]
        t2 == [t1 EXCEPT !.up[t1.kid["left"][n]] = y]
        t3 == [t2 EXCEPT !.up[t1.kid["right"][n]] = y]
    IN  [t3 EXCEPT !.kid["left"][y]  = t1.kid["left"][n],
                   !.kid["right"][y] = t1.kid["right"][n]]

\* Fault: the colour of y moves with it.
TakePlaceUnpainted(t, n, y) == Seat(t, n, y)

TakePlace(t, n, y) == Paint(Seat(t, n, y), y, t.color[n])

\* rb_delete.  n or, if it has two children, its successor y is unlinked; its
\* only child x, or pTree->root, moves up.
Unlinked(t, n) ==
    IF Nil \in {t.kid["left"][n], t.kid["right"][n]} THEN n ELSE Successor(t, n)

OnlyChild(t, y) ==
    IF t.kid["left"][y] # Nil THEN t.kid["left"][y] ELSE t.kid["right"][y]

Unlink(t, y) ==
    LET x == OnlyChild(t, y)
    IN  Hang([t EXCEPT !.up[x] = t.up[y]], y, x)

Delete(t, n) ==
    LET y == Unlinked(t, n)
    IN  IF y = n THEN Unlink(t, y) ELSE TakePlace(Unlink(t, y), n, y)

\* The loop of rb_delete_fix: n, or the end of a branch, stands for one black
\* too few.
DeleteOver(t, n) == n = t.pRoot \/ t.color[n] = "red"

Sibling(t, n) == t.kid[Other(SideOf(t, n))][t.up[n]]

\* A red sibling makes way for a black one.
BlackSibling(t, n) ==
    LET p == t.up[n]
    IN  IF t.color[Sibling(t, n)] = "red"
        THEN Rotate(Paint(Paint(t, Sibling(t, n), "black"), p, "red"), p, SideOf(t, n))
        ELSE t

\* The far child of the sibling s becomes red when it is not.
RedFar(t, s, d) ==
    IF t.color[t.kid[Other(d)][s]] = "black"
    THEN Rotate(Paint(Paint(t, t.kid[d][s], "black"), s, "red"), s, Other(d))
    ELSE t

\* The parent p sinks to the side d and gives the missing black.
Balance(t, p, d) ==
    LET s == t.kid[Other(d)][p]
    IN  Rotate([t EXCEPT !.color[s] = t.color[p],
                         !.color[p] = "black",
                         !.color[t.kid[Other(d)][s]] = "black"], p, d)

\* Fault: the black too few is not passed up.
DeleteTurnStays(t, n) ==
    LET d  == SideOf(t, n)
        t1 == BlackSibling(t, n)
        s  == t1.kid[Other(d)][t.up[n]]
        t2 == Balance(RedFar(t1, s, d), t.up[n], d)
    IN  IF \A side \in Side : t1.color[t1.kid[side][s]] = "black"
        THEN [tree |-> Paint(t1, s, "red"), at |-> n]
        ELSE [tree |-> t2, at |-> t2.pRoot]

DeleteTurn(t, n) ==
    LET d  == SideOf(t, n)
        p  == t.up[n]
        t1 == BlackSibling(t, n)
        s  == t1.kid[Other(d)][p]
        t2 == Balance(RedFar(t1, s, d), p, d)
    IN  IF \A side \in Side : t1.color[t1.kid[side][s]] = "black"
        THEN [tree |-> Paint(t1, s, "red"), at |-> p]
        ELSE [tree |-> t2, at |-> t2.pRoot]

DeleteEnd(t, n) == Paint(t, n, "black")

\* The memory of the nodes S is the application's again.
Released(t, S) ==
    [t EXCEPT !.kid = [d \in Side |-> [n \in Node |-> IF n \in S THEN Nil ELSE @[d][n]]],
              !.up = [n \in Node |-> IF n \in S THEN Nil ELSE @[n]],
              !.color = [n \in Node |-> IF n \in S THEN "black" ELSE @[n]]]

\* rb_tree_flush without the calls of fFreeCB.
Flushed(t) ==
    [Released(t, Elements(t)) EXCEPT !.count = 0, !.pRoot = Nil]

-----------------------------------------------------------------------------
(* Walks: the calls they make while no callback answers RB_WALK_BREAK.  A  *)
(* walk that is broken off makes a prefix of them.                         *)

\* Fault: looks at one side.
IsLeafLeft(t, n) == t.kid["left"][n] = Nil

IsLeaf(t, n) == t.kid["left"][n] = Nil /\ t.kid["right"][n] = Nil

Call(n, visit, level) == <<[elem |-> n, visit |-> visit, level |-> level]>>

\* rb_walk
Walk(t, n) ==
    LET W[w \in Node \X Nat] ==
            IF w[1] = Nil THEN <<>>
            ELSE IF IsLeaf(t, w[1]) THEN Call(w[1], "leaf", w[2])
            ELSE Call(w[1], "preorder", w[2])
                 \o W[<<t.kid["left"][w[1]], w[2] + 1>>]
                 \o Call(w[1], "postorder", w[2])
                 \o W[<<t.kid["right"][w[1]], w[2] + 1>>]
                 \o Call(w[1], "endorder", w[2])
    IN  W[<<n, 0>>]

\* rb_walk_inorder
WalkInorder(t, n) ==
    LET W[w \in Node \X Nat] ==
            IF w[1] = Nil THEN <<>>
            ELSE W[<<t.kid["left"][w[1]], w[2] + 1>>]
                 \o Call(w[1], "inorder", w[2])
                 \o W[<<t.kid["right"][w[1]], w[2] + 1>>]
    IN  W[<<n, 0>>]

\* rb_destroy: the elements handed to fFreeCB.
\* Fault: frees a node before its right branch.
FreeCallsEarly(t, n) ==
    LET F[m \in Node] ==
            IF m = Nil THEN <<>>
            ELSE F[t.kid["left"][m]] \o <<m>> \o F[t.kid["right"][m]]
    IN  F[n]

FreeCalls(t, n) ==
    LET F[m \in Node] ==
            IF m = Nil THEN <<>>
            ELSE F[t.kid["left"][m]] \o F[t.kid["right"][m]] \o <<m>>
    IN  F[n]
=============================================================================
