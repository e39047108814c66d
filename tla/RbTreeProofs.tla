---------------------------- MODULE RbTreeProofs -----------------------------
(***************************************************************************)
(* Theorems about the trees of redblack.c, for every set of keys           *)
(* and whatever calls are made: the red-black invariant, also between the  *)
(* turns of the two repair loops, the set the calls implement, the answers *)
(* of the searches and the order in which a tree is freed.                 *)
(***************************************************************************)
EXTENDS RbTree, SeqLemmas, FiniteSetTheorems, TLAPS

(* d is the side of b that a is on.                                        *)
Before(d, a, b) == IF d = "left" THEN a < b ELSE b < a

(* The two sides.                                                          *)
LEMMA Sides ==
    /\ Side = {"left", "right"}
    /\ \A d \in Side : /\ Other(d) \in Side /\ Other(d) # d /\ Other(Other(d)) = d
                       /\ \A s \in Side : s = d \/ s = Other(d)
BY DEF Side, Other

(* The nodes are the elements and Nil, and all are numbers.                *)
LEMMA Nodes ==
    /\ Nil \in Node /\ Nil \notin Elem
    /\ \A n \in Elem : n \in Node /\ n # Nil
    /\ \A n \in Node : n # Nil => n \in Elem
    /\ Node \subseteq Nat
BY ElemAssumption DEF Node, Nil

(* What the fields of a tree are.                                          *)
LEMMA TreeTypes ==
    ASSUME NEW t \in Tree
    PROVE  /\ t.pRoot \in Node /\ t.count \in Nat
           /\ \A d \in Side, n \in Node : t.kid[d][n] \in Node
           /\ \A n \in Node : t.up[n] \in Node /\ t.color[n] \in Colour
<1>1. /\ t.pRoot \in Node /\ t.count \in Nat /\ t.kid \in [Side -> [Node -> Node]]
      /\ t.up \in [Node -> Node] /\ t.color \in [Node -> Colour]
  BY DEF Tree
<1>2. QED
  BY <1>1

(* What a rotation writes, field by field.                                 *)
LEMMA RotateEffect ==
    ASSUME NEW t \in Tree, NEW d \in Side, NEW n \in Elem, NEW y \in Elem,
           y = t.kid[Other(d)][n], y # n, t.up[n] # n, t.up[n] # y,
           t.kid[d][y] # n, t.kid[d][y] # y
    PROVE  LET r == Rotate(t, n, d)
               b == t.kid[d][y]
               p == t.up[n]
           IN  /\ r \in Tree /\ r.color = t.color /\ r.count = t.count
               /\ r.pRoot = IF p = Nil THEN y ELSE t.pRoot
               /\ \A s \in Side, m \in Node :
                     r.kid[s][m] = IF m = n THEN IF s = d THEN t.kid[d][n] ELSE b
                                   ELSE IF m = y THEN IF s = d THEN n ELSE t.kid[s][y]
                                   ELSE IF p # Nil /\ m = p /\ s = SideOf(t, n) THEN y
                                   ELSE t.kid[s][m]
               /\ \A m \in Node :
                     r.up[m] = IF m = n THEN y
                               ELSE IF m = y THEN p
                               ELSE IF m = b /\ b # Nil THEN n
                               ELSE t.up[m]
<1> DEFINE o == Other(d)
           b == t.kid[d][y]
           p == t.up[n]
           moved == [t EXCEPT !.kid[o][n] = b, !.up[b] = IF b = Nil THEN @ ELSE n,
                              !.up[y] = p]
           hung == Hang(moved, n, y)
           r == Rotate(t, n, d)
<1> HIDE DEF o, b, p, moved, hung, r
<1>1. o \in Side /\ o # d /\ b \in Node /\ p \in Node /\ \A s \in Side : s = d \/ s = o
  BY Sides, Nodes, TreeTypes DEF o, b, p
<1>2. /\ moved \in Tree /\ moved.color = t.color /\ moved.count = t.count
      /\ moved.pRoot = t.pRoot
      /\ \A s \in Side, m \in Node :
            moved.kid[s][m] = IF m = n /\ s = o THEN b ELSE t.kid[s][m]
      /\ \A m \in Node : moved.up[m] = IF m = y THEN p
                                       ELSE IF m = b /\ b # Nil THEN n
                                       ELSE t.up[m]
  <2>0. t.kid \in [Side -> [Node -> Node]] /\ t.up \in [Node -> Node]
    BY DEF Tree
  <2>1. PICK kid : kid = [t.kid EXCEPT ![o][n] = b]
    BY Zenon
  <2>2. PICK up : up = [t.up EXCEPT ![b] = IF b = Nil THEN @ ELSE n, ![y] = p]
    BY Zenon
  <2>3. moved = [t EXCEPT !.kid = kid, !.up = up]
    BY <2>1, <2>2 DEF Tree, moved
  <2>4. /\ kid \in [Side -> [Node -> Node]]
        /\ \A s \in Side, m \in Node : kid[s][m] = IF m = n /\ s = o THEN b ELSE t.kid[s][m]
    BY <1>1, <2>0, <2>1, Nodes
  <2>5. /\ up \in [Node -> Node]
        /\ \A m \in Node : up[m] = IF m = y THEN p ELSE IF m = b /\ b # Nil THEN n
                                   ELSE t.up[m]
    BY <1>1, <2>0, <2>2, Nodes
  <2>6. /\ moved.color = t.color /\ moved.count = t.count /\ moved.pRoot = t.pRoot
        /\ moved.kid = kid /\ moved.up = up /\ moved \in Tree
    BY <2>3, <2>4, <2>5 DEF Tree
  <2>7. QED
    BY Zenon, <2>4, <2>5, <2>6
<1>3. moved.up[n] = p /\ (p # Nil => SideOf(moved, n) = SideOf(t, n)) /\ SideOf(t, n) \in Side
  <2>0. n \in Node /\ n # y /\ n # b
    BY <1>1, Nodes DEF b
  <2>1. moved.up[n] = p
    BY <1>2, <2>0 DEF p
  <2>2. SideOf(t, n) \in Side /\ "left" \in Side
    BY DEF SideOf, Side
  <2>3. p # n /\ moved.kid["left"][p] = t.kid["left"][p]
    BY Zenon, <1>1, <1>2, <2>2 DEF p
  <2>4. SideOf(moved, n) = SideOf(t, n)
    BY Zenon, <2>1, <2>3 DEF SideOf, p
  <2>5. QED
    BY Zenon, <2>1, <2>2, <2>4
<1>4. /\ hung \in Tree /\ hung.color = t.color /\ hung.count = t.count
      /\ hung.pRoot = IF p = Nil THEN y ELSE t.pRoot
      /\ hung.up = moved.up
      /\ \A s \in Side, m \in Node :
            hung.kid[s][m] = IF p # Nil /\ m = p /\ s = SideOf(t, n) THEN y
                             ELSE moved.kid[s][m]
  <2>1. CASE p = Nil
    <3>1. hung = [moved EXCEPT !.pRoot = y]
      BY <1>3, <2>1 DEF Hang, hung
    <3>2. /\ hung.color = moved.color /\ hung.count = moved.count /\ hung.pRoot = y
          /\ hung.kid = moved.kid /\ hung.up = moved.up /\ hung \in Tree
      BY <1>2, <3>1, Nodes DEF Tree
    <3>3. QED
      BY Zenon, <1>2, <2>1, <3>2
  <2>2. CASE p # Nil
    <3>1. /\ moved.kid \in [Side -> [Node -> Node]]
          /\ SideOf(t, n) \in Side /\ p \in Node /\ y \in Node
      BY <1>1, <1>2, <1>3, Nodes DEF Tree
    <3>2. PICK kid : kid = [moved.kid EXCEPT ![SideOf(t, n)][p] = y]
      BY Zenon
    <3>3. /\ kid \in [Side -> [Node -> Node]]
          /\ \A s \in Side, m \in Node :
                kid[s][m] = IF m = p /\ s = SideOf(t, n) THEN y ELSE moved.kid[s][m]
      BY <3>1, <3>2
    <3>4. hung = [moved EXCEPT !.kid = kid]
      BY <1>3, <2>2, <3>2 DEF Hang, hung
    <3>5. /\ hung.color = moved.color /\ hung.count = moved.count
          /\ hung.pRoot = moved.pRoot /\ hung.kid = kid /\ hung.up = moved.up
          /\ hung \in Tree
      BY <1>2, <3>3, <3>4 DEF Tree
    <3>6. QED
      BY Zenon, <1>2, <2>2, <3>3, <3>5
  <2>3. QED
    BY <2>1, <2>2
<1>5. r = [hung EXCEPT !.kid[d][y] = n, !.up[n] = y]
  BY Zenon DEF Rotate, o, b, p, moved, hung, r
<1>6. /\ r \in Tree /\ r.color = hung.color /\ r.count = hung.count /\ r.pRoot = hung.pRoot
      /\ \A s \in Side, m \in Node :
            r.kid[s][m] = IF m = y /\ s = d THEN n ELSE hung.kid[s][m]
      /\ \A m \in Node : r.up[m] = IF m = n THEN y ELSE hung.up[m]
  BY Zenon, <1>1, <1>4, <1>5, Nodes DEF Tree
<1>7. \A s \in Side, m \in Node :
         r.kid[s][m] = IF m = n THEN IF s = d THEN t.kid[d][n] ELSE b
                       ELSE IF m = y THEN IF s = d THEN n ELSE t.kid[s][y]
                       ELSE IF p # Nil /\ m = p /\ s = SideOf(t, n) THEN y
                       ELSE t.kid[s][m]
  BY <1>1, <1>2, <1>4, <1>6, Nodes DEF p
<1>8. QED
  <2>1. /\ r \in Tree /\ r.color = t.color /\ r.count = t.count
        /\ r.pRoot = IF p = Nil THEN y ELSE t.pRoot
    BY Zenon, <1>2, <1>4, <1>6
  <2>2. \A m \in Node : r.up[m] = IF m = n THEN y
                                 ELSE IF m = y THEN p
                                 ELSE IF m = b /\ b # Nil THEN n
                                 ELSE t.up[m]
    BY <1>2, <1>4, <1>6
  <2>3. QED
    BY Zenon, <1>7, <2>1, <2>2 DEF b, p, r

(* The order of the sides is an order.                                     *)
LEMMA Sorting ==
    /\ \A d \in Side : \A a, b, c \in Node :
          Before(d, a, b) /\ Before(d, b, c) => Before(d, a, c)
    /\ \A d \in Side : \A a, b \in Node :
          /\ Before(Other(d), a, b) <=> Before(d, b, a)
          /\ Before(d, a, b) => ~ Before(d, b, a)
          /\ Before(d, a, b) \/ Before(d, b, a) \/ a = b
    /\ \A d \in Side, a \in Node : ~ Before(d, a, a)
BY Nodes, Sides DEF Before, Other

(* sub is the elements below each node.                                    *)
Subtrees(t, sub) ==
    /\ sub \in [Node -> SUBSET Elem] /\ sub[Nil] = {}
    /\ \A n \in Elem :
          /\ IsFiniteSet(sub[n])
          /\ \A m \in Elem : m \in sub[n] <=>
                m = n \/ \E s \in Side : m \in sub[t.kid[s][n]]

(* What hangs on a side of a node belongs there.                           *)
Sided(t, sub) ==
    \A n \in Elem, d \in Side : \A m \in sub[t.kid[d][n]] : Before(d, m, n)

(* The links up agree with the links down.                                 *)
UpLinks(t) ==
    /\ \A n \in Elem, d \in Side : t.kid[d][n] # Nil => t.up[t.kid[d][n]] = n
    /\ t.pRoot # Nil => t.up[t.pRoot] = Nil
    /\ t.kid["left"][Nil] = Nil

(* Every element but the top hangs on another.                             *)
Hangs(t, sub) ==
    \A n \in sub[t.pRoot] :
        n # t.pRoot => t.up[n] # Nil /\ \E d \in Side : t.kid[d][t.up[n]] = n

(* Nothing is left in a node outside the tree.                             *)
Outside(t, sub) ==
    \A n \in Elem \ sub[t.pRoot] :
        /\ \A d \in Side : t.kid[d][n] = Nil
        /\ t.up[n] = Nil /\ t.color[n] = "black"

(* The links of a tree, when sub is the elements below each node.          *)
Shape(t, sub) ==
    /\ Subtrees(t, sub) /\ Sided(t, sub) /\ UpLinks(t)
    /\ Hangs(t, sub) /\ Outside(t, sub)

(* What follows for one node.                                              *)
LEMMA ShapeFacts ==
    ASSUME NEW t \in Tree, NEW sub, Shape(t, sub)
    PROVE  /\ \A n \in Node : sub[n] \subseteq Elem
           /\ \A n \in Elem : n \in sub[n]
           /\ \A n \in Elem, d \in Side :
                 /\ sub[t.kid[d][n]] \subseteq sub[n] /\ n \notin sub[t.kid[d][n]]
                 /\ t.kid[d][n] # n
                 /\ t.kid[d][n] # Nil => t.kid[Other(d)][n] # t.kid[d][n]
           /\ \A n \in sub[t.pRoot], d \in Side :
                 t.kid[d][n] # Nil => t.kid[d][n] \in sub[t.pRoot]
           /\ t.pRoot # Nil => t.pRoot \in sub[t.pRoot]
<1>1. \A n \in Node : sub[n] \subseteq Elem
  BY Zenon DEF Shape, Subtrees
<1>2. \A n \in Elem : n \in sub[n]
  BY Zenon DEF Shape, Subtrees
<1>3. ASSUME NEW n \in Elem, NEW d \in Side
      PROVE  /\ sub[t.kid[d][n]] \subseteq sub[n] /\ n \notin sub[t.kid[d][n]]
             /\ t.kid[d][n] # n
             /\ t.kid[d][n] # Nil => t.kid[Other(d)][n] # t.kid[d][n]
  <2>1. sub[t.kid[d][n]] \subseteq sub[n]
    BY Zenon, <1>1, TreeTypes, Nodes DEF Shape, Subtrees
  <2>2. n \notin sub[t.kid[d][n]]
    BY Sorting, Nodes DEF Shape, Sided
  <2>3. t.kid[d][n] # n
    BY <2>2, <1>2
  <2>4. ASSUME t.kid[d][n] # Nil, t.kid[Other(d)][n] = t.kid[d][n] PROVE FALSE
    <3> DEFINE m == t.kid[d][n]
    <3> HIDE DEF m
    <3>1. m \in Elem /\ m \in Node /\ n \in Node /\ Other(d) \in Side
      BY Zenon, <2>4, TreeTypes, Nodes, Sides DEF m
    <3>2. m \in sub[m]
      BY Zenon, <3>1, <1>2
    <3>3. Before(d, m, n) /\ Before(Other(d), m, n)
      BY Zenon, <3>1, <3>2, <2>4 DEF Shape, Sided, m
    <3>4. QED
      BY <3>1, <3>3, Sorting
  <2>5. QED
    BY <2>1, <2>2, <2>3, <2>4
<1>4. ASSUME NEW n \in sub[t.pRoot], NEW d \in Side, t.kid[d][n] # Nil
      PROVE  t.kid[d][n] \in sub[t.pRoot]
  <2>1. n \in Elem /\ t.kid[d][n] \in Elem
    BY Zenon, <1>1, <1>4, TreeTypes, Nodes
  <2>2. t.up[t.kid[d][n]] = n /\ n # Nil
    BY <1>4, <2>1, Nodes DEF Shape, UpLinks
  <2>3. QED
    BY Zenon, <2>1, <2>2 DEF Shape, Outside
<1>5. t.pRoot # Nil => t.pRoot \in sub[t.pRoot]
  BY Zenon, <1>2, TreeTypes, Nodes
<1>6. QED
  BY <1>1, <1>2, <1>3, <1>4, <1>5

(* Of a node that is not the top, the side it is on.                       *)
LEMMA OnItsSide ==
    ASSUME NEW t \in Tree, NEW sub, Shape(t, sub), NEW n \in sub[t.pRoot], n # t.pRoot
    PROVE  /\ t.up[n] \in Elem /\ t.up[n] \in sub[t.pRoot]
           /\ SideOf(t, n) \in Side
           /\ t.kid[SideOf(t, n)][t.up[n]] = n
           /\ t.kid[Other(SideOf(t, n))][t.up[n]] # n
           /\ \A d \in Side : t.kid[d][t.up[n]] = n => d = SideOf(t, n)
<1>1. n \in Elem /\ n \in Node /\ n # Nil
  BY Zenon, ShapeFacts, TreeTypes, Nodes
<1>2. t.up[n] \in Elem
  BY Zenon, <1>1, TreeTypes, Nodes DEF Shape, Hangs
<1>3. t.up[n] \in sub[t.pRoot]
  BY Zenon, <1>1, <1>2 DEF Shape, Outside, Hangs
<1>4. PICK d \in Side : t.kid[d][t.up[n]] = n
  BY <1>1 DEF Shape, Hangs
<1>5. t.kid[Other(d)][t.up[n]] # n
  <2>1. \A m \in Elem, s \in Side :
           t.kid[s][m] # Nil => t.kid[Other(s)][m] # t.kid[s][m]
    BY ShapeFacts
  <2>2. QED
    BY Zenon, <1>1, <1>2, <1>4, <2>1
<1>6. SideOf(t, n) = d
  BY <1>4, <1>5 DEF SideOf, Side, Other
<1>7. QED
  BY <1>2, <1>3, <1>4, <1>5, <1>6, Sides

-----------------------------------------------------------------------------
(* Rotations.                                                              *)

(* The elements below each node after a rotation.                          *)
Turned(t, sub, n, d) ==
    LET y == t.kid[Other(d)][n]
    IN  [m \in Node |-> IF m = y THEN sub[n]
                        ELSE IF m = n THEN {n} \union sub[t.kid[d][n]] \union sub[t.kid[d][y]]
                        ELSE sub[m]]

(* What a rotation needs to be one.                                        *)
LEMMA RotateFits ==
    ASSUME NEW t \in Tree, NEW sub, Shape(t, sub), NEW d \in Side, NEW n \in sub[t.pRoot],
           t.kid[Other(d)][n] # Nil
    PROVE  LET y == t.kid[Other(d)][n]
           IN  /\ n \in Elem /\ y \in Elem /\ y \in sub[t.pRoot]
               /\ y # n /\ t.up[n] # n /\ t.up[n] # y
               /\ t.kid[d][y] # n /\ t.kid[d][y] # y /\ t.up[y] = n
               /\ t.kid[Other(d)][y] # n /\ t.kid[Other(d)][y] # y
               /\ t.kid[d][n] # y
<1> DEFINE y == t.kid[Other(d)][n]
<1> HIDE DEF y
<1>1. n \in Elem /\ Other(d) \in Side /\ Other(Other(d)) = d /\ n \in Node
  <2>1. sub[t.pRoot] \subseteq Elem
    <3>1. t.pRoot \in Node
      BY TreeTypes
    <3>2. QED
      BY <3>1, ShapeFacts
  <2>2. Other(d) \in Side /\ Other(Other(d)) = d
    BY Sides
  <2>3. QED
    BY <2>1, <2>2, Nodes
<1>2. y \in Elem /\ y \in Node /\ y \in sub[t.pRoot]
  BY Zenon, <1>1, TreeTypes, Nodes, ShapeFacts DEF y
<1>3. \A m \in Elem, s \in Side :
         /\ m \in sub[m] /\ sub[t.kid[s][m]] \subseteq sub[m] /\ m \notin sub[t.kid[s][m]]
         /\ t.kid[s][m] # m
         /\ t.kid[s][m] # Nil => t.kid[Other(s)][m] # t.kid[s][m]
  BY ShapeFacts
<1>4. y # n /\ t.kid[d][n] # y
  BY <1>1, <1>3 DEF y
<1>5. n \notin sub[y]
  BY <1>1, <1>3 DEF y
<1>6. \A s \in Side : t.kid[s][y] # n /\ t.kid[s][y] # y
  <2> TAKE s \in Side
  <2>1. sub[t.kid[s][y]] \subseteq sub[y] /\ t.kid[s][y] # y
    BY Zenon, <1>2, <1>3
  <2>2. n \in sub[n]
    BY <1>1, <1>3
  <2>3. QED
    BY <1>5, <2>1, <2>2
<1>7. t.up[y] = n
  BY <1>1, <1>2 DEF Shape, UpLinks, y
<1>8. t.up[n] # n /\ t.up[n] # y
  <2>1. CASE n = t.pRoot
    BY <1>1, <1>2, <2>1, Nodes DEF Shape, UpLinks
  <2>2. CASE n # t.pRoot
    <3>1. t.up[n] \in Elem /\ SideOf(t, n) \in Side /\ t.kid[SideOf(t, n)][t.up[n]] = n
      BY <2>2, OnItsSide
    <3>2. QED
      BY Zenon, <1>3, <1>6, <3>1
  <2>3. QED
    BY <2>1, <2>2
<1>9. QED
  BY <1>1, <1>2, <1>4, <1>6, <1>7, <1>8 DEF y

(* A rotation changes three links each way.                                *)
LEMMA RotateLinks ==
    ASSUME NEW t \in Tree, NEW sub, Shape(t, sub), NEW d \in Side, NEW n \in sub[t.pRoot],
           t.kid[Other(d)][n] # Nil
    PROVE  LET r == Rotate(t, n, d)
               o == Other(d)
               y == t.kid[o][n]
               b == t.kid[d][y]
               p == t.up[n]
           IN  /\ r \in Tree /\ r.color = t.color /\ r.count = t.count
               /\ r.pRoot = IF n = t.pRoot THEN y ELSE t.pRoot
               /\ r.kid[o][n] = b /\ r.kid[d][n] = t.kid[d][n]
               /\ r.kid[d][y] = n /\ r.kid[o][y] = t.kid[o][y]
               /\ n # t.pRoot => r.kid[SideOf(t, n)][p] = y /\ p \notin {n, y, Nil}
               /\ \A s \in Side, m \in Node :
                     m \notin {n, y} /\ (n = t.pRoot \/ m # p \/ s # SideOf(t, n))
                        => r.kid[s][m] = t.kid[s][m]
               /\ r.up[n] = y /\ r.up[y] = p /\ (b # Nil => r.up[b] = n)
               /\ \A m \in Node : m \notin {n, y} /\ (m # b \/ b = Nil) => r.up[m] = t.up[m]
<1> DEFINE o == Other(d)
           y == t.kid[o][n]
           b == t.kid[d][y]
           p == t.up[n]
           r == Rotate(t, n, d)
<1> HIDE DEF o, y, b, p, r
<1>1. /\ n \in Elem /\ y \in Elem /\ y # n /\ t.up[n] # n /\ t.up[n] # y
      /\ b # n /\ b # y
  BY RotateFits DEF o, y, b
<1>2. /\ r \in Tree /\ r.color = t.color /\ r.count = t.count
      /\ r.pRoot = IF p = Nil THEN y ELSE t.pRoot
      /\ \A s \in Side, m \in Node :
            r.kid[s][m] = IF m = n THEN IF s = d THEN t.kid[d][n] ELSE b
                          ELSE IF m = y THEN IF s = d THEN n ELSE t.kid[s][y]
                          ELSE IF p # Nil /\ m = p /\ s = SideOf(t, n) THEN y
                          ELSE t.kid[s][m]
      /\ \A m \in Node :
            r.up[m] = IF m = n THEN y
                      ELSE IF m = y THEN p
                      ELSE IF m = b /\ b # Nil THEN n
                      ELSE t.up[m]
  <2>1. y = t.kid[Other(d)][n] /\ t.kid[d][y] # n /\ t.kid[d][y] # y
    BY <1>1 DEF o, y, b
  <2>2. QED
    BY <1>1, <2>1, RotateEffect DEF b, p, r
<1>3. p = Nil <=> n = t.pRoot
  BY <1>1, Nodes DEF Shape, Hangs, UpLinks, p
<1>4. n # t.pRoot => SideOf(t, n) \in Side
  BY OnItsSide
<1>5. n \in Node /\ y \in Node /\ b \in Node /\ p \in Node /\ o \in Side /\ o # d
  BY Zenon, <1>1, Nodes, Sides, TreeTypes DEF o, b, p
<1>6. QED
  BY ZenonT(30), <1>1, <1>2, <1>3, <1>4, <1>5 DEF o, y, b, p, r

(* A rotation keeps the order and the links, and the elements of the tree. *)
LEMMA RotateShape ==
    ASSUME NEW t \in Tree, NEW sub, Shape(t, sub), NEW d \in Side, NEW n \in sub[t.pRoot],
           t.kid[Other(d)][n] # Nil
    PROVE  LET r == Rotate(t, n, d)
               new == Turned(t, sub, n, d)
           IN  Shape(r, new) /\ new[r.pRoot] = sub[t.pRoot]
<1> DEFINE o == Other(d)
           y == t.kid[o][n]
           b == t.kid[d][y]
           a == t.kid[d][n]
           c == t.kid[o][y]
           p == t.up[n]
           r == Rotate(t, n, d)
           new == Turned(t, sub, n, d)
<1> HIDE DEF o, y, b, a, c, p, r, new
<1>1. /\ n \in Elem /\ y \in Elem /\ y # n /\ p # n /\ p # y /\ y \in sub[t.pRoot]
      /\ b # n /\ b # y /\ c # n /\ c # y /\ a # y /\ t.up[y] = n
  BY RotateFits DEF o, y, b, a, c, p
<1>2. /\ r \in Tree /\ r.color = t.color
      /\ r.pRoot = IF n = t.pRoot THEN y ELSE t.pRoot
      /\ r.kid[o][n] = b /\ r.kid[d][n] = a
      /\ r.kid[d][y] = n /\ r.kid[o][y] = c
      /\ n # t.pRoot => r.kid[SideOf(t, n)][p] = y /\ p \notin {n, y, Nil}
      /\ \A s \in Side, m \in Node :
            m \notin {n, y} /\ (n = t.pRoot \/ m # p \/ s # SideOf(t, n))
               => r.kid[s][m] = t.kid[s][m]
      /\ r.up[n] = y /\ r.up[y] = p /\ (b # Nil => r.up[b] = n)
      /\ \A m \in Node : m \notin {n, y} /\ (m # b \/ b = Nil) => r.up[m] = t.up[m]
  BY RotateLinks DEF o, y, b, a, c, p, r
<1>3. /\ n \in Node /\ y \in Node /\ a \in Node /\ b \in Node /\ c \in Node /\ p \in Node
      /\ o \in Side /\ o # d /\ Other(o) = d /\ \A s \in Side : s = d \/ s = o
  BY Zenon, <1>1, Nodes, Sides, TreeTypes DEF o, b, a, c, p
<1>4. \A m \in Elem, s \in Side :
         /\ m \in sub[m] /\ sub[t.kid[s][m]] \subseteq sub[m] /\ m \notin sub[t.kid[s][m]]
         /\ t.kid[s][m] # m
         /\ t.kid[s][m] # Nil => t.kid[Other(s)][m] # t.kid[s][m]
  BY ShapeFacts
<1>5. \A m \in Node : sub[m] \subseteq Elem
  BY ShapeFacts
<1>6. n # t.pRoot => /\ SideOf(t, n) \in Side /\ p \in Elem /\ p \in sub[t.pRoot]
                     /\ t.kid[SideOf(t, n)][p] = n
                     /\ \A s \in Side : t.kid[s][p] = n => s = SideOf(t, n)
  BY OnItsSide DEF p
<1>7. /\ new[n] = {n} \union sub[a] \union sub[b] /\ new[y] = sub[n]
      /\ \A m \in Node : m # n /\ m # y => new[m] = sub[m]
  BY Zenon, <1>1, <1>3 DEF Turned, o, y, b, a, new
(* Which kids are n or y. *)
<1>8. \A m \in Elem, s \in Side :
         /\ t.kid[s][m] = n => n # t.pRoot /\ m = p /\ s = SideOf(t, n)
         /\ t.kid[s][m] = y => m = n /\ s = o
  <2> TAKE m \in Elem, s \in Side
  <2>1. t.kid[s][m] = n => n # t.pRoot /\ m = p
    BY <1>1, Nodes DEF Shape, UpLinks, p
  <2>2. t.kid[s][m] = n => s = SideOf(t, n)
    BY <1>6, <2>1
  <2>3. t.kid[s][m] = y => m = n
    BY <1>1, Nodes DEF Shape, UpLinks
  <2>4. t.kid[s][m] = y => s = o
    BY <1>1, <1>3, <2>3 DEF a
  <2>5. QED
    BY <2>1, <2>2, <2>3, <2>4
<1>9. new[Nil] = {} /\ new \in [Node -> SUBSET Elem]
  <2>1. new[Nil] = {}
    BY <1>1, <1>7, Nodes DEF Shape, Subtrees
  <2>2. \A m \in Node : new[m] \subseteq Elem
    BY Zenon, <1>1, <1>3, <1>5, <1>7
  <2>3. new \in [Node -> SUBSET Elem]
    BY <2>2 DEF new, Turned
  <2>4. QED
    BY <2>1, <2>3
(* The elements below. *)
<1>10. \A m \in Elem, s \in Side :
          m \notin {n, y} => new[r.kid[s][m]] = sub[t.kid[s][m]]
  <2> TAKE m \in Elem, s \in Side
  <2> HAVE m \notin {n, y}
  <2>1. CASE n # t.pRoot /\ m = p /\ s = SideOf(t, n)
    BY Zenon, <1>2, <1>6, <1>7, <2>1
  <2>2. CASE ~(n # t.pRoot /\ m = p /\ s = SideOf(t, n))
    <3>1. r.kid[s][m] = t.kid[s][m] /\ m \in Node
      BY <1>2, <2>2, Nodes
    <3>2. t.kid[s][m] # n /\ t.kid[s][m] # y /\ t.kid[s][m] \in Node
      BY <1>8, <2>2, <3>1, TreeTypes
    <3>3. QED
      BY <1>7, <3>1, <3>2
  <2>3. QED
    BY <2>1, <2>2
<1>11. /\ new[r.kid[d][n]] = sub[a] /\ new[r.kid[o][n]] = sub[b]
       /\ new[r.kid[d][y]] = {n} \union sub[a] \union sub[b] /\ new[r.kid[o][y]] = sub[c]
  <2>1. a # n
    BY <1>1, <1>4 DEF a
  <2>2. new[a] = sub[a] /\ new[b] = sub[b] /\ new[c] = sub[c]
    BY Zenon, <1>1, <1>3, <1>7, <2>1
  <2>3. QED
    BY Zenon, <1>2, <1>7, <2>2
<1>12. /\ \A m \in Elem : m \in sub[n] <=> m = n \/ m \in sub[a] \/ m \in sub[y]
       /\ \A m \in Elem : m \in sub[y] <=> m = y \/ m \in sub[b] \/ m \in sub[c]
  BY Zenon, <1>1, <1>3 DEF Shape, Subtrees, o, y, b, a, c
<1>13. Subtrees(r, new)
  <2>1. ASSUME NEW k \in Elem PROVE IsFiniteSet(new[k])
    <3>1. IsFiniteSet(sub[n]) /\ IsFiniteSet(sub[k])
      BY <1>1 DEF Shape, Subtrees
    <3>2. new[n] \subseteq sub[n]
      BY Zenon, <1>1, <1>3, <1>5, <1>7, <1>12
    <3>3. IsFiniteSet(new[n])
      BY <3>1, <3>2, FS_Subset
    <3>4. QED
      BY Zenon, <1>7, <3>1, <3>3, Nodes
  <2>2. ASSUME NEW k \in Elem, NEW m \in Elem
        PROVE  m \in new[k] <=> m = k \/ \E s \in Side : m \in new[r.kid[s][k]]
    <3>1. CASE k \notin {n, y}
      <4>1. new[k] = sub[k]
        BY <1>7, <3>1, Nodes
      <4>2. QED
        BY <1>10, <3>1, <4>1 DEF Shape, Subtrees
    <3>2. CASE k = n
      BY Zenon, <1>3, <1>7, <1>11, <3>2
    <3>3. CASE k = y
      BY Zenon, <1>3, <1>7, <1>11, <1>12, <3>3
    <3>4. QED
      BY <3>1, <3>2, <3>3
  <2>3. QED
    BY Zenon, <1>9, <2>1, <2>2 DEF Subtrees
<1>14. Sided(r, new)
  <2>1. ASSUME NEW k \in Elem, NEW s \in Side, NEW m \in new[r.kid[s][k]]
        PROVE  Before(s, m, k)
    <3>1. CASE k \notin {n, y}
      BY <1>10, <2>1, <3>1 DEF Shape, Sided
    <3>2. CASE k = n /\ s = d
      BY Zenon, <1>1, <1>11, <2>1, <3>2 DEF Shape, Sided, a
    <3>3. CASE k = n /\ s = o
      <4>1. m \in sub[b]
        BY Zenon, <1>11, <2>1, <3>3
      <4>2. m \in sub[y]
        BY Zenon, <1>1, <1>3, <1>4, <4>1 DEF b
      <4>3. QED
        BY <1>1, <1>3, <3>3, <4>2 DEF Shape, Sided, y
    <3>4. CASE k = y /\ s = o
      BY Zenon, <1>1, <1>3, <1>11, <2>1, <3>4 DEF Shape, Sided, c
    <3>5. CASE k = y /\ s = d
      <4>1. Before(o, y, n)
        BY Zenon, <1>1, <1>3, <1>4 DEF Shape, Sided, y
      <4>2. Before(d, n, y)
        BY <1>3, <4>1, Sorting
      <4>3. m = n \/ m \in sub[a] \/ m \in sub[b]
        BY Zenon, <1>11, <2>1, <3>5
      <4>4. m \in sub[b] => Before(d, m, y)
        BY Zenon, <1>1 DEF Shape, Sided, b
      <4>5. m \in sub[a] => Before(d, m, n) /\ m \in Node
        BY Zenon, <1>1, <1>3, <1>5, Nodes DEF Shape, Sided, a
      <4>6. QED
        BY <1>3, <3>5, <4>2, <4>3, <4>4, <4>5, Sorting
    <3>6. QED
      BY <1>3, <3>1, <3>2, <3>3, <3>4, <3>5
  <2>2. QED
    BY <2>1 DEF Sided
<1>15. UpLinks(r)
  <2>1. ASSUME NEW k \in Elem, NEW s \in Side, r.kid[s][k] # Nil
        PROVE  r.up[r.kid[s][k]] = k
    <3>1. CASE k = n /\ s = d
      <4>1. a # n /\ (a # b \/ b = Nil) /\ t.up[a] = n /\ r.kid[s][k] = a
        <5>1. a # n /\ r.kid[s][k] = a /\ a # Nil
          BY Zenon, <1>1, <1>2, <1>4, <2>1, <3>1 DEF a
        <5>2. t.up[a] = n
          BY <1>1, <5>1 DEF Shape, UpLinks, a
        <5>3. b # Nil => t.up[b] = y
          BY Zenon, <1>1, <1>3 DEF Shape, UpLinks, b
        <5>4. QED
          BY <1>1, <5>1, <5>2, <5>3
      <4>2. QED
        BY Zenon, <1>1, <1>2, <1>3, <3>1, <4>1 DEF o
    <3>2. CASE k = n /\ s = o
      BY <1>2, <2>1, <3>2
    <3>3. CASE k = y /\ s = d
      BY <1>2, <3>3
    <3>4. CASE k = y /\ s = o
      <4>1. r.kid[s][k] = c /\ c # Nil
        BY <1>2, <2>1, <3>4
      <4>2. t.up[c] = y
        BY Zenon, <1>1, <1>3, <4>1 DEF Shape, UpLinks, c
      <4>4. b # Nil => c # b
        BY <1>1, <1>4 DEF o, b, c
      <4>3. QED
        BY Zenon, <1>1, <1>2, <1>3, <3>4, <4>1, <4>2, <4>4
    <3>5. CASE k \notin {n, y} /\ n # t.pRoot /\ k = p /\ s = SideOf(t, n)
      BY <1>2, <3>5
    <3>6. CASE k \notin {n, y} /\ ~(n # t.pRoot /\ k = p /\ s = SideOf(t, n))
      <4>1. r.kid[s][k] = t.kid[s][k]
        BY <1>2, <3>6, Nodes
      <4>2. t.kid[s][k] # n /\ t.kid[s][k] # y /\ t.kid[s][k] \in Node
        BY Zenon, <1>8, <3>6, TreeTypes, Nodes
      <4>3. t.up[t.kid[s][k]] = k
        BY <2>1, <4>1 DEF Shape, UpLinks
      <4>4. b # Nil => t.up[b] = y
        BY Zenon, <1>1, <1>3 DEF Shape, UpLinks, b
      <4>5. QED
        BY <1>2, <3>6, <4>1, <4>2, <4>3, <4>4
    <3>7. QED
      BY <1>3, <3>1, <3>2, <3>3, <3>4, <3>5, <3>6
  <2>2. r.pRoot # Nil => r.up[r.pRoot] = Nil
    <3>1. CASE n = t.pRoot
      BY Zenon, <1>1, <1>2, <3>1, Nodes DEF Shape, UpLinks, p
    <3>2. CASE n # t.pRoot
      <4>1. t.pRoot # y
        BY <1>1, <1>3, Nodes DEF Shape, UpLinks
      <4>2. b # Nil => b # t.pRoot
        BY ZenonT(30), <1>1, <1>3, Nodes DEF Shape, UpLinks, b
      <4>3. t.pRoot \in Node
        BY TreeTypes
      <4>4. QED
        BY <1>2, <3>2, <4>1, <4>2, <4>3 DEF Shape, UpLinks
    <3>3. QED
      BY <3>1, <3>2
  <2>3. r.kid["left"][Nil] = Nil
    <3>1. t.kid["left"][Nil] = Nil
      BY DEF Shape, UpLinks
    <3>2. QED
      BY <1>1, <1>2, <3>1, Nodes, Sides
  <2>4. QED
    BY <2>1, <2>2, <2>3 DEF UpLinks
<1>16. new[r.pRoot] = sub[t.pRoot]
  <2>1. CASE n = t.pRoot
    BY Zenon, <1>2, <1>7, <2>1
  <2>2. CASE n # t.pRoot
    <3>1. t.pRoot # y
      BY <1>1, <1>3, Nodes DEF Shape, UpLinks
    <3>2. QED
      BY <1>2, <1>7, <2>2, <3>1, TreeTypes
  <2>3. QED
    BY <2>1, <2>2
<1>17. Hangs(r, new)
  <2>1. ASSUME NEW k \in sub[t.pRoot], k # r.pRoot
        PROVE  r.up[k] # Nil /\ \E s \in Side : r.kid[s][r.up[k]] = k
    <3>0. k \in Elem /\ k \in Node
      BY Zenon, <1>5, TreeTypes, Nodes
    <3>1. CASE k = n
      BY <1>1, <1>2, <3>1, Nodes
    <3>2. CASE k = y
      BY Zenon, <1>2, <1>6, <2>1, <3>2
    <3>3. CASE k = b
      BY ZenonT(30), <1>1, <1>2, <1>3, <3>0, <3>3, Nodes
    <3>4. CASE k \notin {n, y, b}
      <4>1. r.up[k] = t.up[k] /\ k # t.pRoot
        BY <1>2, <2>1, <3>0, <3>4
      <4>2. /\ t.up[k] \in Elem /\ SideOf(t, k) \in Side
            /\ t.kid[SideOf(t, k)][t.up[k]] = k
        BY <4>1, OnItsSide
      <4>3. CASE t.up[k] = n
        BY <1>2, <1>3, <3>0, <3>4, <4>1, <4>2, <4>3, Nodes DEF y, a
      <4>4. CASE t.up[k] = y
        BY <1>2, <1>3, <3>0, <3>4, <4>1, <4>2, <4>4, Nodes DEF b, c
      <4>5. CASE t.up[k] \notin {n, y}
        <5>1. ~(n # t.pRoot /\ t.up[k] = p /\ SideOf(t, k) = SideOf(t, n))
          BY <1>6, <3>4, <4>2
        <5>2. r.kid[SideOf(t, k)][t.up[k]] = k
          BY Zenon, <1>2, <4>2, <4>5, <5>1, Nodes
        <5>3. QED
          BY <4>1, <4>2, <5>2, Nodes
      <4>6. QED
        BY <4>3, <4>4, <4>5
    <3>5. QED
      BY <3>1, <3>2, <3>3, <3>4
  <2>2. QED
    BY <1>16, <2>1 DEF Hangs
<1>18. Outside(r, new)
  <2>1. ASSUME NEW k \in Elem \ sub[t.pRoot]
        PROVE  /\ \A s \in Side : r.kid[s][k] = Nil
               /\ r.up[k] = Nil /\ r.color[k] = "black"
    <3>1. k \notin {n, y} /\ k \in Node
      BY <1>1, Nodes
    <3>2. k # b
      BY <1>1, <1>3, ShapeFacts, Nodes DEF b, a, p
    <3>3. n # t.pRoot => k # p
      BY <1>6
    <3>4. \A s \in Side : r.kid[s][k] = t.kid[s][k]
      BY <1>2, <3>1, <3>3
    <3>5. r.up[k] = t.up[k]
      BY <1>2, <3>1, <3>2
    <3>6. QED
      BY <1>2, <3>4, <3>5 DEF Shape, Outside
  <2>2. QED
    BY <1>16, <2>1 DEF Outside
<1>19. QED
  BY <1>13, <1>14, <1>15, <1>16, <1>17, <1>18 DEF Shape, r, new

(* Painting changes no link.                                               *)
SameLinks(t, r) ==
    r.pRoot = t.pRoot /\ r.kid = t.kid /\ r.up = t.up /\ r.count = t.count

(* Painting a node changes its colour only.                                *)
LEMMA PaintLinks ==
    ASSUME NEW t \in Tree, NEW n \in Node, NEW c \in Colour
    PROVE  /\ Paint(t, n, c) \in Tree /\ SameLinks(t, Paint(t, n, c))
           /\ \A m \in Node : Paint(t, n, c).color[m] = IF m = n THEN c ELSE t.color[m]
BY Zenon DEF Paint, Tree, SameLinks

(* The shape does not depend on the colours of the elements.               *)
LEMMA PaintedShape ==
    ASSUME NEW t \in Tree, NEW sub, Shape(t, sub), NEW r \in Tree, SameLinks(t, r),
           \A m \in Elem \ sub[t.pRoot] : r.color[m] = "black"
    PROVE  Shape(r, sub)
BY DEF Shape, Subtrees, Sided, UpLinks, Hangs, Outside, SameLinks

(* A rotation is seen by the other nodes as y in the place of n.           *)
LEMMA RotateElsewhere ==
    ASSUME NEW t \in Tree, NEW sub, Shape(t, sub), NEW d \in Side, NEW n \in sub[t.pRoot],
           t.kid[Other(d)][n] # Nil
    PROVE  LET y == t.kid[Other(d)][n]
               r == Rotate(t, n, d)
           IN  \A m \in Elem, s \in Side :
                  m \notin {n, y} =>
                     /\ t.kid[s][m] # y
                     /\ t.kid[s][m] = n => r.kid[s][m] = y
                     /\ t.kid[s][m] # n => r.kid[s][m] = t.kid[s][m]
<1> DEFINE y == t.kid[Other(d)][n]
           r == Rotate(t, n, d)
           p == t.up[n]
<1> HIDE DEF y, r, p
<1>1. /\ n # t.pRoot => r.kid[SideOf(t, n)][p] = y
      /\ \A s \in Side, m \in Node :
            m \notin {n, y} /\ (n = t.pRoot \/ m # p \/ s # SideOf(t, n))
               => r.kid[s][m] = t.kid[s][m]
  BY RotateLinks DEF y, r, p
<1>2. n \in Elem /\ y \in Elem /\ t.up[y] = n
  BY RotateFits DEF y
<1>3. SUFFICES ASSUME NEW m \in Elem, NEW s \in Side, m \notin {n, y}
               PROVE  /\ t.kid[s][m] # y
                      /\ t.kid[s][m] = n => r.kid[s][m] = y
                      /\ t.kid[s][m] # n => r.kid[s][m] = t.kid[s][m]
  BY DEF r, y
<1>4. t.kid[s][m] # y
  BY <1>2, <1>3, Nodes DEF Shape, UpLinks
<1>5. ASSUME t.kid[s][m] = n PROVE r.kid[s][m] = y
  <2>1. m = p /\ n # t.pRoot
    BY <1>2, <1>5, Nodes DEF Shape, UpLinks, p
  <2>2. s = SideOf(t, n)
    BY <1>5, <2>1, OnItsSide DEF p
  <2>3. QED
    BY <1>1, <2>1, <2>2
<1>6. ASSUME t.kid[s][m] # n PROVE r.kid[s][m] = t.kid[s][m]
  <2>1. n = t.pRoot \/ m # p \/ s # SideOf(t, n)
    BY <1>6, OnItsSide DEF p
  <2>2. QED
    BY Zenon, <1>1, <1>3, <2>1, Nodes
<1>7. QED
  BY <1>4, <1>5, <1>6

-----------------------------------------------------------------------------
(* Colours.  bh is the number of black nodes on every way down from a node.*)
Weight(t, n) == IF t.color[n] = "black" THEN 1 ELSE 0

(* The ways down from n on both sides have as many black nodes.            *)
Even(t, bh, n) ==
    \A s \in Side : bh[n] = bh[t.kid[s][n]] + Weight(t, n)

(* The ends of the branches are not counted.                               *)
Heights(bh) == bh \in [Node -> Nat] /\ bh[Nil] = 0

(* A red node with a red child.                                            *)
RedPair(t, n, d) == t.color[n] = "red" /\ t.color[t.kid[d][n]] = "red"

(* Between two calls.                                                      *)
Balanced(t, sub, bh) ==
    /\ Shape(t, sub) /\ Heights(bh)
    /\ \A n \in Elem : Even(t, bh, n)
    /\ \A n \in Elem, d \in Side : ~ RedPair(t, n, d)
    /\ t.color[Nil] = "black" /\ t.color[t.pRoot] = "black"

(* While an insertion is repaired at x: x may be red under a red parent,   *)
(* or a red top.                                                           *)
TooRed(t, sub, bh, x) ==
    /\ Shape(t, sub) /\ Heights(bh)
    /\ x \in sub[t.pRoot] /\ t.color[x] = "red"
    /\ \A n \in Elem : Even(t, bh, n)
    /\ \A n \in Elem, d \in Side : RedPair(t, n, d) => t.kid[d][n] = x
    /\ t.color[Nil] = "black" /\ (t.color[t.pRoot] = "red" => t.pRoot = x)

(* Heights and weights are numbers.                                        *)
LEMMA Weights ==
    ASSUME NEW t \in Tree, NEW bh, Heights(bh)
    PROVE  /\ \A n \in Node : bh[n] \in Nat /\ Weight(t, n) \in {0, 1}
           /\ \A n \in Elem, s \in Side : bh[t.kid[s][n]] \in Nat
BY Zenon, TreeTypes, Nodes DEF Heights, Weight

(* Where a loop of the insertion turns: at a grandchild whose parent is on *)
(* the side d of the grandparent.                                          *)
LEMMA Grandchild ==
    ASSUME NEW t \in Tree, NEW sub, NEW bh, NEW x, TooRed(t, sub, bh, x),
           ~ InsertOver(t, x)
    PROVE  LET p == t.up[x]
               g == t.up[p]
               d == SideOf(t, p)
           IN  /\ x \in Elem /\ p \in Elem /\ g \in Elem /\ d \in Side
               /\ p \in sub[t.pRoot] /\ g \in sub[t.pRoot] /\ p # t.pRoot
               /\ t.color[x] = "red" /\ t.color[p] = "red" /\ t.color[g] = "black"
               /\ t.kid[d][g] = p /\ t.kid[Other(d)][g] # p
               /\ Uncle(t, x) = t.kid[Other(d)][g]
               /\ x # p /\ p # g /\ x # g /\ Uncle(t, x) # x
               /\ \E s \in Side : t.kid[s][p] = x
<1> DEFINE p == t.up[x]
           g == t.up[p]
           d == SideOf(t, p)
<1> HIDE DEF p, g, d
<1>1. Shape(t, sub) /\ x \in sub[t.pRoot] /\ x # t.pRoot /\ t.color[p] # "black"
  BY DEF TooRed, InsertOver, p
<1>2. x \in Elem
  BY <1>1, ShapeFacts, TreeTypes
<1>3. p \in Elem /\ p \in sub[t.pRoot] /\ SideOf(t, x) \in Side /\ t.kid[SideOf(t, x)][p] = x
  BY <1>1, OnItsSide DEF p
<1>4. t.color[p] = "red" /\ p # x
  <2>1. t.color[p] = "red"
    BY Zenon, <1>1, <1>3, TreeTypes, Nodes DEF Colour
  <2>2. QED
    BY <1>1, <1>3, <2>1, ShapeFacts
<1>5. p # t.pRoot
  BY <1>1, <1>4 DEF TooRed
<1>6. /\ g \in Elem /\ g \in sub[t.pRoot] /\ d \in Side /\ t.kid[d][g] = p
      /\ t.kid[Other(d)][g] # p
  BY <1>1, <1>3, <1>5, OnItsSide DEF g, d
<1>7. p # g
  BY <1>1, <1>6, ShapeFacts
<1>8. t.color[g] = "black"
  <2>1. t.color[g] # "red"
    BY <1>4, <1>6 DEF TooRed, RedPair
  <2>2. QED
    BY Zenon, <1>6, <2>1, TreeTypes, Nodes DEF Colour
<1>9. x # g
  BY <1>1, <1>8 DEF TooRed
<1>10. Uncle(t, x) = t.kid[Other(d)][g]
  BY DEF Uncle, p, g, d
<1>11. t.kid[Other(d)][g] # x
  <2>1. Other(d) \in Side
    BY <1>6, Sides
  <2>2. t.kid[Other(d)][g] = x => t.up[x] = g
    BY <1>1, <1>2, <1>6, <2>1, Nodes DEF Shape, UpLinks
  <2>3. QED
    BY <1>7, <2>2 DEF p
<1>12. t.color[x] = "red"
  BY DEF TooRed
<1>13. QED
  BY <1>2, <1>3, <1>4, <1>5, <1>6, <1>7, <1>8, <1>9, <1>10, <1>11, <1>12 DEF p, g, d

(* A red uncle: the trouble moves up to the grandparent.                   *)
LEMMA RecolourStep ==
    ASSUME NEW t \in Tree, NEW sub, NEW bh, NEW x, TooRed(t, sub, bh, x),
           ~ InsertOver(t, x), t.color[Uncle(t, x)] = "red"
    PROVE  /\ Recolour(t, x) \in Tree /\ SameLinks(t, Recolour(t, x))
           /\ \E new : TooRed(Recolour(t, x), sub, new, t.up[t.up[x]])
<1> DEFINE p == t.up[x]
           g == t.up[p]
           d == SideOf(t, p)
           u == Uncle(t, x)
           r == Recolour(t, x)
           new == [m \in Node |-> IF m \in {p, u} THEN bh[m] + 1 ELSE bh[m]]
<1> HIDE DEF p, g, d, u, r, new
<1>1. /\ x \in Elem /\ p \in Elem /\ g \in Elem /\ d \in Side
      /\ p \in sub[t.pRoot] /\ g \in sub[t.pRoot] /\ p # t.pRoot
      /\ t.color[x] = "red" /\ t.color[p] = "red" /\ t.color[g] = "black"
      /\ t.kid[d][g] = p /\ u # p
      /\ u = t.kid[Other(d)][g]
      /\ x # p /\ p # g /\ x # g
  BY Grandchild DEF p, g, d, u
<1>2. Shape(t, sub) /\ Heights(bh) /\ t.color[Nil] = "black"
  BY DEF TooRed
<1>3. Other(d) \in Side /\ Other(d) # d /\ \A s \in Side : s = d \/ s = Other(d)
  BY <1>1, Sides
<1>4. u \in Elem /\ u \in sub[t.pRoot] /\ u # g
  <2>1. u # Nil
    BY <1>2 DEF u
  <2>2. u \in Elem
    BY Zenon, <1>1, <1>3, <2>1, TreeTypes, Nodes
  <2>3. u \in sub[t.pRoot]
    BY <1>1, <1>2, <1>3, <2>1, ShapeFacts
  <2>4. u # g
    BY Zenon, <1>1, <1>2, <1>3, ShapeFacts DEF u
  <2>5. QED
    BY <2>2, <2>3, <2>4
<1>5. /\ r \in Tree /\ SameLinks(t, r)
      /\ \A m \in Node : r.color[m] = IF m = g THEN "red"
                                      ELSE IF m \in {p, u} THEN "black" ELSE t.color[m]
  BY Zenon, <1>1, <1>4, Nodes DEF Recolour, Tree, SameLinks, Colour, p, g, u, r
<1>6. Shape(r, sub)
  <2>1. \A m \in Elem \ sub[t.pRoot] : r.color[m] = "black"
    BY Zenon, <1>1, <1>2, <1>4, <1>5, Nodes DEF Shape, Outside
  <2>2. QED
    BY <1>2, <1>5, <2>1, PaintedShape
<1>7. Heights(new)
  <2>1. \A m \in Node : bh[m] \in Nat
    BY <1>2 DEF Heights
  <2>2. p # Nil /\ u # Nil
    BY <1>1, <1>4, Nodes
  <2>3. QED
    BY <1>2, <2>1, <2>2, Nodes DEF Heights, new
(* Which kids are p or u. *)
<1>8. \A m \in Elem, s \in Side : t.kid[s][m] \in {p, u} => m = g
  BY <1>1, <1>2, <1>3, <1>4, Nodes DEF Shape, UpLinks
<1>9. ASSUME NEW m \in Elem PROVE Even(r, new, m)
  <2>1. Even(t, bh, m)
    BY DEF TooRed
  <2>2. CASE m = g
    <3>1. /\ bh[g] = bh[p] + Weight(t, g) /\ bh[g] = bh[u] + Weight(t, g)
          /\ bh[p] \in Nat /\ bh[u] \in Nat /\ bh[g] \in Nat
      BY Zenon, <1>1, <1>2, <1>3, <1>4, <2>1, <2>2, Weights, Nodes DEF Even
    <3>2. new[u] = bh[u] + 1 /\ new[p] = bh[p] + 1 /\ new[g] = bh[g]
      BY Zenon, <1>1, <1>4, Nodes DEF new
    <3>3. Weight(t, g) = 1 /\ Weight(r, g) = 0
      BY Zenon, <1>1, <1>5, Nodes DEF Weight
    <3>4. r.kid[d][g] = p /\ r.kid[Other(d)][g] = u
      BY Zenon, <1>1, <1>5 DEF SameLinks
    <3>5. new[g] = new[u] + Weight(r, g) /\ new[g] = new[p] + Weight(r, g)
      BY <3>1, <3>2, <3>3
    <3>6. QED
      BY <1>3, <2>2, <3>4, <3>5 DEF Even
  <2>3. CASE m # g
    <3>1. \A s \in Side : r.kid[s][m] = t.kid[s][m] /\ new[r.kid[s][m]] = bh[t.kid[s][m]]
      BY Zenon, <1>5, <1>8, <2>3, TreeTypes, Nodes DEF SameLinks, new
    <3>3. CASE m \in {p, u}
      <4>1. Weight(t, m) = 0 /\ Weight(r, m) = 1 /\ new[m] = bh[m] + 1
        BY Zenon, <1>1, <1>5, <2>3, <3>3, Nodes DEF Weight, u, new
      <4>2. QED
        BY <1>2, <2>1, <3>1, <4>1, Weights, Nodes DEF Even
    <3>4. CASE m \notin {p, u}
      <4>1. Weight(t, m) = Weight(r, m) /\ new[m] = bh[m]
        BY Zenon, <1>1, <1>5, <2>3, <3>4, Nodes DEF Weight, new
      <4>2. QED
        BY <2>1, <3>1, <4>1 DEF Even
    <3>5. QED
      BY <3>3, <3>4
  <2>4. QED
    BY <2>2, <2>3
<1>10. ASSUME NEW m \in Elem, NEW s \in Side, RedPair(r, m, s) PROVE r.kid[s][m] = g
  <2>1. r.kid[s][m] = t.kid[s][m] /\ t.kid[s][m] \in Node
    BY Zenon, <1>5, TreeTypes, Nodes DEF SameLinks
  <2>2. SUFFICES ASSUME t.kid[s][m] # g PROVE FALSE
    BY <2>1
  <2>3. t.kid[s][m] \notin {p, u} /\ t.color[t.kid[s][m]] = "red"
    BY <1>5, <1>10, <2>1, <2>2 DEF RedPair
  <2>4. m # g
    BY <1>1, <1>3, <2>3
  <2>5. m \notin {p, u} /\ t.color[m] = "red"
    BY Zenon, <1>5, <1>10, <2>4, Nodes DEF RedPair
  <2>6. t.kid[s][m] = x
    BY <2>3, <2>5 DEF TooRed, RedPair
  <2>7. m = p
    BY <1>1, <1>2, <2>6, Nodes DEF Shape, UpLinks, p
  <2>8. QED
    BY <2>5, <2>7
<1>11. r.color[Nil] = "black" /\ (r.color[r.pRoot] = "red" => r.pRoot = g)
  <2>1. r.color[Nil] = "black"
    BY Zenon, <1>1, <1>2, <1>5, Nodes
  <2>2. ASSUME r.color[t.pRoot] = "red", t.pRoot # g PROVE FALSE
    <3>1. t.color[t.pRoot] = "red"
      BY <1>5, <2>2, TreeTypes
    <3>2. t.pRoot = x
      BY <3>1 DEF TooRed
    <3>3. QED
      BY <3>2 DEF InsertOver
  <2>3. QED
    BY <1>5, <2>1, <2>2 DEF SameLinks
<1>12. g \in sub[r.pRoot] /\ r.color[g] = "red"
  BY Zenon, <1>1, <1>5, Nodes DEF SameLinks
<1>13. TooRed(r, sub, new, g)
  BY <1>6, <1>7, <1>9, <1>10, <1>11, <1>12 DEF TooRed
<1>14. QED
  BY <1>5, <1>13 DEF r, g, p

(* Of the nodes that do not move, a rotation keeps the balance if the node *)
(* that comes up is as high as the one that sinks was.                     *)
LEMMA EvenElsewhere ==
    ASSUME NEW t \in Tree, NEW sub, Shape(t, sub), NEW d \in Side, NEW n \in sub[t.pRoot],
           t.kid[Other(d)][n] # Nil, NEW bh, NEW new, NEW m \in Elem,
           new[t.kid[Other(d)][n]] = bh[n],
           \A k \in Node : k \notin {n, t.kid[Other(d)][n]} => new[k] = bh[k],
           m \notin {n, t.kid[Other(d)][n]}, Even(t, bh, m)
    PROVE  Even(Rotate(t, n, d), new, m)
<1> DEFINE y == t.kid[Other(d)][n]
           r == Rotate(t, n, d)
<1> HIDE DEF y, r
<1>1. r.color = t.color
  BY RotateLinks DEF r
<1>2. new[m] = bh[m] /\ Weight(r, m) = Weight(t, m)
  BY Zenon, <1>1, Nodes DEF Weight
<1>3. ASSUME NEW s \in Side PROVE new[r.kid[s][m]] = bh[t.kid[s][m]]
  <2>1. /\ t.kid[s][m] # y
        /\ t.kid[s][m] = n => r.kid[s][m] = y
        /\ t.kid[s][m] # n => r.kid[s][m] = t.kid[s][m]
    BY RotateElsewhere DEF y, r
  <2>2. t.kid[s][m] \in Node
    BY Zenon, TreeTypes, Nodes
  <2>3. QED
    BY <2>1, <2>2 DEF y
<1>4. QED
  BY <1>2, <1>3 DEF Even, r

(* What a rotation of n to the side d makes of t, when its child y comes up.*)
Rotated(t, r, n, y, d) ==
    /\ r \in Tree /\ r.color = t.color /\ r.count = t.count
    /\ r.pRoot = IF n = t.pRoot THEN y ELSE t.pRoot
    /\ r.kid[Other(d)][n] = t.kid[d][y] /\ r.kid[d][n] = t.kid[d][n]
    /\ r.kid[d][y] = n /\ r.kid[Other(d)][y] = t.kid[Other(d)][y]
    /\ r.up[n] = y /\ r.up[y] = t.up[n]
    /\ t.kid[d][y] # Nil => r.up[t.kid[d][y]] = n
    /\ \A m \in Node : m \notin {n, y} /\ (m # t.kid[d][y] \/ m = Nil)
                        => r.up[m] = t.up[m]

(* A rotation at an element whose parent is known.                         *)
LEMMA RotateAt ==
    ASSUME NEW t \in Tree, NEW sub, Shape(t, sub), NEW d \in Side, NEW n \in sub[t.pRoot],
           t.kid[Other(d)][n] # Nil
    PROVE  Rotated(t, Rotate(t, n, d), n, t.kid[Other(d)][n], d)
BY RotateLinks DEF Rotated

(* An inner grandchild becomes an outer one.                               *)
LEMMA StraightenStep ==
    ASSUME NEW t \in Tree, NEW sub, NEW bh, NEW x, TooRed(t, sub, bh, x),
           ~ InsertOver(t, x), t.color[Uncle(t, x)] = "black",
           x = t.kid[Other(SideOf(t, t.up[x]))][t.up[x]]
    PROVE  LET p == t.up[x]
               d == SideOf(t, p)
               r == Rotate(t, p, d)
               new == Turned(t, sub, p, d)
           IN  /\ r \in Tree /\ r.count = t.count /\ new[r.pRoot] = sub[t.pRoot]
               /\ TooRed(r, new, bh, p) /\ ~ InsertOver(r, p)
               /\ r.up[p] = x /\ SideOf(r, x) = d /\ r.kid[d][x] = p
               /\ r.color[Uncle(r, p)] = "black"
<1> DEFINE p == t.up[x]
           g == t.up[p]
           d == SideOf(t, p)
           o == Other(d)
           u == Uncle(t, x)
           r == Rotate(t, p, d)
           new == Turned(t, sub, p, d)
           a == t.kid[d][p]
           b == t.kid[d][x]
           c == t.kid[o][x]
<1> HIDE DEF p, g, d, o, u, r, new, a, b, c
<1>1. /\ x \in Elem /\ p \in Elem /\ g \in Elem /\ d \in Side
      /\ p \in sub[t.pRoot] /\ g \in sub[t.pRoot] /\ p # t.pRoot
      /\ t.color[x] = "red" /\ t.color[p] = "red" /\ t.color[g] = "black"
      /\ t.kid[d][g] = p /\ u # p
      /\ u = t.kid[Other(d)][g]
      /\ x # p /\ p # g /\ x # g
  BY Grandchild DEF p, g, d, u
<1>2. Shape(t, sub) /\ Heights(bh) /\ t.color[Nil] = "black" /\ x \in sub[t.pRoot]
  BY DEF TooRed
<1>3. o \in Side /\ o # d /\ (\A s \in Side : s = d \/ s = o) /\ t.kid[o][p] = x /\ x # Nil
  BY <1>1, Sides, Nodes DEF p, d, o
<1>4. /\ r \in Tree /\ r.color = t.color /\ r.count = t.count
      /\ r.pRoot = t.pRoot
      /\ r.kid[o][p] = b /\ r.kid[d][p] = a
      /\ r.kid[d][x] = p /\ r.kid[o][x] = c
      /\ r.up[p] = x /\ r.up[x] = g
  <2>1. Rotated(t, r, p, x, d)
    BY <1>1, <1>2, <1>3, RotateAt DEF o, r
  <2>2. o = Other(d) /\ g = t.up[p] /\ a = t.kid[d][p] /\ b = t.kid[d][x] /\ c = t.kid[o][x]
    BY DEF g, o, a, b, c
  <2>3. QED
    BY <1>1, <2>1, <2>2 DEF Rotated
<1>5. Shape(r, new) /\ new[r.pRoot] = sub[t.pRoot]
  BY <1>1, <1>2, <1>3, RotateShape DEF o, r, new
<1>6. \A m \in Elem, s \in Side :
         m \notin {p, x} => /\ t.kid[s][m] # x
                            /\ t.kid[s][m] = p => r.kid[s][m] = x
                            /\ t.kid[s][m] # p => r.kid[s][m] = t.kid[s][m]
  BY <1>1, <1>2, <1>3, RotateElsewhere DEF o, r
<1>7. \A m \in Elem : Even(t, bh, m)
  BY DEF TooRed
<1>8. /\ Weight(r, p) = 0 /\ Weight(r, x) = 0 /\ Weight(t, p) = 0 /\ Weight(t, x) = 0
      /\ bh[p] = bh[x] /\ bh[p] = bh[a] /\ bh[x] = bh[b] /\ bh[x] = bh[c]
  <2>1. Weight(r, p) = 0 /\ Weight(r, x) = 0 /\ Weight(t, p) = 0 /\ Weight(t, x) = 0
    BY <1>1, <1>4 DEF Weight
  <2>2. /\ bh[p] = bh[a] + Weight(t, p) /\ bh[p] = bh[x] + Weight(t, p)
        /\ bh[x] = bh[b] + Weight(t, x) /\ bh[x] = bh[c] + Weight(t, x)
    BY <1>1, <1>3, <1>7 DEF Even, a, b, c
  <2>3. bh[a] \in Nat /\ bh[x] \in Nat /\ bh[b] \in Nat /\ bh[c] \in Nat
    BY <1>1, <1>2, <1>3, Weights, Nodes DEF a, b, c
  <2>4. QED
    BY <2>1, <2>2, <2>3
<1>9. ASSUME NEW m \in Elem PROVE Even(r, bh, m)
  <2>0. bh[p] = bh[p] + 0 /\ bh[x] = bh[x] + 0
    <3>1. bh[p] \in Nat /\ bh[x] \in Nat
      BY Zenon, <1>1, <1>2, Weights, Nodes
    <3>2. \A i \in Nat : i = i + 0
      OBVIOUS
    <3>3. QED
      BY <3>1, <3>2, Zenon
  <2>1. CASE m = p
    <3>1. bh[p] = bh[a] + Weight(r, p) /\ bh[p] = bh[b] + Weight(r, p)
      BY <1>8, <2>0, Zenon
    <3>2. QED
      BY <1>3, <1>4, <2>1, <3>1 DEF Even
  <2>2. CASE m = x
    <3>1. bh[x] = bh[p] + Weight(r, x) /\ bh[x] = bh[c] + Weight(r, x)
      BY <1>8, <2>0, Zenon
    <3>2. QED
      BY <1>3, <1>4, <2>2, <3>1 DEF Even
  <2>3. CASE m \notin {p, x}
    BY Zenon, <1>1, <1>2, <1>3, <1>7, <1>8, <2>3, EvenElsewhere DEF r, o
  <2>4. QED
    BY <2>1, <2>2, <2>3
<1>10. ASSUME NEW m \in Elem, NEW s \in Side, RedPair(r, m, s) PROVE r.kid[s][m] = p
  <2>0. \A k \in Elem, z \in Side : RedPair(t, k, z) => t.kid[z][k] = x
    BY DEF TooRed
  <2>1. CASE m = p
    <3>1. \A z \in Side : t.kid[z][x] # x
      BY <1>1, <1>2, ShapeFacts
    <3>2. a # x
      BY <1>1, <1>2, <1>3, ShapeFacts DEF o, a
    <3>3. CASE s = d
      BY <1>1, <1>4, <1>10, <2>0, <2>1, <3>2, <3>3 DEF RedPair, a
    <3>4. CASE s = o
      BY <1>1, <1>4, <1>10, <2>0, <2>1, <3>1, <3>4 DEF RedPair, b
    <3>5. QED
      BY <1>3, <3>3, <3>4
  <2>2. CASE m = x
    <3>1. \A z \in Side : t.kid[z][x] # x
      BY <1>1, <1>2, ShapeFacts
    <3>2. ASSUME s = o PROVE FALSE
      <4>1. RedPair(t, x, o)
        BY <1>4, <1>10, <2>2, <3>2 DEF RedPair, c
      <4>2. QED
        BY Zenon, <1>1, <1>3, <2>0, <3>1, <4>1
    <3>3. QED
      BY <1>3, <1>4, <2>2, <3>2
  <2>3. CASE m \notin {p, x}
    <3>1. t.kid[s][m] = p => m = g
      BY <1>1, <1>2, Nodes DEF Shape, UpLinks
    <3>2. m # g
      <4>1. t.color[m] = "red"
        BY <1>4, <1>10 DEF RedPair
      <4>2. QED
        BY <1>1, <4>1
    <3>3. r.kid[s][m] = t.kid[s][m] /\ t.kid[s][m] # x
      BY <1>6, <2>3, <3>1, <3>2
    <3>4. QED
      BY <1>4, <1>10, <2>0, <3>3 DEF RedPair
  <2>4. QED
    BY <2>1, <2>2, <2>3
<1>11. r.color[Nil] = "black" /\ (r.color[r.pRoot] = "red" => r.pRoot = p)
  <2>1. t.color[t.pRoot] = "red" => t.pRoot = x
    BY DEF TooRed
  <2>2. t.pRoot # x
    BY DEF InsertOver
  <2>3. QED
    BY <1>2, <1>4, <2>1, <2>2
<1>12. TooRed(r, new, bh, p)
  BY <1>1, <1>2, <1>4, <1>5, <1>9, <1>10, <1>11 DEF TooRed
<1>13. r.kid[d][g] = x /\ r.kid[o][g] = u
  BY <1>1, <1>3, <1>6 DEF o
<1>14. SideOf(r, x) = d
  <2>1. u # x
    <3>1. \A s \in Side : t.kid[s][g] = x => t.up[x] = g
      BY <1>1, <1>2, Nodes DEF Shape, UpLinks
    <3>2. QED
      BY <1>1, <1>3, <3>1 DEF u
  <2>2. QED
    BY Zenon, <1>4, <1>13, <2>1, <1>1 DEF SideOf, Side, Other, o
<1>15. ~ InsertOver(r, p)
  BY <1>1, <1>4 DEF InsertOver
<1>16. r.color[Uncle(r, p)] = "black"
  BY <1>4, <1>13, <1>14 DEF Uncle, o, u
<1>17. QED
  BY <1>4, <1>5, <1>12, <1>14, <1>15, <1>16 DEF r, new, p, d

(* An outer grandchild with a black uncle: one rotation, and the loop ends.*)
LEMMA ToppleStep ==
    ASSUME NEW t \in Tree, NEW sub, NEW bh, NEW x, TooRed(t, sub, bh, x),
           ~ InsertOver(t, x), t.color[Uncle(t, x)] = "black",
           NEW d \in Side, d = SideOf(t, t.up[x]), x = t.kid[d][t.up[x]]
    PROVE  LET r == Topple(t, x, d)
           IN  /\ r \in Tree /\ r.count = t.count /\ InsertOver(r, x)
               /\ \E new, nbh : TooRed(r, new, nbh, x) /\ new[r.pRoot] = sub[t.pRoot]
<1> DEFINE p == t.up[x]
           g == t.up[p]
           o == Other(d)
           u == Uncle(t, x)
           q == Paint(Paint(t, p, "black"), g, "red")
           r == Rotate(q, g, o)
           new == Turned(q, sub, g, o)
           b == t.kid[o][p]
           nbh == [m \in Node |-> IF m = p THEN bh[g] ELSE IF m = g THEN bh[u] ELSE bh[m]]
<1> HIDE DEF p, g, o, u, q, r, new, b, nbh
<1>1. /\ x \in Elem /\ p \in Elem /\ g \in Elem /\ d \in Side
      /\ p \in sub[t.pRoot] /\ g \in sub[t.pRoot] /\ p # t.pRoot
      /\ t.color[x] = "red" /\ t.color[p] = "red" /\ t.color[g] = "black"
      /\ t.kid[d][g] = p /\ u # p
      /\ u = t.kid[Other(d)][g]
      /\ x # p /\ p # g /\ x # g
  BY Grandchild DEF p, g, u
<1>2. Shape(t, sub) /\ Heights(bh) /\ t.color[Nil] = "black" /\ x \in sub[t.pRoot]
  BY DEF TooRed
<1>3. /\ o \in Side /\ o # d /\ Other(o) = d /\ \A s \in Side : s = d \/ s = o
      /\ p \in Node /\ g \in Node /\ x \in Node /\ u \in Node /\ b \in Node
      /\ x # Nil /\ p # Nil /\ g # Nil
  <2>1. /\ o \in Side /\ o # d /\ Other(o) = d /\ \A s \in Side : s = d \/ s = o
    BY Sides DEF o
  <2>2. p \in Node /\ g \in Node /\ x \in Node /\ x # Nil /\ p # Nil /\ g # Nil
    BY <1>1, Nodes
  <2>3. u \in Node /\ b \in Node
    BY <1>1, <2>1, <2>2, TreeTypes DEF o, b
  <2>4. QED
    BY <2>1, <2>2, <2>3
<1>4. /\ q \in Tree /\ SameLinks(t, q)
      /\ \A m \in Node : q.color[m] = IF m = g THEN "red" ELSE IF m = p THEN "black"
                                      ELSE t.color[m]
  <2>1. /\ Paint(t, p, "black") \in Tree /\ SameLinks(t, Paint(t, p, "black"))
        /\ \A m \in Node : Paint(t, p, "black").color[m] = IF m = p THEN "black" ELSE t.color[m]
    <3>1. p \in Node /\ "black" \in Colour
      BY <1>3 DEF Colour
    <3>2. QED
      BY <3>1, PaintLinks
  <2>2. /\ q \in Tree /\ SameLinks(Paint(t, p, "black"), q)
        /\ \A m \in Node : q.color[m] = IF m = g THEN "red"
                                        ELSE Paint(t, p, "black").color[m]
    <3>1. g \in Node /\ "red" \in Colour
      BY <1>3 DEF Colour
    <3>2. QED
      BY <2>1, <3>1, PaintLinks DEF q
  <2>3. QED
    BY <2>1, <2>2 DEF SameLinks
<1>5. Shape(q, sub)
  <2>1. \A m \in Elem \ sub[t.pRoot] : q.color[m] = "black"
    BY Zenon, <1>1, <1>2, <1>4, Nodes DEF Shape, Outside
  <2>2. QED
    BY <1>2, <1>4, <2>1, PaintedShape
<1>6. g \in sub[q.pRoot] /\ q.kid[Other(o)][g] = p /\ q.kid[o][p] = b /\ q.kid[d][p] = x
      /\ q.kid[o][g] = u /\ q.up[g] = t.up[g]
  BY <1>1, <1>3, <1>4 DEF SameLinks, p, o, b
<1>7. /\ r \in Tree /\ r.color = q.color /\ r.count = q.count
      /\ r.pRoot = IF g = q.pRoot THEN p ELSE q.pRoot
      /\ r.kid[d][g] = b /\ r.kid[o][g] = u
      /\ r.kid[o][p] = g /\ r.kid[d][p] = x
      /\ \A m \in Node : m \notin {g, p} /\ (m # b \/ m = Nil) => r.up[m] = q.up[m]
  <2>1. Rotated(q, r, g, p, o)
    BY <1>3, <1>4, <1>5, <1>6, RotateAt DEF r
  <2>2. /\ r \in Tree /\ r.color = q.color /\ r.count = q.count
        /\ r.pRoot = IF g = q.pRoot THEN p ELSE q.pRoot
        /\ r.kid[d][g] = q.kid[o][p] /\ r.kid[o][g] = q.kid[o][g]
        /\ r.kid[o][p] = g /\ r.kid[d][p] = q.kid[d][p]
        /\ \A m \in Node : m \notin {g, p} /\ (m # q.kid[o][p] \/ m = Nil)
                            => r.up[m] = q.up[m]
    BY <1>3, <2>1 DEF Rotated
  <2>3. QED
    BY <1>6, <2>2
<1>8. Shape(r, new) /\ new[r.pRoot] = sub[t.pRoot]
  <2>1. Shape(r, new) /\ new[r.pRoot] = sub[q.pRoot]
    BY <1>3, <1>4, <1>5, <1>6, RotateShape DEF r, new
  <2>2. QED
    BY <1>4, <2>1 DEF SameLinks
<1>9. \A m \in Elem, s \in Side :
         m \notin {g, p} => /\ q.kid[s][m] # p
                            /\ q.kid[s][m] = g => r.kid[s][m] = p
                            /\ q.kid[s][m] # g => r.kid[s][m] = q.kid[s][m]
  BY <1>3, <1>4, <1>5, <1>6, RotateElsewhere DEF r
<1>10. \A m \in Elem : Even(t, bh, m)
  BY DEF TooRed
<1>11. /\ bh[g] = bh[p] + 1 /\ bh[g] = bh[u] + 1 /\ bh[p] = bh[x] /\ bh[p] = bh[b]
       /\ bh[p] \in Nat /\ bh[u] \in Nat /\ bh[g] \in Nat
  <2>1. Weight(t, p) = 0 /\ Weight(t, g) = 1
    BY <1>1 DEF Weight
  <2>2. /\ bh[p] = bh[x] + Weight(t, p) /\ bh[p] = bh[b] + Weight(t, p)
        /\ bh[g] = bh[p] + Weight(t, g) /\ bh[g] = bh[u] + Weight(t, g)
    BY Zenon, <1>1, <1>3, <1>10 DEF Even, p, o, b
  <2>3. bh[p] \in Nat /\ bh[x] \in Nat /\ bh[b] \in Nat /\ bh[u] \in Nat /\ bh[g] \in Nat
    BY <1>2, <1>3, Weights
  <2>4. QED
    BY <2>1, <2>2, <2>3
<1>12. b # x /\ b # g /\ u # x /\ u # g /\ b # p
  <2>1. b # x
    BY <1>1, <1>2, <1>3, ShapeFacts DEF p, b
  <2>2. \A s \in Side : t.kid[s][g] = x => t.up[x] = g
    BY <1>1, <1>2, Nodes DEF Shape, UpLinks
  <2>3. u # g /\ b # p
    BY <1>1, <1>2, <1>3, ShapeFacts DEF o, b
  <2>4. b # g
    <3>1. p \in sub[p] /\ p \notin sub[b]
      BY <1>1, <1>2, <1>3, ShapeFacts DEF b
    <3>3. sub[t.kid[d][g]] \subseteq sub[g]
      BY <1>1, <1>2, ShapeFacts
    <3>2. QED
      BY <1>1, <3>1, <3>3
  <2>5. QED
    BY Zenon, <1>1, <1>3, <2>1, <2>2, <2>3, <2>4 DEF u
<1>13. nbh[p] = bh[g] /\ nbh[g] = bh[u] /\ nbh[x] = bh[x] /\ nbh[b] = bh[b] /\ nbh[u] = bh[u]
  BY Zenon, <1>1, <1>3, <1>12 DEF nbh
<1>14. Heights(nbh)
  <2>1. \A m \in Node : bh[m] \in Nat
    BY <1>2 DEF Heights
  <2>2. QED
    BY Zenon, <1>2, <1>3, <2>1, Nodes DEF Heights, nbh
<1>15. ASSUME NEW m \in Elem PROVE Even(r, nbh, m)
  <2>1. CASE m = p
    <3>1. Weight(r, p) = 1
      BY Zenon, <1>1, <1>3, <1>4, <1>7 DEF Weight
    <3>2. nbh[p] = nbh[x] + 1 /\ nbh[p] = nbh[g] + 1
      BY Zenon, <1>11, <1>13
    <3>3. QED
      BY Zenon, <1>3, <1>7, <2>1, <3>1, <3>2 DEF Even
  <2>2. CASE m = g
    <3>1. Weight(r, g) = 0
      BY Zenon, <1>1, <1>3, <1>4, <1>7 DEF Weight
    <3>2. nbh[g] = nbh[b] + 0 /\ nbh[g] = nbh[u] + 0
      <4>1. bh[u] = bh[b] /\ bh[u] \in Nat
        BY <1>11
      <4>2. QED
        BY <1>13, <4>1
    <3>3. QED
      BY Zenon, <1>3, <1>7, <2>2, <3>1, <3>2 DEF Even
  <2>3. CASE m \notin {g, p}
    <3>1. Even(q, bh, m)
      <4>1. Weight(q, m) = Weight(t, m)
        BY Zenon, <1>4, <2>3, Nodes DEF Weight
      <4>2. QED
        BY <1>4, <1>10, <4>1 DEF Even, SameLinks
    <3>2. nbh[p] = bh[g] /\ \A k \in Node : k \notin {g, p} => nbh[k] = bh[k]
      BY Zenon, <1>13 DEF nbh
    <3>3. QED
      BY <1>3, <1>4, <1>5, <1>6, <2>3, <3>1, <3>2, EvenElsewhere DEF r
  <2>4. QED
    BY <2>1, <2>2, <2>3
<1>16. ASSUME NEW m \in Elem, NEW s \in Side, RedPair(r, m, s) PROVE FALSE
  <2>0. \A k \in Elem, z \in Side : RedPair(t, k, z) => t.kid[z][k] = x
    BY DEF TooRed
  <2>1. CASE m = p
    BY Zenon, <1>1, <1>3, <1>4, <1>7, <1>16, <2>1 DEF RedPair
  <2>2. CASE m = g
    <3>1. CASE s = d
      <4>1. t.color[b] = "red"
        BY <1>3, <1>4, <1>7, <1>12, <1>16, <2>2, <3>1 DEF RedPair
      <4>2. QED
        BY <1>1, <1>3, <1>12, <2>0, <4>1 DEF RedPair, b
    <3>2. CASE s = o
      BY Zenon, <1>1, <1>3, <1>4, <1>7, <1>12, <1>16, <2>2, <3>2 DEF RedPair, g, u
    <3>3. QED
      BY <1>3, <3>1, <3>2
  <2>3. CASE m \notin {g, p}
    <3>1. m \in Node /\ t.kid[s][m] \in Node /\ q.kid[s][m] = t.kid[s][m]
      BY Zenon, <1>4, Nodes, TreeTypes DEF SameLinks
    <3>2. q.kid[s][m] # g
      BY Zenon, <1>1, <1>3, <1>4, <1>7, <1>9, <1>16, <2>3 DEF RedPair
    <3>3. r.kid[s][m] = t.kid[s][m] /\ t.kid[s][m] \notin {g, p}
      BY <1>9, <2>3, <3>1, <3>2
    <3>4. RedPair(t, m, s)
      BY <1>4, <1>7, <1>16, <2>3, <3>1, <3>3 DEF RedPair
    <3>5. t.kid[s][m] = x
      BY <2>0, <3>4
    <3>6. m = p
      BY <1>1, <1>2, <3>5, Nodes DEF Shape, UpLinks, p
    <3>7. QED
      BY <2>3, <3>6
  <2>4. QED
    BY <2>1, <2>2, <2>3
<1>17. r.color[Nil] = "black" /\ (r.color[r.pRoot] = "red" => r.pRoot = x)
  <2>1. r.color[Nil] = "black"
    BY <1>2, <1>3, <1>4, <1>7, Nodes
  <2>2. CASE g = t.pRoot
    <3>1. r.pRoot = p
      BY <1>4, <1>7, <2>2 DEF SameLinks
    <3>2. r.color[p] = "black"
      BY Zenon, <1>1, <1>3, <1>4, <1>7
    <3>3. QED
      BY <2>1, <3>1, <3>2
  <2>3. CASE g # t.pRoot
    <3>1. t.pRoot \in Node
      BY TreeTypes
    <3>2. r.pRoot = t.pRoot /\ r.color[t.pRoot] = t.color[t.pRoot]
      BY Zenon, <1>1, <1>4, <1>7, <2>3, <3>1 DEF SameLinks
    <3>3. t.color[t.pRoot] = "red" => t.pRoot = x
      BY DEF TooRed
    <3>4. QED
      BY <2>1, <3>2, <3>3
  <2>4. QED
    BY <2>1, <2>2, <2>3
<1>18. TooRed(r, new, nbh, x)
  <2>1. x \in new[r.pRoot] /\ r.color[x] = "red"
    BY Zenon, <1>1, <1>2, <1>3, <1>4, <1>7, <1>8
  <2>2. QED
    BY <1>8, <1>14, <1>15, <1>16, <1>17, <2>1 DEF TooRed
<1>19. InsertOver(r, x)
  <2>1. r.up[x] = p
    BY Zenon, <1>1, <1>3, <1>4, <1>7, <1>12 DEF SameLinks, p, g
  <2>2. QED
    BY Zenon, <1>1, <1>3, <1>4, <1>7, <2>1 DEF InsertOver
<1>20. r = Topple(t, x, d) /\ r.count = t.count
  BY Zenon, <1>4, <1>7 DEF Topple, r, q, SameLinks, p, g, o
<1>21. QED
  BY Zenon, <1>7, <1>8, <1>18, <1>19, <1>20

(* A turn of the loop in rb_insert.                                        *)
LEMMA InsertTurnStep ==
    ASSUME NEW t \in Tree, NEW sub, NEW bh, NEW x, TooRed(t, sub, bh, x),
           ~ InsertOver(t, x)
    PROVE  LET r == InsertTurn(t, x).tree
               z == InsertTurn(t, x).at
           IN  /\ r \in Tree /\ r.count = t.count /\ z \in Node
               /\ \E new, nbh : /\ TooRed(r, new, nbh, z) /\ new[r.pRoot] = sub[t.pRoot]
                                /\ \/ InsertOver(r, z)
                                   \/ z \notin sub[x] /\ sub[x] \subseteq new[z]
<1> DEFINE p == t.up[x]
           d == SideOf(t, p)
           s == Straighten(t, x)
<1> HIDE DEF p, d, s
<1>1. /\ x \in Elem /\ p \in Elem /\ t.up[p] \in Elem /\ d \in Side
      /\ t.kid[d][t.up[p]] = p /\ \E z \in Side : t.kid[z][p] = x
  BY Grandchild DEF p, d
<1>2. CASE t.color[Uncle(t, x)] = "red"
  <2>1. InsertTurn(t, x) = [tree |-> Recolour(t, x), at |-> t.up[p]]
    BY <1>2 DEF InsertTurn, p
  <2>2. PICK nbh : TooRed(Recolour(t, x), sub, nbh, t.up[p])
    BY <1>2, RecolourStep DEF p
  <2>3. Recolour(t, x) \in Tree /\ SameLinks(t, Recolour(t, x))
    BY <1>2, RecolourStep
  <2>4. t.up[p] \notin sub[x] /\ sub[x] \subseteq sub[t.up[p]]
    <3>1. Shape(t, sub)
      BY DEF TooRed
    <3>2. sub[p] \subseteq sub[t.up[p]] /\ t.up[p] \notin sub[p] /\ sub[x] \subseteq sub[p]
      BY <1>1, <3>1, ShapeFacts
    <3>3. QED
      BY <3>2
  <2>5. sub[Recolour(t, x).pRoot] = sub[t.pRoot] /\ Recolour(t, x).count = t.count
    BY <2>3 DEF SameLinks
  <2> DEFINE r == Recolour(t, x)
  <2> HIDE DEF r
  <2>6. InsertTurn(t, x).tree = r /\ InsertTurn(t, x).at = t.up[p]
    BY <2>1 DEF r
  <2>7. QED
    BY <1>1, <2>2, <2>3, <2>4, <2>5, <2>6, Nodes DEF r
<1>3. CASE t.color[Uncle(t, x)] # "red"
  <2>0. t.color[Uncle(t, x)] = "black"
    <3>1. Uncle(t, x) \in Node
      BY Zenon, <1>1, TreeTypes, Nodes, Sides DEF Uncle, p, d
    <3>2. QED
      BY <1>3, <3>1, TreeTypes DEF Colour
  <2> DEFINE r == Topple(s.tree, s.at, d)
  <2> HIDE DEF r
  <2>1. InsertTurn(t, x) = [tree |-> r, at |-> s.at]
    BY <1>3 DEF InsertTurn, p, d, s, r
  <2>2. CASE x = t.kid[Other(d)][p]
    <3> DEFINE q == Rotate(t, p, d)
               mid == Turned(t, sub, p, d)
    <3> HIDE DEF q, mid
    <3>1. s = [tree |-> q, at |-> p]
      BY <2>2 DEF Straighten, p, d, s, q
    <3>2. /\ q \in Tree /\ q.count = t.count /\ mid[q.pRoot] = sub[t.pRoot]
          /\ TooRed(q, mid, bh, p) /\ ~ InsertOver(q, p)
          /\ q.up[p] = x /\ SideOf(q, x) = d /\ q.kid[d][x] = p
          /\ q.color[Uncle(q, p)] = "black"
      BY <2>0, <2>2, StraightenStep DEF p, d, q, mid
    <3>3. LET w == Topple(q, p, d)
          IN  /\ w \in Tree /\ w.count = q.count /\ InsertOver(w, p)
              /\ \E new, nbh : TooRed(w, new, nbh, p) /\ new[w.pRoot] = mid[q.pRoot]
      BY <1>1, <3>2, ToppleStep
    <3>4. InsertTurn(t, x).tree = Topple(q, p, d) /\ InsertTurn(t, x).at = p
      BY <2>1, <3>1 DEF r
    <3>5. QED
      BY <1>1, <3>2, <3>3, <3>4, Nodes
  <2>3. CASE x # t.kid[Other(d)][p]
    <3>1. s = [tree |-> t, at |-> x]
      BY <2>3 DEF Straighten, p, d, s
    <3>2. x = t.kid[d][p]
      BY <1>1, <2>3, Sides
    <3>3. LET w == Topple(t, x, d)
          IN  /\ w \in Tree /\ w.count = t.count /\ InsertOver(w, x)
              /\ \E new, nbh : TooRed(w, new, nbh, x) /\ new[w.pRoot] = sub[t.pRoot]
      BY <1>1, <2>0, <3>2, ToppleStep DEF p, d
    <3>4. InsertTurn(t, x).tree = Topple(t, x, d) /\ InsertTurn(t, x).at = x
      BY <2>1, <3>1 DEF r
    <3>5. QED
      BY <1>1, <3>3, <3>4, Nodes
  <2>4. QED
    BY <2>2, <2>3
<1>4. QED
  BY <1>2, <1>3

(* After the loop the top is painted black.                                *)
LEMMA InsertEndStep ==
    ASSUME NEW t \in Tree, NEW sub, NEW bh, NEW x, TooRed(t, sub, bh, x),
           InsertOver(t, x)
    PROVE  /\ InsertEnd(t) \in Tree /\ SameLinks(t, InsertEnd(t))
           /\ \E nbh : Balanced(InsertEnd(t), sub, nbh)
<1> DEFINE e == t.pRoot
           r == InsertEnd(t)
           nbh == [bh EXCEPT ![e] = IF t.color[e] = "red" THEN @ + 1 ELSE @]
<1> HIDE DEF e, r, nbh
<1>1. Shape(t, sub) /\ Heights(bh) /\ t.color[Nil] = "black" /\ x \in sub[e]
  BY DEF TooRed, e
<1>2. e \in Elem /\ e \in Node /\ e \in sub[e]
  <2>1. e # Nil
    BY <1>1 DEF Shape, Subtrees
  <2>2. QED
    BY Zenon, <1>1, <2>1, TreeTypes, Nodes, ShapeFacts DEF e
<1>3. /\ r \in Tree /\ SameLinks(t, r)
      /\ \A m \in Node : r.color[m] = IF m = e THEN "black" ELSE t.color[m]
  BY Zenon, <1>2, PaintLinks DEF InsertEnd, Colour, e, r
<1>4. Shape(r, sub)
  <2>1. \A m \in Elem \ sub[e] : r.color[m] = "black"
    BY Zenon, <1>1, <1>3, Nodes DEF Shape, Outside, e
  <2>2. QED
    BY <1>1, <1>3, <2>1, PaintedShape DEF e
<1>5. /\ Heights(nbh) /\ nbh[e] = bh[e] + (IF t.color[e] = "red" THEN 1 ELSE 0)
      /\ \A m \in Node : m # e => nbh[m] = bh[m]
  <2>1. bh \in [Node -> Nat] /\ bh[Nil] = 0 /\ Nil # e /\ bh[e] \in Nat
    BY <1>1, <1>2, Nodes DEF Heights
  <2>2. QED
    BY <1>2, <2>1, Nodes DEF Heights, nbh
<1>6. ASSUME NEW m \in Elem PROVE Even(r, nbh, m)
  <2>1. Even(t, bh, m)
    BY DEF TooRed
  <2>2. ASSUME NEW s \in Side
        PROVE r.kid[s][m] = t.kid[s][m] /\ nbh[t.kid[s][m]] = bh[t.kid[s][m]]
    <3>1. t.kid[s][m] # e
      BY <1>1, <1>2, Nodes DEF Shape, UpLinks, e
    <3>2. QED
      BY Zenon, <1>3, <1>5, <3>1, TreeTypes, Nodes DEF SameLinks
  <2>3. ASSUME NEW s \in Side PROVE nbh[m] = nbh[r.kid[s][m]] + Weight(r, m)
    <3>1. bh[m] = bh[t.kid[s][m]] + Weight(t, m) /\ bh[t.kid[s][m]] \in Nat
      BY <1>1, <2>1, Weights DEF Even
    <3>2. m \in Node
      BY Nodes
    <3>3. CASE m = e
      <4>1. t.color[e] \in {"red", "black"}
        BY <1>2, TreeTypes DEF Colour
      <4>2. nbh[e] = bh[t.kid[s][e]] + 1 /\ Weight(r, e) = 1
        BY <1>2, <1>3, <1>5, <3>1, <3>3, <4>1 DEF Weight
      <4>3. QED
        BY <2>2, <3>3, <4>2
    <3>4. CASE m # e
      <4>1. nbh[m] = bh[m] /\ Weight(r, m) = Weight(t, m)
        BY <1>3, <1>5, <3>2, <3>4 DEF Weight
      <4>2. QED
        BY <2>2, <3>1, <4>1
    <3>5. QED
      BY <3>3, <3>4
  <2>4. QED
    BY <2>3 DEF Even
<1>7. ASSUME NEW m \in Elem, NEW s \in Side, RedPair(r, m, s) PROVE FALSE
  <2>1. m \in Node /\ t.kid[s][m] \in Node /\ r.kid[s][m] = t.kid[s][m]
    BY Zenon, <1>3, Nodes, TreeTypes DEF SameLinks
  <2>2. m # e /\ RedPair(t, m, s)
    BY <1>3, <1>7, <2>1 DEF RedPair
  <2>3. t.kid[s][m] = x
    BY <2>2 DEF TooRed
  <2>4. x # Nil
    BY <2>2, <2>3, <1>1 DEF RedPair
  <2>5. t.up[x] = m
    BY <1>1, <2>3, <2>4 DEF Shape, UpLinks
  <2>6. x # e
    BY <1>1, <1>2, <2>5, Nodes DEF Shape, UpLinks, e
  <2>7. QED
    BY <2>2, <2>5, <2>6 DEF InsertOver, RedPair, e
<1>8. r.color[Nil] = "black" /\ r.color[r.pRoot] = "black"
  BY Zenon, <1>1, <1>2, <1>3, Nodes DEF SameLinks, e
<1>9. Balanced(r, sub, nbh)
  BY <1>4, <1>5, <1>6, <1>7, <1>8 DEF Balanced
<1>10. QED
  BY <1>3, <1>9 DEF r

-----------------------------------------------------------------------------
(* Induction over a tree, and the recursive functions on it.               *)

(* A subtree is finite, and smaller than that of its top.                  *)
LEMMA Sizes ==
    ASSUME NEW t \in Tree, NEW sub, Shape(t, sub)
    PROVE  /\ \A m \in Node : IsFiniteSet(sub[m]) /\ Cardinality(sub[m]) \in Nat
           /\ \A m \in Elem, s \in Side :
                 Cardinality(sub[t.kid[s][m]]) < Cardinality(sub[m])
<1>1. ASSUME NEW m \in Node PROVE IsFiniteSet(sub[m]) /\ Cardinality(sub[m]) \in Nat
  <2>1. IsFiniteSet(sub[m])
    BY FS_EmptySet, Nodes DEF Shape, Subtrees
  <2>2. QED
    BY <2>1, FS_CardinalityType
<1>2. ASSUME NEW m \in Elem, NEW s \in Side
      PROVE  Cardinality(sub[t.kid[s][m]]) < Cardinality(sub[m])
  <2>1. /\ sub[t.kid[s][m]] \subseteq sub[m] /\ m \notin sub[t.kid[s][m]] /\ m \in sub[m]
    BY ShapeFacts
  <2>2. t.kid[s][m] \in Node /\ m \in Node
    BY Zenon, TreeTypes, Nodes
  <2>3. sub[t.kid[s][m]] \in SUBSET sub[m] /\ IsFiniteSet(sub[m])
    BY <1>1, <2>1, <2>2
  <2>4. /\ Cardinality(sub[t.kid[s][m]]) <= Cardinality(sub[m])
        /\ Cardinality(sub[m]) = Cardinality(sub[t.kid[s][m]]) => sub[m] = sub[t.kid[s][m]]
    BY <2>3, FS_Subset
  <2>5. Cardinality(sub[t.kid[s][m]]) \in Nat /\ Cardinality(sub[m]) \in Nat
    BY <1>1, <2>2
  <2>6. Cardinality(sub[t.kid[s][m]]) # Cardinality(sub[m])
    BY <2>1, <2>4
  <2> DEFINE i == Cardinality(sub[t.kid[s][m]])
             j == Cardinality(sub[m])
  <2> HIDE DEF i, j
  <2>7. QED
    BY <2>4, <2>5, <2>6 DEF i, j
<1>3. QED
  BY <1>1, <1>2

(* What is true of Nil, and of a node when it is of its children, is true  *)
(* of every node.                                                          *)
LEMMA TreeInduction ==
    ASSUME NEW t \in Tree, NEW sub, Shape(t, sub), NEW T, Nil \in T,
           \A m \in Elem : (\A s \in Side : t.kid[s][m] \in T) => m \in T
    PROVE  \A m \in Node : m \in T
<1> DEFINE rank(m) == Cardinality(sub[m])
           P == {n \in Nat : \A m \in Node : rank(m) < n => m \in T}
<1>1. /\ \A m \in Node : rank(m) \in Nat
      /\ \A m \in Elem, s \in Side : rank(t.kid[s][m]) < rank(m)
  BY Sizes
<1> HIDE DEF rank
<1>2. 0 \in P
  BY <1>1
<1>3. ASSUME NEW n \in Nat, n \in P PROVE n + 1 \in P
  <2>1. SUFFICES ASSUME NEW m \in Node, rank(m) < n + 1 PROVE m \in T
    OBVIOUS
  <2>2. CASE m = Nil
    BY <2>2
  <2>3. CASE m # Nil
    <3>1. m \in Elem
      BY <2>3, Nodes
    <3>2. ASSUME NEW s \in Side PROVE t.kid[s][m] \in T
      <4>1. t.kid[s][m] \in Node
        BY <3>1, TreeTypes, Nodes
      <4>2. rank(t.kid[s][m]) < n
        BY <1>1, <2>1, <3>1, <4>1
      <4>3. QED
        BY <1>3, <4>1, <4>2
    <3>3. QED
      BY <3>1, <3>2
  <2>4. QED
    BY <2>2, <2>3
<1> HIDE DEF P
<1>4. \A n \in Nat : n \in P
  BY <1>2, <1>3, NaturalsIn
<1>5. ASSUME NEW m \in Node PROVE m \in T
  <2>1. rank(m) \in Nat /\ rank(m) + 1 \in Nat /\ rank(m) < rank(m) + 1
    BY <1>1
  <2>2. rank(m) + 1 \in P
    BY <1>4, <2>1
  <2>3. QED
    BY <2>1, <2>2 DEF P
<1>6. QED
  BY Zenon, <1>5

(* What is below a node that is below another is below that one.           *)
LEMMA Nested ==
    ASSUME NEW t \in Tree, NEW sub, Shape(t, sub)
    PROVE  \A m \in Node : \A k \in sub[m] : sub[k] \subseteq sub[m]
<1> DEFINE T == {m \in Node : \A k \in sub[m] : sub[k] \subseteq sub[m]}
<1>1. Nil \in T
  BY Nodes DEF Shape, Subtrees
<1>2. ASSUME NEW m \in Elem, \A s \in Side : t.kid[s][m] \in T PROVE m \in T
  <2>1. ASSUME NEW k \in sub[m] PROVE sub[k] \subseteq sub[m]
    <3>1. k \in Elem
      BY ShapeFacts, Nodes
    <3>2. CASE k = m
      BY <3>2
    <3>3. CASE k # m
      <4>1. PICK s \in Side : k \in sub[t.kid[s][m]]
        BY <3>1, <3>3 DEF Shape, Subtrees
      <4>2. sub[k] \subseteq sub[t.kid[s][m]]
        BY <1>2, <4>1
      <4>3. QED
        BY <4>2, ShapeFacts
    <3>4. QED
      BY <3>2, <3>3
  <2>2. QED
    BY <2>1, Nodes
<1> HIDE DEF T
<1>3. \A m \in Node : m \in T
  BY Zenon, <1>1, <1>2, TreeInduction
<1>4. QED
  BY <1>3 DEF T

(* The elements below a node, as the function Below computes them.         *)
LEMMA BelowIs ==
    ASSUME NEW t \in Tree, NEW sub, Shape(t, sub)
    PROVE  /\ \A n \in Node : Below(t, n) = sub[n]
           /\ Elements(t) = sub[t.pRoot]
<1> DEFINE Is(B) == B = [m \in Node |->
                            IF m = Nil THEN {}
                                       ELSE {m} \union B[t.kid["left"][m]]
                                                \union B[t.kid["right"][m]]]
           C == CHOOSE B : Is(B)
<1>1. Is(sub)
  <2>1. sub \in [Node -> SUBSET Elem] /\ sub[Nil] = {}
    BY DEF Shape, Subtrees
  <2>2. ASSUME NEW m \in Node, m # Nil
        PROVE  sub[m] = {m} \union sub[t.kid["left"][m]] \union sub[t.kid["right"][m]]
    <3>1. m \in Elem
      BY <2>2, Nodes
    <3>2. /\ sub[m] \subseteq Elem /\ sub[t.kid["left"][m]] \subseteq Elem
          /\ sub[t.kid["right"][m]] \subseteq Elem
      BY <2>1, TreeTypes DEF Side
    <3>3. \A k \in Elem : k \in sub[m] <=>
             k = m \/ k \in sub[t.kid["left"][m]] \/ k \in sub[t.kid["right"][m]]
      BY <3>1 DEF Shape, Subtrees, Side
    <3>4. QED
      BY <3>1, <3>2, <3>3
  <2>3. QED
    BY <2>1, <2>2
<1>2. Is(C)
  BY Zenon, <1>1
<1> DEFINE T == {m \in Node : C[m] = sub[m]}
<1>3. \A m \in Node : C[m] = IF m = Nil THEN {}
                             ELSE {m} \union C[t.kid["left"][m]] \union C[t.kid["right"][m]]
  BY Zenon, <1>2
<1>4. \A m \in Node : sub[m] = IF m = Nil THEN {}
                             ELSE {m} \union sub[t.kid["left"][m]] \union sub[t.kid["right"][m]]
  BY Zenon, <1>1
<1> HIDE DEF C, Is
<1>5. Nil \in T
  BY Zenon, <1>3, <1>4, Nodes
<1>6. ASSUME NEW m \in Elem, \A s \in Side : t.kid[s][m] \in T PROVE m \in T
  <2>1. C[t.kid["left"][m]] = sub[t.kid["left"][m]] /\ C[t.kid["right"][m]] = sub[t.kid["right"][m]]
    BY <1>6 DEF Side
  <2>2. m \in Node /\ m # Nil
    BY Nodes
  <2>3. C[m] = sub[m]
    <3>1. C[m] = {m} \union C[t.kid["left"][m]] \union C[t.kid["right"][m]]
      BY Zenon, <1>3, <2>2
    <3>2. sub[m] = {m} \union sub[t.kid["left"][m]] \union sub[t.kid["right"][m]]
      BY Zenon, <1>4, <2>2
    <3>3. QED
      BY <2>1, <3>1, <3>2, Zenon
  <2>4. QED
    BY <2>2, <2>3
<1> HIDE DEF T
<1>7. \A m \in Node : m \in T
  BY Zenon, <1>5, <1>6, TreeInduction
<1>8. ASSUME NEW n \in Node PROVE Below(t, n) = sub[n]
  <2>1. Below(t, n) = C[n]
    BY DEF Below, C, Is
  <2>2. QED
    BY <1>7, <2>1 DEF T
<1>9. QED
  BY <1>8, TreeTypes DEF Elements

(* f is defined by recursion along step until stop.                        *)
Recurs(f, X, stop, val, step) ==
    f = [x \in X |-> IF x \in stop THEN val[x] ELSE f[step[x]]]

(* A definition by recursion along steps that lower a bounded rank         *)
(* describes something.                                                    *)
LEMMA RecursionExists ==
    ASSUME NEW X, NEW stop, NEW val, NEW step, NEW rank, NEW N \in Nat,
           \A x \in X : step[x] \in X,
           \A x \in X : rank[x] \in Nat /\ rank[x] <= N,
           \A x \in X : x \notin stop => rank[step[x]] < rank[x]
    PROVE  \E f : Recurs(f, X, stop, val, step)
<1> DEFINE Eq(f, x) == f[x] = IF x \in stop THEN val[x] ELSE f[step[x]]
           P == {n \in Nat : \E f : \A x \in X : rank[x] < n => Eq(f, x)}
<1>1. 0 \in P
  <2>1. \A f : \A x \in X : rank[x] < 0 => Eq(f, x)
    OBVIOUS
  <2>2. QED
    BY <2>1
<1>2. ASSUME NEW n \in Nat, n \in P PROVE n + 1 \in P
  <2>1. PICK f : \A x \in X : rank[x] < n => Eq(f, x)
    BY <1>2
  <2> DEFINE h == [x \in X |-> IF x \in stop THEN val[x] ELSE f[step[x]]]
  <2>2. ASSUME NEW x \in X, rank[x] < n + 1 PROVE Eq(h, x)
    <3>1. CASE x \in stop
      BY <3>1
    <3>2. CASE x \notin stop
      <4>1. step[x] \in X /\ rank[step[x]] < n
        BY <2>2, <3>2
      <4>2. Eq(f, step[x])
        BY <2>1, <4>1
      <4>3. h[step[x]] = f[step[x]]
        BY <4>1, <4>2
      <4>4. h[x] = f[step[x]]
        BY <3>2
      <4> HIDE DEF h
      <4>5. QED
        BY <3>2, <4>3, <4>4
    <3>3. QED
      BY <3>1, <3>2
  <2> HIDE DEF h, Eq
  <2>3. QED
    BY <2>2
<1> HIDE DEF P
<1>3. \A n \in Nat : n \in P
  BY <1>1, <1>2, NaturalsIn
<1>4. N + 1 \in P
  BY <1>3
<1>5. PICK f : \A x \in X : rank[x] < N + 1 => Eq(f, x)
  BY <1>4 DEF P
<1>6. \A x \in X : Eq(f, x)
  BY <1>5
<1> DEFINE h == [x \in X |-> f[x]]
<1>7. h = [x \in X |-> IF x \in stop THEN val[x] ELSE h[step[x]]]
  <2>1. ASSUME NEW x \in X PROVE h[x] = IF x \in stop THEN val[x] ELSE h[step[x]]
    <3>1. h[x] = f[x] /\ step[x] \in X /\ h[step[x]] = f[step[x]]
      OBVIOUS
    <3> HIDE DEF h
    <3>2. QED
      BY <1>6, <3>1
  <2>2. h = [x \in X |-> h[x]]
    OBVIOUS
  <2> HIDE DEF h
  <2>3. QED
    BY <2>1, <2>2
<1> HIDE DEF h
<1>8. Recurs(h, X, stop, val, step)
  BY <1>7 DEF Recurs
<1>9. QED
  BY <1>8

(* The size of a subtree is bounded.                                       *)
LEMMA SizesBounded ==
    ASSUME NEW t \in Tree, NEW sub, Shape(t, sub)
    PROVE  \E N \in Nat : \A m \in Node : Cardinality(sub[m]) <= N
<1> DEFINE N == Cardinality(sub[t.pRoot]) + 1
<1>1. N \in Nat /\ Cardinality(sub[t.pRoot]) <= N
  BY Sizes, TreeTypes
<1>2. ASSUME NEW m \in Node PROVE Cardinality(sub[m]) <= N
  <2>1. CASE m = Nil
    <3>1. Cardinality(sub[m]) = 0
      BY Zenon, <2>1, FS_EmptySet DEF Shape, Subtrees
    <3> HIDE DEF N
    <3>2. QED
      BY <1>1, <3>1
  <2>2. CASE m \in sub[t.pRoot]
    <3>1. sub[m] \in SUBSET sub[t.pRoot] /\ IsFiniteSet(sub[t.pRoot])
      BY <2>2, Nested, Sizes, TreeTypes
    <3>2. Cardinality(sub[m]) <= Cardinality(sub[t.pRoot])
      BY <3>1, FS_Subset
    <3>3. Cardinality(sub[m]) \in Nat /\ Cardinality(sub[t.pRoot]) \in Nat
      BY Sizes, TreeTypes
    <3>4. QED
      BY <3>2, <3>3
  <2>3. CASE m # Nil /\ m \notin sub[t.pRoot]
    <3>1. m \in Elem /\ \A s \in Side : t.kid[s][m] = Nil
      BY <2>3, Nodes DEF Shape, Outside
    <3>2. sub[m] = {m}
      <4>1. sub[m] \subseteq Elem /\ sub[Nil] = {}
        BY Nodes, ShapeFacts DEF Shape, Subtrees
      <4>2. \A k \in Elem : k \in sub[m] <=> k = m \/ \E s \in Side : k \in sub[t.kid[s][m]]
        BY <3>1 DEF Shape, Subtrees
      <4>3. QED
        BY <3>1, <4>1, <4>2
    <3>3. Cardinality(sub[m]) = 1
      BY <3>2, FS_Singleton
    <3>4. Cardinality(sub[t.pRoot]) \in Nat
      BY Sizes, TreeTypes
    <3>5. QED
      BY <3>3, <3>4
  <2>4. QED
    BY <2>1, <2>2, <2>3
<1> HIDE DEF N
<1>3. QED
  BY <1>1, <1>2

(* What is not below a node is left of all that is, or right of it.        *)
LEMMA Convex ==
    ASSUME NEW t \in Tree, NEW sub, Shape(t, sub)
    PROVE  \A x \in Node : \A n \in sub[x] : \A m \in sub[x] \ sub[n] :
              \E d \in Side : \A q \in sub[n] : Before(d, m, q)
<1> DEFINE T == {x \in Node : \A n \in sub[x] : \A m \in sub[x] \ sub[n] :
                                 \E d \in Side : \A q \in sub[n] : Before(d, m, q)}
<1>1. Nil \in T
  BY Nodes DEF Shape, Subtrees
<1>2. ASSUME NEW x \in Elem, \A s \in Side : t.kid[s][x] \in T PROVE x \in T
  <2>1. ASSUME NEW n \in sub[x], NEW m \in sub[x] \ sub[n]
        PROVE  \E d \in Side : \A q \in sub[n] : Before(d, m, q)
    <3>1. n \in Elem /\ m \in Elem /\ n # x
      BY Zenon, ShapeFacts, Nodes
    <3>2. PICK s \in Side : n \in sub[t.kid[s][x]]
      BY <3>1 DEF Shape, Subtrees
    <3>3. t.kid[s][x] \in Node /\ x \in Node /\ m \in Node
      BY Zenon, <3>1, TreeTypes, Nodes
    <3>4. sub[n] \subseteq sub[t.kid[s][x]] /\ sub[n] \subseteq Elem
      BY Zenon, <3>1, <3>2, <3>3, Nested, ShapeFacts, Nodes
    <3>5. \A q \in sub[n] : Before(s, q, x)
      BY <3>4 DEF Shape, Sided
    <3>6. CASE m = x
      <4>1. Other(s) \in Side /\ Other(Other(s)) = s
        BY Sides
      <4>2. \A q \in sub[n] : Before(Other(s), x, q)
        BY Zenon, <3>3, <3>4, <3>5, <4>1, Sorting, Nodes
      <4>3. QED
        BY <3>6, <4>1, <4>2
    <3>7. CASE m \in sub[t.kid[s][x]]
      BY <1>2, <3>2, <3>7
    <3>8. CASE m \in sub[t.kid[Other(s)][x]]
      <4>1. Other(s) \in Side /\ Other(Other(s)) = s
        BY Sides
      <4>2. Before(Other(s), m, x)
        BY <3>8, <4>1 DEF Shape, Sided
      <4>3. \A q \in sub[n] : Before(Other(s), x, q)
        BY Zenon, <3>3, <3>4, <3>5, <4>1, Sorting, Nodes
      <4>4. \A q \in sub[n] : Before(Other(s), m, q)
        BY Zenon, <3>3, <3>4, <4>1, <4>2, <4>3, Sorting, Nodes
      <4>5. QED
        BY <4>1, <4>4
    <3>9. QED
      BY <3>1, <3>6, <3>7, <3>8, Sides DEF Shape, Subtrees
  <2>2. QED
    BY <2>1, Nodes
<1> HIDE DEF T
<1>3. \A m \in Node : m \in T
  BY <1>1, <1>2, TreeInduction
<1>4. QED
  BY <1>3 DEF T

(* The leftmost node is the least one.                                     *)
LEMMA LeftmostIs ==
    ASSUME NEW t \in Tree, NEW sub, Shape(t, sub), NEW n \in Elem
    PROVE  /\ Leftmost(t, n) \in sub[n] /\ t.kid["left"][Leftmost(t, n)] = Nil
           /\ \A m \in sub[n] : m = Leftmost(t, n) \/ Leftmost(t, n) < m
<1> DEFINE X == Node
           stop == {m \in Node : t.kid["left"][m] = Nil}
           val == [m \in Node |-> m]
           step == [m \in Node |-> t.kid["left"][m]]
           rank == [m \in Node |-> Cardinality(sub[m])]
           Is(L) == L = [m \in Node |-> IF t.kid["left"][m] = Nil THEN m
                                                                 ELSE L[t.kid["left"][m]]]
           C == CHOOSE L : Is(L)
<1>0. "left" \in Side /\ t.kid["left"][Nil] = Nil
  BY DEF Side, Shape, UpLinks
<1>1. \E L : Is(L)
  <2>1. PICK N \in Nat : \A m \in Node : Cardinality(sub[m]) <= N
    BY SizesBounded
  <2>2. \A x \in X : step[x] \in X
    BY <1>0, TreeTypes
  <2>3. \A x \in X : rank[x] \in Nat /\ rank[x] <= N
    BY <2>1, Sizes
  <2>4. \A x \in X : x \notin stop => rank[step[x]] < rank[x]
    BY Zenon, <1>0, TreeTypes, Sizes, Nodes
  <2> HIDE DEF X, stop, val, step, rank
  <2>5. PICK f : Recurs(f, X, stop, val, step)
    BY Zenon, <2>2, <2>3, <2>4, RecursionExists
  <2>6. Is(f)
    <3>1. \A x \in Node : (IF x \in stop THEN val[x] ELSE f[step[x]])
                          = IF t.kid["left"][x] = Nil THEN x ELSE f[t.kid["left"][x]]
      BY DEF stop, val, step
    <3>2. QED
      BY <2>5, <3>1 DEF X, Recurs
  <2>7. QED
    BY <2>6
<1>2. Is(C)
  BY Zenon, <1>1
<1>3. \A m \in Node : C[m] = IF t.kid["left"][m] = Nil THEN m ELSE C[t.kid["left"][m]]
  BY Zenon, <1>2
<1> DEFINE T == {Nil} \union
                {x \in Elem : /\ C[x] \in sub[x] /\ t.kid["left"][C[x]] = Nil
                              /\ \A m \in sub[x] : m = C[x] \/ C[x] < m}
<1> HIDE DEF C, Is
<1>4. Nil \in T
  OBVIOUS
<1>5. ASSUME NEW x \in Elem, \A s \in Side : t.kid[s][x] \in T PROVE x \in T
  <2> DEFINE l == t.kid["left"][x]
  <2>0. x \in Node /\ x \in sub[x] /\ l \in Node
    BY Zenon, <1>0, Nodes, ShapeFacts, TreeTypes
  <2>1. CASE l = Nil
    <3>1. C[x] = x
      BY <1>3, <2>0, <2>1
    <3>2. ASSUME NEW m \in sub[x], m # x PROVE x < m
      <4>1. m \in Elem
        BY ShapeFacts, Nodes
      <4>2. m \in sub[t.kid["right"][x]]
        <5>1. \E s \in Side : m \in sub[t.kid[s][x]]
          BY <3>2, <4>1 DEF Shape, Subtrees
        <5>2. sub[Nil] = {}
          BY DEF Shape, Subtrees
        <5>3. QED
          BY <2>1, <5>1, <5>2 DEF Side
      <4>3. Before("right", m, x)
        BY <4>2 DEF Shape, Sided, Side
      <4>4. QED
        BY <4>3 DEF Before
    <3>3. QED
      BY <2>0, <2>1, <3>1, <3>2
  <2>2. CASE l # Nil
    <3>1. C[x] = C[l]
      BY <1>3, <2>0, <2>2
    <3>2. /\ l \in Elem /\ C[l] \in sub[l] /\ t.kid["left"][C[l]] = Nil
          /\ \A m \in sub[l] : m = C[l] \/ C[l] < m
      BY <1>0, <1>5, <2>2
    <3>3. sub[l] \subseteq sub[x] /\ sub[x] \subseteq Elem /\ C[l] \in Node
      BY ZenonT(30), <1>0, <2>0, <3>2, ShapeFacts, Nodes
    <3>4. Before("left", C[l], x)
      BY <1>0, <3>2 DEF Shape, Sided
    <3>5. ASSUME NEW m \in sub[x], m \notin sub[l] PROVE C[l] < m
      <4>1. m \in Elem /\ m \in Node
        BY <3>3, Nodes
      <4>2. m = x \/ m \in sub[t.kid["right"][x]]
        BY <3>5, <4>1 DEF Shape, Subtrees, Side
      <4>3. m \in sub[t.kid["right"][x]] => Before("right", m, x)
        BY DEF Shape, Sided, Side
      <4>4. x \in Nat /\ m \in Nat /\ C[l] \in Nat
        BY Zenon, <2>0, <3>3, <4>1, Nodes
      <4> HIDE DEF l
      <4>5. QED
        BY <3>4, <4>2, <4>3, <4>4 DEF Before
    <3> HIDE DEF l
    <3>6. QED
      BY <3>1, <3>2, <3>3, <3>5
  <2>3. QED
    BY <2>1, <2>2
<1> HIDE DEF T
<1>6. \A m \in Node : m \in T
  BY <1>4, <1>5, TreeInduction
<1>7. Leftmost(t, n) = C[n]
  BY DEF Leftmost, C, Is
<1>8. n \in Node /\ n # Nil
  BY Nodes
<1>9. QED
  BY <1>6, <1>7, <1>8 DEF T

(* The side of the node n a key k is on.                                   *)
Way(k, n) == IF k < n THEN "left" ELSE "right"

(* A key is on the side of a node the search takes.                        *)
LEMMA WayIs ==
    \A k, n \in Node : Way(k, n) \in Side /\ (k # n => Before(Way(k, n), k, n))
<1>1. TAKE k, n \in Node
<1>2. k \in Nat /\ n \in Nat
  BY Nodes
<1>3. QED
  BY <1>2 DEF Way, Side, Before

(* The way down to k has a step for every node that is not its end.        *)
LEMMA DescendExists ==
    ASSUME NEW t \in Tree, NEW sub, Shape(t, sub), NEW k \in Elem
    PROVE  \E D : D = [w \in Node \X Node |->
                          IF w[1] \in {Nil, k}
                          THEN [node |-> w[1], last |-> IF w[1] = Nil THEN w[2] ELSE w[1]]
                          ELSE D[<<t.kid[IF k < w[1] THEN "left" ELSE "right"][w[1]], w[1]>>]]
<1> DEFINE X == Node \X Node
           stop == {w \in X : w[1] \in {Nil, k}}
           val == [w \in X |->
                     [node |-> w[1], last |-> IF w[1] = Nil THEN w[2] ELSE w[1]]]
           next(w) == <<t.kid[IF k < w[1] THEN "left" ELSE "right"][w[1]], w[1]>>
           step == [w \in X |-> next(w)]
           rank == [w \in X |-> Cardinality(sub[w[1]])]
<1>1. PICK N \in Nat : \A m \in Node : Cardinality(sub[m]) <= N
  BY SizesBounded
<1>2. \A w \in X : next(w) \in X
  BY TreeTypes DEF Side
<1>3. \A w \in X : rank[w] \in Nat /\ rank[w] <= N
  BY <1>1, Sizes
<1>4. ASSUME NEW w \in X, w \notin stop PROVE rank[step[w]] < rank[w]
  <2>1. w[1] \in Elem /\ w[1] \in Node
    BY Zenon, <1>4, Nodes
  <2>2. step[w] = next(w) /\ step[w] \in X
    BY <1>2
  <2>3. step[w][1] = t.kid[IF k < w[1] THEN "left" ELSE "right"][w[1]]
    BY <2>2
  <2>4. \A z \in X : rank[z] = Cardinality(sub[z[1]])
    OBVIOUS
  <2> HIDE DEF X, step, rank, next, stop
  <2>5. QED
    BY <1>4, <2>1, <2>2, <2>3, <2>4, Sizes DEF Side
<1>5. \A w \in X : step[w] \in X
  BY <1>2
<1> HIDE DEF X, stop, val, step, rank
<1>6. PICK f : Recurs(f, X, stop, val, step)
  BY Zenon, <1>3, <1>4, <1>5, RecursionExists
<1>7. ASSUME NEW w \in X
      PROVE  (IF w \in stop THEN val[w] ELSE f[step[w]])
             = IF w[1] \in {Nil, k}
               THEN [node |-> w[1], last |-> IF w[1] = Nil THEN w[2] ELSE w[1]]
               ELSE f[next(w)]
  BY DEF stop, val, step
<1>8. f = [w \in X |-> IF w[1] \in {Nil, k}
                       THEN [node |-> w[1], last |-> IF w[1] = Nil THEN w[2] ELSE w[1]]
                       ELSE f[next(w)]]
  BY <1>6, <1>7, Zenon DEF Recurs
<1>9. QED
  BY <1>8 DEF X

(* The way down to a key ends at the key, or under the element next to it. *)
LEMMA DescendIs ==
    ASSUME NEW t \in Tree, NEW sub, Shape(t, sub), NEW k \in Elem,
           NEW x \in Node, NEW y \in Node
    PROVE  LET w == Descend(t, k, x, y)
           IN  /\ k \in sub[x] => w.node = k /\ w.last = k
               /\ k \notin sub[x] => w.node = Nil
               /\ x = Nil => w.last = y
               /\ k \notin sub[x] /\ x # Nil =>
                     /\ w.last \in sub[x] /\ t.kid[Way(k, w.last)][w.last] = Nil
                     /\ \A m \in sub[x] : m # w.last => (m < k <=> m < w.last)
<1> DEFINE Is(D) == D = [w \in Node \X Node |->
                          IF w[1] \in {Nil, k}
                          THEN [node |-> w[1], last |-> IF w[1] = Nil THEN w[2] ELSE w[1]]
                          ELSE D[<<t.kid[IF k < w[1] THEN "left" ELSE "right"][w[1]], w[1]>>]]
           C == CHOOSE D : Is(D)
           Good(a, b, w) ==
              /\ k \in sub[a] => w.node = k /\ w.last = k
              /\ k \notin sub[a] => w.node = Nil
              /\ a = Nil => w.last = b
              /\ k \notin sub[a] /\ a # Nil =>
                     /\ w.last \in sub[a] /\ t.kid[Way(k, w.last)][w.last] = Nil
                     /\ \A m \in sub[a] : m # w.last => (m < k <=> m < w.last)
           T == {a \in Node : \A b \in Node : Good(a, b, C[<<a, b>>])}
<1>1. Is(C)
  BY Zenon, DescendExists
<1>2. \A a, b \in Node :
         C[<<a, b>>] = IF a \in {Nil, k}
                       THEN [node |-> a, last |-> IF a = Nil THEN b ELSE a]
                       ELSE C[<<t.kid[Way(k, a)][a], a>>]
  BY Zenon, <1>1 DEF Way
<1> HIDE DEF C, Is
<1>3. sub[Nil] = {} /\ k \in Node /\ k # Nil
  BY Nodes DEF Shape, Subtrees
<1>4. Nil \in T
  <2>1. ASSUME NEW b \in Node PROVE Good(Nil, b, C[<<Nil, b>>])
    <3>1. C[<<Nil, b>>] = [node |-> Nil, last |-> b]
      BY Zenon, <1>2, Nodes
    <3>2. QED
      BY <1>3, <3>1
  <2>2. QED
    BY <2>1, Nodes
<1>5. ASSUME NEW a \in Elem, \A s \in Side : t.kid[s][a] \in T PROVE a \in T
  <2>0. a \in Node /\ a # Nil /\ a \in sub[a] /\ sub[a] \subseteq Elem
    BY Zenon, Nodes, ShapeFacts
  <2>1. ASSUME NEW b \in Node PROVE Good(a, b, C[<<a, b>>])
    <3>1. CASE a = k
      <4>1. C[<<a, b>>] = [node |-> a, last |-> a]
        BY Zenon, <1>2, <2>0, <3>1
      <4>2. QED
        BY <2>0, <3>1, <4>1
    <3>2. CASE a # k
      <4> DEFINE s == Way(k, a)
                 c == t.kid[s][a]
                 w == C[<<c, a>>]
      <4>1. s \in Side /\ c \in Node /\ Before(s, k, a) /\ C[<<a, b>>] = w
        BY Zenon, <1>2, <1>3, <2>0, <3>2, WayIs, TreeTypes
      <4>2. Good(c, a, w)
        BY <1>5, <2>0, <4>1
      <4>3. /\ sub[c] \subseteq sub[a] /\ (\A m \in sub[c] : Before(s, m, a))
            /\ \A m \in sub[t.kid[Other(s)][a]] : Before(Other(s), m, a)
        BY <4>1, ShapeFacts, Sides DEF Shape, Sided
      <4>4. \A m \in sub[a] : m = a \/ m \in sub[c] \/ m \in sub[t.kid[Other(s)][a]]
        BY <2>0, <4>1, Sides DEF Shape, Subtrees
      <4>5. k \in sub[a] <=> k \in sub[c]
        <5>1. k \notin sub[t.kid[Other(s)][a]]
          BY <1>3, <2>0, <4>1, <4>3, Sorting
        <5>2. QED
          BY <3>2, <4>3, <4>4, <5>1
      <4>6. \A m \in sub[a] : m \notin sub[c] => ~ Before(s, m, a) /\ ~ Before(s, m, k)
        <5>1. ASSUME NEW m \in sub[a], m \notin sub[c]
              PROVE  ~ Before(s, m, a) /\ ~ Before(s, m, k)
          <6>1. m \in Node
            BY Zenon, <2>0, Nodes
          <6>2. m = a \/ Before(Other(s), m, a)
            BY <4>3, <4>4, <5>1
          <6>3. ~ Before(s, m, a)
            BY <2>0, <4>1, <6>1, <6>2, Sorting
          <6>4. QED
            BY <1>3, <2>0, <4>1, <6>1, <6>3, Sorting
        <5>2. QED
          BY <5>1
      <4>7. CASE k \in sub[a]
        <5>1. w.node = k /\ w.last = k
          BY <4>2, <4>5, <4>7
        <5> HIDE DEF w, c, s
        <5>2. QED
          BY <2>0, <4>1, <4>7, <5>1
      <4>8. CASE k \notin sub[a] /\ c = Nil
        <5>1. w.node = Nil /\ w.last = a
          BY <1>3, <4>2, <4>8
        <5>2. t.kid[Way(k, a)][a] = Nil
          BY <4>8
        <5>3. \A m \in sub[a] : m # a => (m < k <=> m < a)
          <6>1. ASSUME NEW m \in sub[a], m # a PROVE m < k <=> m < a
            <7>1. ~ Before(s, m, a) /\ ~ Before(s, m, k)
              BY <1>3, <4>6, <4>8, <6>1
            <7>2. m \in Nat /\ a \in Nat /\ k \in Nat
              BY Zenon, <1>3, <2>0, Nodes
            <7>3. m # k /\ m # a
              BY <4>8, <6>1
            <7>4. QED
              BY <3>2, <7>1, <7>2, <7>3 DEF Before, Way
          <6>2. QED
            BY <6>1
        <5> HIDE DEF w, c, s
        <5>4. QED
          BY <2>0, <4>1, <4>8, <5>1, <5>2, <5>3
      <4>9. CASE k \notin sub[a] /\ c # Nil
        <5>1. /\ w.node = Nil /\ w.last \in sub[c] /\ t.kid[Way(k, w.last)][w.last] = Nil
              /\ \A m \in sub[c] : m # w.last => (m < k <=> m < w.last)
          BY <4>2, <4>5, <4>9
        <5>2. w.last \in sub[a] /\ Before(s, w.last, a)
          BY <4>3, <5>1
        <5>3. \A m \in sub[a] : m # w.last => (m < k <=> m < w.last)
          <6>1. ASSUME NEW m \in sub[a], m # w.last, m \notin sub[c]
                PROVE  m < k <=> m < w.last
            <7>1. ~ Before(s, m, a) /\ ~ Before(s, m, k)
              BY <4>6, <6>1
            <7>2. m \in Nat /\ a \in Nat /\ k \in Nat /\ w.last \in Nat
              BY Zenon, <1>3, <2>0, <5>2, Nodes
            <7>3. m # k
              BY <4>9
            <7> HIDE DEF w, c
            <7>4. QED
              BY <3>2, <5>2, <7>1, <7>2, <7>3 DEF Before, Way
          <6> HIDE DEF w, c, s
          <6>2. QED
            BY <5>1, <6>1
        <5> HIDE DEF w, c, s
        <5>4. QED
          BY <2>0, <4>1, <4>9, <5>1, <5>2, <5>3
      <4>10. QED
        BY <4>7, <4>8, <4>9
    <3>3. QED
      BY <3>1, <3>2
  <2>2. QED
    BY <2>0, <2>1
<1> HIDE DEF T, Good
<1>6. \A m \in Node : m \in T
  BY <1>4, <1>5, TreeInduction
<1>7. Descend(t, k, x, y) = C[<<x, y>>]
  BY DEF Descend, C, Is
<1>8. Good(x, y, Descend(t, k, x, y))
  BY <1>6, <1>7 DEF T
<1>9. QED
  BY <1>8 DEF Good

(* Up from n while it is a right child: the next greater element above n.  *)
LEMMA ClimbExists ==
    ASSUME NEW t \in Tree, NEW sub, Shape(t, sub)
    PROVE  \E C : C = [w \in Node \X Node |->
                          IF w[2] # Nil /\ w[1] = t.kid["right"][w[2]]
                          THEN C[<<w[2], t.up[w[2]]>>]
                          ELSE w[2]]
<1> DEFINE X == Node \X Node
           goes(w) == w[2] # Nil /\ w[1] = t.kid["right"][w[2]]
           stop == {w \in X : ~ goes(w)}
           val == [w \in X |-> w[2]]
           next(w) == <<w[2], t.up[w[2]]>>
           step == [w \in X |-> next(w)]
<1>1. PICK N \in Nat : \A m \in Node : Cardinality(sub[m]) <= N
  BY SizesBounded
<1> DEFINE rank == [w \in X |-> N - Cardinality(sub[w[1]])]
<1>2. \A w \in X : next(w) \in X
  BY TreeTypes
<1>3. \A w \in X : rank[w] \in Nat /\ rank[w] <= N
  <2>1. \A m \in Node : Cardinality(sub[m]) \in Nat
    BY Sizes
  <2>2. \A m \in Node : N - Cardinality(sub[m]) \in Nat /\ N - Cardinality(sub[m]) <= N
    BY <1>1, <2>1
  <2>3. QED
    BY <2>2
<1>4. ASSUME NEW w \in X, w \notin stop PROVE rank[step[w]] < rank[w]
  <2>1. w[2] \in Elem /\ w[1] = t.kid["right"][w[2]] /\ w[1] \in Node /\ w[2] \in Node
    BY Zenon, <1>4, Nodes
  <2>2. step[w] \in X /\ step[w][1] = w[2]
    BY <1>2
  <2>3. rank[step[w]] = N - Cardinality(sub[w[2]]) /\ rank[w] = N - Cardinality(sub[w[1]])
    BY <2>2
  <2>4. /\ Cardinality(sub[w[1]]) < Cardinality(sub[w[2]])
        /\ Cardinality(sub[w[1]]) \in Nat /\ Cardinality(sub[w[2]]) \in Nat
    BY <2>1, Sizes DEF Side
  <2> HIDE DEF X, step, rank, next, stop
  <2>5. QED
    BY <2>3, <2>4
<1>5. \A w \in X : step[w] \in X
  BY <1>2
<1> HIDE DEF X, stop, val, step, rank
<1>6. PICK f : Recurs(f, X, stop, val, step)
  BY Zenon, <1>3, <1>4, <1>5, RecursionExists
<1>7. ASSUME NEW w \in X
      PROVE  (IF w \in stop THEN val[w] ELSE f[step[w]])
             = IF w[2] # Nil /\ w[1] = t.kid["right"][w[2]] THEN f[next(w)] ELSE w[2]
  BY DEF stop, val, step
<1>8. f = [w \in X |-> IF w[2] # Nil /\ w[1] = t.kid["right"][w[2]]
                       THEN f[next(w)] ELSE w[2]]
  BY <1>6, <1>7, Zenon DEF Recurs
<1>9. QED
  BY <1>8 DEF X

(* The climb ends at the least element above what is below n, or at Nil.   *)
LEMMA ClimbIs ==
    ASSUME NEW t \in Tree, NEW sub, Shape(t, sub), NEW n \in sub[t.pRoot]
    PROVE  LET z == ClimbFrom(t, n, t.up[n])
           IN  /\ z = Nil \/ z \in sub[t.pRoot] \ sub[n]
               /\ z = Nil => \A m \in sub[t.pRoot] \ sub[n] : m < n
               /\ z # Nil => /\ n < z
                             /\ \A m \in sub[t.pRoot] \ sub[n] : m < n \/ z <= m
<1> DEFINE Is(C) == C = [w \in Node \X Node |->
                          IF w[2] # Nil /\ w[1] = t.kid["right"][w[2]]
                          THEN C[<<w[2], t.up[w[2]]>>]
                          ELSE w[2]]
           C == CHOOSE f : Is(f)
           all == sub[t.pRoot]
           Good(a, z) == /\ z = Nil \/ z \in all \ sub[a]
                         /\ z = Nil => \A m \in all \ sub[a] : m < a
                         /\ z # Nil => /\ a < z
                                       /\ \A m \in all \ sub[a] : m < a \/ z <= m
<1>1. Is(C)
  BY Zenon, ClimbExists
<1>2. \A a, b \in Node :
         C[<<a, b>>] = IF b # Nil /\ a = t.kid["right"][b] THEN C[<<b, t.up[b]>>] ELSE b
  <2> TAKE a, b \in Node
  <2>1. <<a, b>> \in Node \X Node /\ <<a, b>>[1] = a /\ <<a, b>>[2] = b
    OBVIOUS
  <2>2. \A w \in Node \X Node :
           C[w] = IF w[2] # Nil /\ w[1] = t.kid["right"][w[2]] THEN C[<<w[2], t.up[w[2]]>>]
                  ELSE w[2]
    BY Zenon, <1>1
  <2>3. C[<<a, b>>] = IF <<a, b>>[2] # Nil /\ <<a, b>>[1] = t.kid["right"][<<a, b>>[2]]
                      THEN C[<<<<a, b>>[2], t.up[<<a, b>>[2]]>>] ELSE <<a, b>>[2]
    BY <2>1, <2>2, Zenon
  <2>4. QED
    BY <2>1, <2>3
<1> HIDE DEF C, Is
<1>3. all \subseteq Elem /\ \A m \in all : m \in Node /\ m \in Nat /\ m # Nil
  BY TreeTypes, Nodes, ShapeFacts
<1>4. PICK N \in Nat : \A m \in Node : Cardinality(sub[m]) <= N
  BY SizesBounded
<1> DEFINE rank(m) == N - Cardinality(sub[m])
           P == {i \in Nat : \A a \in all : rank(a) < i => Good(a, C[<<a, t.up[a]>>])}
<1>5. /\ \A m \in Node : rank(m) \in Nat
      /\ \A m \in Elem, s \in Side : t.kid[s][m] \in Node => rank(m) < rank(t.kid[s][m])
  <2>1. /\ \A m \in Node : Cardinality(sub[m]) \in Nat
        /\ \A m \in Elem, s \in Side : Cardinality(sub[t.kid[s][m]]) < Cardinality(sub[m])
    BY Sizes
  <2>2. \A m \in Elem : m \in Node
    BY Nodes
  <2>3. QED
    BY <1>4, <2>1, <2>2
<1> HIDE DEF rank
<1>6. 0 \in P
  BY <1>3, <1>5
<1>7. ASSUME NEW i \in Nat, i \in P PROVE i + 1 \in P
  <2>1. SUFFICES ASSUME NEW a \in all, rank(a) < i + 1 PROVE Good(a, C[<<a, t.up[a]>>])
    OBVIOUS
  <2>2. CASE a = t.pRoot
    <3>1. C[<<a, t.up[a]>>] = Nil
      <4>1. t.up[a] = Nil /\ a \in Node
        BY <1>3, <2>2 DEF Shape, UpLinks
      <4>2. C[<<a, Nil>>] = Nil
        BY Zenon, <1>2, <4>1, Nodes
      <4>3. QED
        BY <4>1, <4>2
    <3>2. QED
      BY <2>2, <3>1
  <2>3. CASE a # t.pRoot
    <3> DEFINE b == t.up[a]
               d == SideOf(t, a)
               z == C[<<a, b>>]
    <3>1. b \in Elem /\ b \in all /\ d \in Side /\ t.kid[d][b] = a /\ t.kid[Other(d)][b] # a
      BY <2>3, OnItsSide
    <3>2. a \in Node /\ b \in Node /\ b # Nil /\ a # Nil /\ t.up[b] \in Node /\ a \in Nat /\ b \in Nat
      BY <1>3, <3>1, Nodes, TreeTypes
    <3>3. sub[a] \subseteq sub[b] /\ b \notin sub[a] /\ a \in sub[a] /\ a \in sub[b] /\ b \in sub[b]
      BY <3>1, <1>3, ShapeFacts
    <3>4. \A m \in sub[b] \ sub[a] : m = b \/ m \in sub[t.kid[Other(d)][b]]
      <4>1. \A m \in sub[b] : m \in Elem
        BY <3>2, ShapeFacts
      <4>2. \A m \in Elem : m \in sub[b] <=> m = b \/ \E s \in Side : m \in sub[t.kid[s][b]]
        BY <3>1 DEF Shape, Subtrees
      <4>3. \A s \in Side : s = d \/ s = Other(d)
        BY <3>1, Sides
      <4>4. QED
        BY Zenon, <3>1, <4>1, <4>2, <4>3
    <3>5. \A m \in all \ sub[b] : (\A q \in sub[b] : m < q) \/ (\A q \in sub[b] : q < m)
      <4>1. \A m \in all \ sub[b] : \E s \in Side : \A q \in sub[b] : Before(s, m, q)
        BY <3>1, Convex, TreeTypes
      <4>2. QED
        BY <4>1 DEF Before
    <3>6. sub[b] \subseteq all
      BY <3>1, Nested, TreeTypes
    <3>7. CASE d = "right"
      <4>1. z = C[<<b, t.up[b]>>]
        BY <1>2, <3>1, <3>2, <3>7
      <4>2. Good(b, z)
        <5>1. rank(b) \in Nat /\ rank(a) \in Nat /\ rank(b) < rank(a)
          BY <1>5, <3>1, <3>2
        <5>2. rank(b) < i
          BY <2>1, <5>1
        <5>3. QED
          BY <1>7, <3>1, <4>1, <5>2
      <4>3. \A m \in sub[b] \ sub[a] : m < a
        <5>1. Before("right", a, b)
          BY <3>1, <3>3, <3>7 DEF Shape, Sided
        <5>2. \A m \in sub[t.kid[Other(d)][b]] : Before("left", m, b)
          BY <3>1, <3>7 DEF Shape, Sided, Other, Side
        <5>3. \A m \in sub[b] : m \in Nat
          BY <3>6, <1>3
        <5> HIDE DEF d, b
        <5>4. QED
          BY <3>2, <3>4, <5>1, <5>2, <5>3 DEF Before
      <4>4. b < a
        BY <3>3, <3>1, <4>3
      <4>5. \A m \in all \ sub[b] : m < b => m < a
        BY <1>3, <3>2, <4>4
      <4>6. z = Nil => \A m \in all \ sub[a] : m < a
        BY <4>2, <4>3, <4>5
      <4>7. z # Nil => a < z /\ z \in all \ sub[a]
        BY <1>3, <3>2, <3>3, <3>5, <4>2
      <4>8. z # Nil => \A m \in all \ sub[a] : m < a \/ z <= m
        BY <4>2, <4>3, <4>5
      <4> HIDE DEF z, b, d
      <4>9. QED
        BY <4>6, <4>7, <4>8 DEF z, b
    <3>8. CASE d = "left"
      <4>1. z = b
        BY Zenon, <1>2, <3>1, <3>2, <3>8 DEF Other
      <4>2. a < b
        BY <3>1, <3>3, <3>8 DEF Shape, Sided, Before
      <4>3. \A m \in sub[t.kid[Other(d)][b]] : b < m
        BY <3>1, <3>8 DEF Shape, Sided, Other, Side, Before
      <4>4. ASSUME NEW m \in all \ sub[a] PROVE m < a \/ b <= m
        <5>1. m \in Nat
          BY <1>3
        <5>2. CASE m \in sub[b]
          <6> HIDE DEF b, d
          <6>1. QED
            BY <3>2, <3>4, <4>3, <4>4, <5>1, <5>2
        <5>3. CASE m \notin sub[b]
          <6> HIDE DEF b, d
          <6>1. QED
            BY <3>2, <3>3, <3>5, <4>4, <5>1, <5>3
        <5>4. QED
          BY <5>2, <5>3
      <4> HIDE DEF z, b, d
      <4>5. Good(a, z)
        BY <3>1, <3>2, <3>3, <4>1, <4>2, <4>4
      <4>6. QED
        BY <4>5 DEF z, b
    <3>9. QED
      BY <3>1, <3>7, <3>8 DEF Side
  <2>4. QED
    BY <2>2, <2>3
<1> HIDE DEF P
<1>8. \A i \in Nat : i \in P
  BY <1>6, <1>7, NaturalsIn
<1> HIDE DEF Good
<1>9. Good(n, C[<<n, t.up[n]>>])
  <2>1. n \in Node /\ rank(n) \in Nat /\ rank(n) + 1 \in Nat /\ rank(n) < rank(n) + 1
    BY <1>3, <1>5
  <2>2. rank(n) + 1 \in P
    BY <1>8, <2>1
  <2>3. QED
    BY <2>1, <2>2 DEF P
<1>10. ClimbFrom(t, n, t.up[n]) = C[<<n, t.up[n]>>]
  BY DEF ClimbFrom, C, Is
<1>11. Good(n, ClimbFrom(t, n, t.up[n]))
  BY <1>9, <1>10
<1>12. QED
  BY <1>11 DEF Good

(* The successor of a node is the least element above it.                  *)
LEMMA SuccessorIs ==
    ASSUME NEW t \in Tree, NEW sub, Shape(t, sub), NEW n \in sub[t.pRoot]
    PROVE  LET z == Successor(t, n)
           IN  /\ z = Nil \/ z \in sub[t.pRoot]
               /\ z = Nil => \A m \in sub[t.pRoot] : m <= n
               /\ z # Nil => n < z /\ \A m \in sub[t.pRoot] : m <= n \/ z <= m
               /\ t.kid["right"][n] # Nil =>
                     /\ z \in sub[t.kid["right"][n]] /\ t.kid["left"][z] = Nil
                     /\ \A m \in sub[t.kid["right"][n]] : m = z \/ z < m
<1> DEFINE all == sub[t.pRoot]
           r == t.kid["right"][n]
           z == Successor(t, n)
<1>1. all \subseteq Elem /\ \A m \in all : m \in Node /\ m \in Nat /\ m # Nil
  BY TreeTypes, Nodes, ShapeFacts
<1>2. n \in Elem /\ n \in Node /\ n \in Nat /\ "right" \in Side /\ "left" \in Side
  BY <1>1 DEF Side
<1>3. /\ sub[n] \subseteq all /\ n \in sub[n] /\ sub[r] \subseteq sub[n]
      /\ \A m \in sub[n] : m = n \/ m \in sub[r] \/ m \in sub[t.kid["left"][n]]
  <2>1. sub[n] \subseteq all
    BY Nested, TreeTypes
  <2>2. n \in sub[n] /\ sub[r] \subseteq sub[n]
    BY <1>2, ShapeFacts
  <2>3. QED
    BY <1>1, <1>2, <2>1, <2>2 DEF Shape, Subtrees, Side
<1>4. (\A m \in sub[r] : n < m) /\ \A m \in sub[t.kid["left"][n]] : m < n
  BY <1>2 DEF Shape, Sided, Before
<1>5. CASE r = Nil
  <2>1. z = ClimbFrom(t, n, t.up[n])
    BY <1>5 DEF Successor
  <2>2. /\ z = Nil \/ z \in all \ sub[n]
        /\ z = Nil => \A m \in all \ sub[n] : m < n
        /\ z # Nil => /\ n < z
                      /\ \A m \in all \ sub[n] : m < n \/ z <= m
    BY <2>1, ClimbIs
  <2>3. \A m \in sub[n] : m <= n
    <3>1. sub[r] = {}
      BY <1>5 DEF Shape, Subtrees
    <3>2. QED
      BY <1>1, <1>2, <1>3, <1>4, <3>1
  <2>4. \A m \in all : m < n => m <= n
    BY <1>1, <1>2
  <2> HIDE DEF z
  <2>5. QED
    BY <1>5, <2>2, <2>3, <2>4 DEF z
<1>6. CASE r # Nil
  <2>1. z = Leftmost(t, r) /\ r \in Elem
    BY Zenon, <1>2, <1>6, TreeTypes, Nodes DEF Successor
  <2>2. z \in sub[r] /\ t.kid["left"][z] = Nil /\ \A m \in sub[r] : m = z \/ z < m
    BY <2>1, LeftmostIs
  <2>3. z \in all /\ n < z /\ z \in Nat /\ z \in sub[n] /\ z # Nil
    BY <1>1, <1>3, <1>4, <2>2
  <2>4. ASSUME NEW m \in all PROVE m <= n \/ z <= m
    <3>1. m \in Nat
      BY <1>1
    <3>2. CASE m \in sub[n]
      <4> HIDE DEF z, r
      <4>1. QED
        BY <1>2, <1>3, <1>4, <2>2, <2>3, <3>1, <3>2
    <3>3. CASE m \notin sub[n]
      <4>1. PICK d \in Side : \A q \in sub[n] : Before(d, m, q)
        BY <3>3, Convex, TreeTypes
      <4> HIDE DEF z
      <4>2. QED
        BY <1>2, <1>3, <2>3, <3>1, <4>1 DEF Before
    <3>4. QED
      BY <3>2, <3>3
  <2> HIDE DEF z
  <2>5. QED
    BY <1>6, <2>2, <2>3, <2>4 DEF z
<1>7. QED
  BY <1>5, <1>6

(* What an insertion writes before its loop.                               *)
LEMMA AttachEffect ==
    ASSUME NEW t \in Tree, NEW e \in Elem, NEW y \in Node, y # e
    PROVE  LET r == Attach(t, e, y)
           IN  /\ r \in Tree /\ r.count = t.count
               /\ r.pRoot = IF y = Nil THEN e ELSE t.pRoot
               /\ \A s \in Side, m \in Node :
                     r.kid[s][m] = IF m = e THEN Nil
                                   ELSE IF y # Nil /\ m = y /\ s = Way(e, y) THEN e
                                   ELSE t.kid[s][m]
               /\ \A m \in Node : /\ r.up[m] = IF m = e THEN y ELSE t.up[m]
                                  /\ r.color[m] = IF m = e THEN "red" ELSE t.color[m]
<1> DEFINE linked == IF y = Nil THEN [t EXCEPT !.pRoot = e]
                     ELSE [t EXCEPT !.kid[Way(e, y)][y] = e]
           r == Attach(t, e, y)
<1>1. e \in Node /\ e # Nil /\ Nil \in Node /\ Way(e, y) \in Side /\ "red" \in Colour
  BY Zenon, Nodes, WayIs DEF Colour
<1>2. /\ linked \in Tree /\ linked.count = t.count /\ linked.up = t.up /\ linked.color = t.color
      /\ linked.pRoot = IF y = Nil THEN e ELSE t.pRoot
      /\ \A s \in Side, m \in Node :
            linked.kid[s][m] = IF y # Nil /\ m = y /\ s = Way(e, y) THEN e ELSE t.kid[s][m]
  <2>1. CASE y = Nil
    BY <1>1, <2>1 DEF Tree
  <2>2. CASE y # Nil
    BY Zenon, <1>1, <2>2 DEF Tree
  <2>3. QED
    BY <2>1, <2>2
<1>3. r = [linked EXCEPT !.up[e] = y, !.kid["left"][e] = Nil, !.kid["right"][e] = Nil,
                         !.color[e] = "red"]
  BY DEF Attach, Way
<1> HIDE DEF linked, r
<1>4. /\ r \in Tree /\ r.count = linked.count /\ r.pRoot = linked.pRoot
      /\ \A s \in Side, m \in Node : r.kid[s][m] = IF m = e THEN Nil ELSE linked.kid[s][m]
      /\ \A m \in Node : /\ r.up[m] = IF m = e THEN y ELSE linked.up[m]
                         /\ r.color[m] = IF m = e THEN "red" ELSE linked.color[m]
  BY Zenon, <1>1, <1>2, <1>3 DEF Tree, Side
<1>5. QED
  BY <1>2, <1>4 DEF r

(* An element outside the tree is below no other.                          *)
LEMMA OutsideAlone ==
    ASSUME NEW t \in Tree, NEW sub, Shape(t, sub), NEW e \in Elem, e \notin sub[t.pRoot]
    PROVE  /\ sub[e] = {e} /\ e # t.pRoot
           /\ \A k \in Elem : k # e => e \notin sub[k]
           /\ \A k \in Elem, s \in Side : t.kid[s][k] # e
<1>0. sub[Nil] = {} /\ e # Nil
  BY Nodes DEF Shape, Subtrees
<1>1. ASSUME NEW k \in Elem, k \notin sub[t.pRoot] PROVE sub[k] = {k}
  <2>1. \A s \in Side : t.kid[s][k] = Nil
    BY <1>1 DEF Shape, Outside
  <2>2. sub[k] \subseteq Elem
    BY Zenon, ShapeFacts, Nodes
  <2>3. \A m \in Elem : m \in sub[k] <=> m = k \/ \E s \in Side : m \in sub[t.kid[s][k]]
    BY DEF Shape, Subtrees
  <2>4. QED
    BY <1>0, <2>1, <2>2, <2>3
<1>2. \A k \in sub[t.pRoot] : sub[k] \subseteq sub[t.pRoot]
  BY Nested, TreeTypes
<1>3. \A k \in Elem : k # e => e \notin sub[k]
  BY <1>1, <1>2
<1>4. e # t.pRoot
  BY ShapeFacts, <1>0
<1>5. \A k \in Elem, s \in Side : t.kid[s][k] # e
  <2>1. t.up[e] = Nil
    BY DEF Shape, Outside
  <2>2. \A k \in Elem, s \in Side : t.kid[s][k] = e => t.up[e] = k
    BY <1>0 DEF Shape, UpLinks
  <2>3. QED
    BY <2>1, <2>2, Nodes
<1>6. QED
  BY <1>1, <1>3, <1>4, <1>5

(* A new element under the end of the way to its key.                      *)
LEMMA AttachStep ==
    ASSUME NEW t \in Tree, NEW sub, NEW bh, Balanced(t, sub, bh),
           NEW e \in Elem, e \notin sub[t.pRoot], NEW y, y = Find(t, e).last
    PROVE  LET r == Attach(t, e, y)
           IN  /\ r \in Tree /\ r.count = t.count
               /\ \E new, nbh : /\ TooRed(r, new, nbh, e)
                                /\ new[r.pRoot] = sub[t.pRoot] \union {e}
<1> DEFINE d == Way(e, y)
           all == sub[t.pRoot]
           r == Attach(t, e, y)
           new == [m \in Node |-> sub[m] \union (IF y \in sub[m] THEN {e} ELSE {})]
           nbh == [m \in Node |-> IF m = e THEN 0 ELSE bh[m]]
<1>1. Shape(t, sub) /\ Heights(bh) /\ t.color[Nil] = "black" /\ t.color[t.pRoot] = "black"
  BY DEF Balanced
<1>2. sub[Nil] = {} /\ e \in Node /\ e # Nil /\ t.pRoot \in Node /\ Nil \in Node /\ Nil \notin Elem
  BY <1>1, Nodes, TreeTypes DEF Shape, Subtrees
<1>3. /\ t.pRoot = Nil => y = Nil
      /\ t.pRoot # Nil => /\ y \in all /\ t.kid[d][y] = Nil
                          /\ \A m \in all : m # y => (m < e <=> m < y)
  BY <1>1, <1>2, DescendIs DEF Find
<1>4. /\ all \subseteq Elem /\ y \in Node /\ y # e /\ (t.pRoot = Nil <=> y = Nil)
      /\ \A m \in Node : sub[m] \subseteq Elem
  BY ZenonT(30), <1>1, <1>2, <1>3, ShapeFacts, Nodes
<1>5. d \in Side /\ Before(d, e, y)
  BY <1>2, <1>4, WayIs
<1>6. /\ r \in Tree /\ r.count = t.count
      /\ r.pRoot = IF y = Nil THEN e ELSE t.pRoot
      /\ \A s \in Side, m \in Node :
            r.kid[s][m] = IF m = e THEN Nil
                          ELSE IF y # Nil /\ m = y /\ s = d THEN e
                          ELSE t.kid[s][m]
      /\ \A m \in Node : /\ r.up[m] = IF m = e THEN y ELSE t.up[m]
                         /\ r.color[m] = IF m = e THEN "red" ELSE t.color[m]
  BY <1>4, AttachEffect
<1>7. /\ sub[e] = {e} /\ e # t.pRoot
      /\ \A k \in Elem : k # e => e \notin sub[k]
      /\ \A k \in Elem, s \in Side : t.kid[s][k] # e
  BY <1>1, OutsideAlone
<1>8. /\ \A s \in Side : t.kid[s][e] = Nil
      /\ t.up[e] = Nil
  BY <1>1 DEF Shape, Outside
<1>9. /\ new[e] = {e} /\ new[Nil] = {} /\ new \in [Node -> SUBSET Elem]
      /\ \A m \in Node, k \in Elem : k \in new[m] <=> k \in sub[m] \/ (k = e /\ y \in sub[m])
  <2>1. new[e] = {e} /\ new[Nil] = {}
    BY <1>2, <1>4, <1>7
  <2>2. \A m \in Node : new[m] \in SUBSET Elem
    BY <1>4
  <2>3. QED
    BY <2>1, <2>2
<1>10. /\ nbh[e] = 0 /\ \A m \in Node : m # e => nbh[m] = bh[m]
       /\ Heights(nbh)
  BY <1>1, <1>2 DEF Heights
<1> HIDE DEF r, d, nbh
<1>11. \A k \in Elem : k \in Node /\ k # Nil
  BY Nodes
<1>12. Subtrees(r, new)
  <2>1. ASSUME NEW k \in Elem PROVE IsFiniteSet(new[k])
    <3>1. IsFiniteSet(sub[k])
      BY <1>1 DEF Shape, Subtrees
    <3>2. IsFiniteSet(sub[k] \union {e})
      BY <3>1, FS_AddElement
    <3>3. new[k] = sub[k] \/ new[k] = sub[k] \union {e}
      BY Zenon, <1>11
    <3> HIDE DEF new
    <3>4. QED
      BY <3>1, <3>2, <3>3
  <2> HIDE DEF new
  <2>2. ASSUME NEW k \in Elem, NEW m \in Elem
        PROVE  m \in new[k] <=> m = k \/ \E s \in Side : m \in new[r.kid[s][k]]
    <3>0. /\ m \in new[k] <=> m \in sub[k] \/ (m = e /\ y \in sub[k])
          /\ m \in sub[k] <=> m = k \/ \E s \in Side : m \in sub[t.kid[s][k]]
          /\ \A s \in Side : t.kid[s][k] \in Node
          /\ \A s \in Side : m \in new[t.kid[s][k]] <=>
                m \in sub[t.kid[s][k]] \/ (m = e /\ y \in sub[t.kid[s][k]])
      BY <1>1, <1>9, <1>11, TreeTypes DEF Shape, Subtrees
    <3>1. CASE k = e
      <4>1. \A s \in Side : new[r.kid[s][k]] = {}
        BY <1>2, <1>6, <1>9, <3>1
      <4>2. QED
        BY <1>9, <3>1, <4>1
    <3>2. CASE k = y
      <4>1. y \in sub[y] /\ (\A s \in Side : y \notin sub[t.kid[s][y]]) /\ t.kid[d][y] = Nil
        BY <1>1, <1>2, <1>3, <1>4, <1>11, <3>2, ShapeFacts
      <4>2. r.kid[d][y] = e /\ r.kid[Other(d)][y] = t.kid[Other(d)][y]
        BY <1>4, <1>5, <1>6, <1>11, <3>2, Sides
      <4>3. Other(d) \in Side /\ \A s \in Side : s = d \/ s = Other(d)
        BY <1>5, Sides
      <4>4. m \in new[r.kid[d][y]] <=> m = e
        BY <1>9, <4>2
      <4>5. m \in new[r.kid[Other(d)][y]] <=> m \in sub[t.kid[Other(d)][y]]
        BY <3>0, <3>2, <4>1, <4>2, <4>3
      <4>6. m \in new[y] <=> m = y \/ m \in sub[t.kid[Other(d)][y]] \/ m = e
        BY <1>2, <1>5, <3>0, <3>2, <4>1, <4>3
      <4>7. QED
        BY <1>5, <3>2, <4>3, <4>4, <4>5, <4>6
    <3>3. CASE k \notin {e, y}
      <4>1. \A s \in Side : r.kid[s][k] = t.kid[s][k]
        BY <1>6, <1>11, <3>3
      <4>2. y \in sub[k] <=> \E s \in Side : y \in sub[t.kid[s][k]]
        <5>1. CASE y = Nil
          BY <1>4, <1>11, <3>0, <5>1
        <5>2. CASE y # Nil
          <6>1. y \in Elem
            BY <1>4, <5>2, Nodes
          <6>2. QED
            BY <1>1, <3>3, <6>1 DEF Shape, Subtrees
        <5>3. QED
          BY <5>1, <5>2
      <4>3. QED
        BY <3>0, <4>1, <4>2
    <3>4. QED
      BY <3>1, <3>2, <3>3
  <2>3. QED
    BY <1>9, <2>1, <2>2 DEF Subtrees
<1> HIDE DEF new
<1>13. Sided(r, new)
  <2>1. ASSUME NEW k \in Elem, NEW s \in Side, NEW m \in new[r.kid[s][k]]
        PROVE  Before(s, m, k)
    <3>1. CASE k = e
      BY <1>2, <1>6, <1>9, <2>1, <3>1
    <3>2. CASE k = y /\ s = d
      BY <1>5, <1>6, <1>9, <1>11, <1>4, <2>1, <3>2
    <3>3. CASE k # e /\ ~ (k = y /\ s = d)
      <4>1. r.kid[s][k] = t.kid[s][k] /\ t.kid[s][k] \in Node
        BY <1>6, <1>11, <3>3, TreeTypes
      <4>2. CASE m \in sub[t.kid[s][k]]
        BY <1>1, <4>2 DEF Shape, Sided
      <4>3. CASE m = e /\ y \in sub[t.kid[s][k]]
        <5>1. Before(s, y, k) /\ y \in Elem
          BY <1>1, <1>4, <4>1, <4>3 DEF Shape, Sided
        <5>2. k \in all
          BY <1>1, <1>2, <4>3 DEF Shape, Outside
        <5>3. k # y /\ t.pRoot # Nil
          BY <1>2, <1>11, <5>1, <5>2, Sorting
        <5>4. k < e <=> k < y
          BY <1>3, <5>2, <5>3
        <5>5. k \in Nat /\ e \in Nat /\ y \in Nat
          BY <1>2, <1>4, <1>11, Nodes
        <5>6. QED
          BY <3>3, <4>3, <5>1, <5>3, <5>4, <5>5 DEF Before
      <4>4. m \in Elem
        BY <1>9, <4>1, <2>1
      <4>5. QED
        BY <1>9, <2>1, <4>1, <4>2, <4>3, <4>4
    <3>4. QED
      BY <3>1, <3>2, <3>3
  <2>2. QED
    BY <2>1 DEF Sided
<1>14. UpLinks(r)
  <2>1. ASSUME NEW k \in Elem, NEW s \in Side, r.kid[s][k] # Nil
        PROVE  r.up[r.kid[s][k]] = k
    <3>1. k # e
      BY <1>2, <1>6, <2>1
    <3>2. CASE k = y /\ s = d
      BY <1>2, <1>4, <1>6, <1>11, <3>2
    <3>3. CASE ~ (k = y /\ s = d)
      <4>1. r.kid[s][k] = t.kid[s][k] /\ t.kid[s][k] \in Node /\ t.kid[s][k] # e
        BY <1>6, <1>7, <1>11, <3>1, <3>3, TreeTypes
      <4>2. QED
        BY <1>1, <1>6, <2>1, <4>1 DEF Shape, UpLinks
    <3>4. QED
      BY <3>2, <3>3
  <2>2. r.pRoot # Nil => r.up[r.pRoot] = Nil
    BY <1>1, <1>2, <1>4, <1>6, <1>7 DEF Shape, UpLinks
  <2>3. r.kid["left"][Nil] = Nil
    BY <1>1, <1>2, <1>6 DEF Shape, UpLinks, Side
  <2>4. QED
    BY <2>1, <2>2, <2>3 DEF UpLinks
<1>15. new[r.pRoot] = all \union {e}
  <2>1. CASE y = Nil
    BY <1>2, <1>4, <1>6, <1>9, <2>1
  <2>2. CASE y # Nil
    <3>1. y \in all
      BY <1>3, <1>4, <2>2
    <3>2. QED
      BY <1>2, <1>6, <2>2, <3>1 DEF new
  <2>3. QED
    BY <2>1, <2>2
<1>16. Hangs(r, new)
  <2>1. ASSUME NEW k \in all \union {e}, k # r.pRoot
        PROVE  r.up[k] # Nil /\ \E s \in Side : r.kid[s][r.up[k]] = k
    <3>1. CASE k = e
      BY <1>2, <1>4, <1>5, <1>6, <2>1, <3>1
    <3>2. CASE k # e
      <4>1. k \in all /\ k \in Node /\ k # Nil /\ y # Nil /\ k # t.pRoot
        BY <1>2, <1>4, <1>6, <1>11, <2>1, <3>2
      <4>2. r.up[k] = t.up[k] /\ t.up[k] \in Elem /\ t.up[k] \in all
        BY <1>1, <1>6, <3>2, <4>1, OnItsSide
      <4>3. PICK s \in Side : t.kid[s][t.up[k]] = k
        BY <1>1, <4>1 DEF Shape, Hangs
      <4>4. t.up[k] # e /\ ~ (t.up[k] = y /\ s = d)
        BY <1>3, <4>1, <4>2, <4>3, <1>4
      <4>5. r.kid[s][t.up[k]] = k
        BY <1>6, <1>11, <4>2, <4>3, <4>4
      <4>6. QED
        BY <1>11, <4>2, <4>5
    <3>3. QED
      BY <3>1, <3>2
  <2>2. QED
    BY <1>15, <2>1 DEF Hangs
<1>17. Outside(r, new)
  <2>1. ASSUME NEW k \in Elem \ (all \union {e})
        PROVE  /\ \A s \in Side : r.kid[s][k] = Nil
               /\ r.up[k] = Nil /\ r.color[k] = "black"
    <3>1. k # e /\ k \in Node /\ ~ (y # Nil /\ k = y)
      BY <1>3, <1>4, <1>11
    <3>2. QED
      BY <1>1, <1>6, <2>1, <3>1 DEF Shape, Outside
  <2>2. QED
    BY <1>15, <2>1 DEF Outside
<1>18. ASSUME NEW m \in Elem PROVE Even(r, nbh, m)
  <2>1. Even(t, bh, m)
    BY DEF Balanced
  <2>2. CASE m = e
    <3>1. Weight(r, e) = 0 /\ nbh[Nil] = 0
      BY <1>2, <1>6, <1>10 DEF Weight, Heights
    <3>2. \A s \in Side : r.kid[s][e] = Nil
      BY <1>2, <1>6
    <3>3. QED
      BY <1>10, <2>2, <3>1, <3>2 DEF Even
  <2>3. CASE m # e
    <3>1. nbh[m] = bh[m] /\ Weight(r, m) = Weight(t, m)
      BY <1>6, <1>10, <1>11, <2>3 DEF Weight
    <3>2. ASSUME NEW s \in Side PROVE nbh[r.kid[s][m]] = bh[t.kid[s][m]]
      <4>1. CASE m = y /\ s = d
        <5>1. t.kid[s][m] = Nil /\ r.kid[s][m] = e
          BY <1>3, <1>4, <1>6, <1>11, <2>3, <4>1
        <5>2. bh[Nil] = 0
          BY <1>1 DEF Heights
        <5>3. QED
          BY <1>10, <5>1, <5>2
      <4>2. CASE ~ (m = y /\ s = d)
        <5>1. r.kid[s][m] = t.kid[s][m] /\ t.kid[s][m] \in Node /\ t.kid[s][m] # e
          BY <1>6, <1>7, <1>11, <2>3, <4>2, TreeTypes
        <5>2. QED
          BY <1>10, <5>1
      <4>3. QED
        BY <4>1, <4>2
    <3>3. QED
      BY <2>1, <3>1, <3>2 DEF Even
  <2>4. QED
    BY <2>2, <2>3
<1>19. ASSUME NEW m \in Elem, NEW s \in Side, RedPair(r, m, s) PROVE r.kid[s][m] = e
  <2>1. SUFFICES ASSUME r.kid[s][m] # e PROVE FALSE
    OBVIOUS
  <2>2. m # e
    BY <1>1, <1>2, <1>6, <1>19 DEF RedPair
  <2>3. r.kid[s][m] = t.kid[s][m] /\ t.kid[s][m] \in Node
    BY <1>6, <1>11, <2>1, <2>2, TreeTypes
  <2>4. RedPair(t, m, s)
    BY <1>6, <1>11, <1>19, <2>1, <2>2, <2>3 DEF RedPair
  <2>5. QED
    BY <2>4 DEF Balanced
<1>20. r.color[Nil] = "black" /\ (r.color[r.pRoot] = "red" => r.pRoot = e)
  BY <1>1, <1>2, <1>6
<1>21. e \in new[r.pRoot] /\ r.color[e] = "red"
  BY <1>2, <1>6, <1>15
<1>22. TooRed(r, new, nbh, e)
  BY <1>10, <1>12, <1>13, <1>14, <1>16, <1>17, <1>18, <1>19, <1>20, <1>21 DEF TooRed, Shape
<1>23. QED
  BY <1>6, <1>15, <1>22 DEF r

-----------------------------------------------------------------------------
(* Removal.                                                                *)

(* A rotation of n to the side d in q, which is t repainted: y comes up.   *)
Toppled(t, q, r, sub, n, y, d, o) ==
    /\ r \in Tree /\ r.color = q.color /\ r.count = t.count
    /\ n \in Elem /\ y \in Elem /\ y # n /\ y \in sub[t.pRoot]
    /\ r.pRoot = IF n = t.pRoot THEN y ELSE t.pRoot
    /\ r.kid[o][n] = t.kid[d][y] /\ r.kid[d][n] = t.kid[d][n]
    /\ r.kid[d][y] = n /\ r.kid[o][y] = t.kid[o][y]
    /\ r.up[n] = y /\ r.up[y] = t.up[n]
    /\ \A m \in Node : m \notin {n, y} /\ (m # t.kid[d][y] \/ m = Nil)
                        => r.up[m] = t.up[m]
    /\ \A m \in Elem, s \in Side :
          m \notin {n, y} => /\ t.kid[s][m] # y
                             /\ t.kid[s][m] = n => r.kid[s][m] = y
                             /\ t.kid[s][m] # n => r.kid[s][m] = t.kid[s][m]
    /\ \A bh, nbh : nbh[y] = bh[n] /\ (\A k \in Node : k \notin {n, y} => nbh[k] = bh[k])
          => \A m \in Elem : m \notin {n, y} /\ Even(q, bh, m) => Even(r, nbh, m)
    /\ \E new : /\ Shape(r, new) /\ new[r.pRoot] = sub[t.pRoot]
                /\ \A m \in Node : m \notin {n, y} => new[m] = sub[m]

(* What the other nodes see of it.                                         *)
LEMMA PaintedRotation ==
    ASSUME NEW t \in Tree, NEW sub, Shape(t, sub), NEW q \in Tree, SameLinks(t, q),
           \A m \in Elem \ sub[t.pRoot] : q.color[m] = "black",
           NEW d \in Side, NEW o, o = Other(d), NEW n \in sub[t.pRoot],
           NEW y, y = t.kid[o][n], y # Nil, NEW r, r = Rotate(q, n, d)
    PROVE  Toppled(t, q, r, sub, n, y, d, o)
<1>1. Shape(q, sub) /\ q.kid = t.kid /\ q.pRoot = t.pRoot /\ q.up = t.up /\ q.count = t.count
  BY PaintedShape DEF SameLinks
<1>2. n \in sub[q.pRoot] /\ y = q.kid[Other(d)][n] /\ q.kid[Other(d)][n] # Nil
  BY <1>1
<1>3. n \in Elem /\ y \in Elem /\ y # n /\ y \in sub[q.pRoot]
  BY <1>1, <1>2, RotateFits
<1>4. /\ r \in Tree /\ r.color = q.color /\ r.count = q.count
      /\ r.pRoot = IF n = q.pRoot THEN y ELSE q.pRoot
      /\ r.kid[o][n] = q.kid[d][y] /\ r.kid[d][n] = q.kid[d][n]
      /\ r.kid[d][y] = n /\ r.kid[o][y] = q.kid[o][y]
      /\ r.up[n] = y /\ r.up[y] = q.up[n]
      /\ \A m \in Node : m \notin {n, y} /\ (m # q.kid[d][y] \/ m = Nil)
                          => r.up[m] = q.up[m]
  <2>1. Rotated(q, r, n, y, d)
    BY <1>1, <1>2, RotateAt
  <2>2. QED
    BY <2>1 DEF Rotated
<1>5. \A m \in Elem, s \in Side :
         m \notin {n, y} => /\ q.kid[s][m] # y
                            /\ q.kid[s][m] = n => r.kid[s][m] = y
                            /\ q.kid[s][m] # n => r.kid[s][m] = q.kid[s][m]
  BY <1>1, <1>2, RotateElsewhere
<1>6. \A bh, nbh : nbh[y] = bh[n] /\ (\A k \in Node : k \notin {n, y} => nbh[k] = bh[k])
         => \A m \in Elem : m \notin {n, y} /\ Even(q, bh, m) => Even(r, nbh, m)
  <2> TAKE bh, nbh
  <2> HAVE nbh[y] = bh[n] /\ (\A k \in Node : k \notin {n, y} => nbh[k] = bh[k])
  <2> TAKE m \in Elem
  <2> HAVE m \notin {n, y} /\ Even(q, bh, m)
  <2>1. QED
    BY <1>1, <1>2, EvenElsewhere
<1>7. \E new : /\ Shape(r, new) /\ new[r.pRoot] = sub[t.pRoot]
               /\ \A m \in Node : m \notin {n, y} => new[m] = sub[m]
  <2> DEFINE new == Turned(q, sub, n, d)
  <2>1. Shape(r, new) /\ new[r.pRoot] = sub[q.pRoot]
    BY <1>1, <1>2, RotateShape
  <2>2. \A m \in Node : m \notin {n, y} => new[m] = sub[m]
    BY <1>2 DEF Turned
  <2> HIDE DEF new
  <2>3. QED
    BY <1>1, <2>1, <2>2
<1>8. /\ r \in Tree /\ r.color = q.color /\ r.count = t.count
      /\ n \in Elem /\ y \in Elem /\ y # n /\ y \in sub[t.pRoot]
      /\ r.pRoot = IF n = t.pRoot THEN y ELSE t.pRoot
  BY <1>1, <1>3, <1>4
<1>9. /\ r.kid[o][n] = t.kid[d][y] /\ r.kid[d][n] = t.kid[d][n]
      /\ r.kid[d][y] = n /\ r.kid[o][y] = t.kid[o][y]
      /\ r.up[n] = y /\ r.up[y] = t.up[n]
  BY <1>1, <1>4
<1>10. \A m \in Node : m \notin {n, y} /\ (m # t.kid[d][y] \/ m = Nil)
                          => r.up[m] = t.up[m]
  BY <1>1, <1>4
<1>11. \A m \in Elem, s \in Side :
         m \notin {n, y} => /\ t.kid[s][m] # y
                            /\ t.kid[s][m] = n => r.kid[s][m] = y
                            /\ t.kid[s][m] # n => r.kid[s][m] = t.kid[s][m]
  BY <1>1, <1>5
<1>12. QED
  BY <1>6, <1>7, <1>8, <1>9, <1>10, <1>11, Zenon DEF Toppled

(* While a removal is repaired at x, which may be the end of a branch: the *)
(* ways through x have one black node too few, unless x is the top; x may  *)
(* be red where a red node is not allowed.                                 *)
Short(t, bh, x) ==
    LET p == t.up[x]
        d == SideOf(t, x)
    IN  /\ t.kid[d][p] = x
        /\ bh[t.kid[Other(d)][p]] = bh[x] + 1
        /\ bh[p] = bh[x] + 1 + Weight(t, p)

(* What holds in the loop of a removal at x.                               *)
TooLight(t, sub, bh, x) ==
    /\ Shape(t, sub) /\ Heights(bh)
    /\ x \in sub[t.pRoot] \union {Nil}
    /\ x # t.pRoot => t.up[x] \in sub[t.pRoot] /\ Short(t, bh, x)
    /\ \A n \in Elem : x = t.pRoot \/ n # t.up[x] => Even(t, bh, n)
    /\ \A n \in Elem, d \in Side : RedPair(t, n, d) => t.kid[d][n] = x \/ n = x
    /\ t.color[Nil] = "black" /\ (t.color[t.pRoot] = "red" => t.pRoot = x)

(* Where the loop of the removal turns: x is black and has a sibling.      *)
LEMMA ShortNode ==
    ASSUME NEW t \in Tree, NEW sub, NEW bh, NEW x, TooLight(t, sub, bh, x),
           ~ DeleteOver(t, x)
    PROVE  LET p == t.up[x]
               d == SideOf(t, x)
               o == Other(d)
               s == t.kid[o][p]
           IN  /\ x \in Node /\ p \in Elem /\ p \in sub[t.pRoot] /\ d \in Side /\ o \in Side
               /\ t.kid[d][p] = x /\ x # p /\ s # p
               /\ s \in Elem /\ s # x /\ s \in sub[t.pRoot]
               /\ \A z \in Side : z = d \/ z = o
               /\ Other(o) = d /\ o # d
               /\ bh[x] \in Nat /\ bh[s] = bh[x] + 1 /\ bh[p] = bh[x] + 1 + Weight(t, p)
               /\ t.color[x] = "black" /\ x # t.pRoot
               /\ \A n \in Elem, z \in Side : ~ RedPair(t, n, z)
<1> DEFINE p == t.up[x]
           d == SideOf(t, x)
           o == Other(d)
           s == t.kid[o][p]
<1>1. Shape(t, sub) /\ Heights(bh) /\ x # t.pRoot /\ p \in sub[t.pRoot] /\ Short(t, bh, x)
  BY DEF TooLight, DeleteOver
<1>2. x \in Node /\ p \in Elem /\ p \in Node /\ sub[t.pRoot] \subseteq Elem
  <2>1. sub[t.pRoot] \subseteq Elem
    BY <1>1, ShapeFacts, TreeTypes
  <2>2. QED
    BY <1>1, <2>1, Nodes DEF TooLight
<1>3. d \in Side /\ o \in Side /\ Other(o) = d /\ o # d /\ \A z \in Side : z = d \/ z = o
  <2>1. d \in Side
    BY DEF SideOf, Side
  <2>2. QED
    BY <2>1, Sides
<1>4. t.color[x] = "black"
  BY <1>2, TreeTypes DEF DeleteOver, Colour
<1>5. bh[x] \in Nat /\ bh[s] = bh[x] + 1 /\ bh[p] = bh[x] + 1 + Weight(t, p) /\ t.kid[d][p] = x
  BY <1>1, <1>2 DEF Short, Heights
<1>6. s \in Elem
  <2>1. s \in Node
    BY <1>2, <1>3, TreeTypes
  <2>2. s # Nil
    <3>1. bh[Nil] = 0
      BY <1>1 DEF Heights
    <3> HIDE DEF s
    <3>2. QED
      BY <1>5, <3>1
  <2>3. QED
    BY Zenon, <2>1, <2>2, Nodes
<1>7. s # x
  <2> HIDE DEF s
  <2>1. QED
    BY <1>5
<1>8. x # p /\ s # p /\ s \in sub[t.pRoot]
  <2>1. s # Nil
    BY <1>6, Nodes
  <2>2. \A z \in Side : t.kid[z][p] # p /\ (t.kid[z][p] # Nil => t.kid[z][p] \in sub[t.pRoot])
    BY <1>1, <1>2, ShapeFacts
  <2>3. QED
    BY <1>3, <1>5, <2>1, <2>2
<1>9. \A n \in Elem, z \in Side : ~ RedPair(t, n, z)
  BY <1>4 DEF TooLight, RedPair
<1>10. QED
  BY <1>1, <1>2, <1>3, <1>4, <1>5, <1>6, <1>7, <1>8, <1>9

(* q is t with a painted u and then b painted v.                           *)
PaintedTwice(t, q, a, u, b, v) ==
    /\ q \in Tree /\ SameLinks(t, q)
    /\ \A m \in Node : q.color[m] = IF m = b THEN v ELSE IF m = a THEN u ELSE t.color[m]

(* Painting two nodes.                                                     *)
LEMMA PaintTwo ==
    ASSUME NEW t \in Tree, NEW a \in Node, NEW b \in Node, NEW u \in Colour, NEW v \in Colour
    PROVE  PaintedTwice(t, Paint(Paint(t, a, u), b, v), a, u, b, v)
<1>1. /\ Paint(t, a, u) \in Tree /\ SameLinks(t, Paint(t, a, u))
      /\ \A m \in Node : Paint(t, a, u).color[m] = IF m = a THEN u ELSE t.color[m]
  BY PaintLinks
<1> DEFINE w == Paint(t, a, u)
<1> HIDE DEF w
<1>2. /\ Paint(w, b, v) \in Tree /\ SameLinks(w, Paint(w, b, v))
      /\ \A m \in Node : Paint(w, b, v).color[m] = IF m = b THEN v ELSE w.color[m]
  BY <1>1, PaintLinks DEF w
<1>3. QED
  BY <1>1, <1>2 DEF SameLinks, PaintedTwice, w

(* A node that its parent has on one side only.                            *)
LEMMA SideIs ==
    ASSUME NEW t, NEW x, NEW d \in Side, t.kid[d][t.up[x]] = x, t.kid[Other(d)][t.up[x]] # x
    PROVE  SideOf(t, x) = d
BY DEF SideOf, Other, Side

(* A red sibling makes way for a black one.                                *)
LEMMA BlackSiblingStep ==
    ASSUME NEW t \in Tree, NEW sub, NEW bh, NEW x, TooLight(t, sub, bh, x),
           ~ DeleteOver(t, x), NEW p, p = t.up[x], NEW d, d = SideOf(t, x),
           NEW o, o = Other(d), NEW r, r = BlackSibling(t, x)
    PROVE  /\ r \in Tree /\ r.count = t.count /\ ~ DeleteOver(r, x)
           /\ r.up[x] = p /\ SideOf(r, x) = d /\ r.color[r.kid[o][p]] = "black"
           /\ \E new, nbh : /\ TooLight(r, new, nbh, x) /\ new[r.pRoot] = sub[t.pRoot]
                            /\ new[x] = sub[x]
<1>0. PICK s : s = t.kid[o][p]
  OBVIOUS
<1>1. /\ x \in Node /\ p \in Elem /\ p \in sub[t.pRoot] /\ d \in Side /\ o \in Side
      /\ t.kid[d][p] = x /\ x # p /\ s # p
      /\ s \in Elem /\ s # x /\ s \in sub[t.pRoot]
      /\ \A z \in Side : z = d \/ z = o
      /\ Other(o) = d /\ o # d
      /\ bh[x] \in Nat /\ bh[s] = bh[x] + 1 /\ bh[p] = bh[x] + 1 + Weight(t, p)
      /\ t.color[x] = "black" /\ x # t.pRoot
      /\ \A n \in Elem, z \in Side : ~ RedPair(t, n, z)
  BY <1>0, ShortNode
<1>2. Sibling(t, x) = s
  BY <1>0 DEF Sibling
<1>3. CASE t.color[s] = "black"
  <2>1. r = t
    BY <1>2, <1>3 DEF BlackSibling
  <2>2. TooLight(r, sub, bh, x) /\ sub[r.pRoot] = sub[t.pRoot]
    BY <2>1
  <2>3. r \in Tree /\ r.count = t.count /\ r.up[x] = p /\ r.color[r.kid[o][p]] = "black"
    BY <1>0, <1>3, <2>1
  <2>4. ~ DeleteOver(r, x) /\ SideOf(r, x) = d
    BY <2>1
  <2>5. QED
    BY <2>2, <2>3, <2>4
<1>4. CASE t.color[s] # "black"
  <2>q. PICK q : q = Paint(Paint(t, s, "black"), p, "red")
    OBVIOUS
  <2>a. PICK a, c : a = t.kid[d][s] /\ c = t.kid[o][s]
    BY Zenon
  <2>n. PICK nbh : nbh = [m \in Node |-> IF m = p THEN bh[x] + 1 ELSE IF m = s THEN bh[p]
                                          ELSE bh[m]]
    BY Zenon
  <2>0. /\ p \in Node /\ s \in Node /\ a \in Node /\ c \in Node /\ p # Nil /\ s # Nil
        /\ Shape(t, sub) /\ Heights(bh) /\ t.color[Nil] = "black"
    BY Zenon, <1>1, <2>a, Nodes, TreeTypes DEF TooLight
  <2>1. t.color[s] = "red" /\ t.color[p] = "black" /\ t.color[a] = "black" /\ t.color[c] = "black"
    <3>1. t.color[s] = "red"
      BY <1>4, <2>0, TreeTypes DEF Colour
    <3>2. t.color[p] # "red" /\ t.color[a] # "red" /\ t.color[c] # "red"
      BY Zenon, <1>0, <1>1, <2>a, <3>1 DEF RedPair
    <3>3. QED
      BY <2>0, <3>1, <3>2, TreeTypes DEF Colour
  <2>2. r = Rotate(q, p, d)
    BY <1>2, <2>1, <2>q DEF BlackSibling
  <2>3. /\ q \in Tree /\ SameLinks(t, q)
        /\ \A m \in Node : q.color[m] = IF m = p THEN "red" ELSE IF m = s THEN "black"
                                        ELSE t.color[m]
    <3>1. "black" \in Colour /\ "red" \in Colour
      BY DEF Colour
    <3>2. PaintedTwice(t, q, s, "black", p, "red")
      BY <2>0, <2>q, <3>1, PaintTwo
    <3>3. QED
      BY <3>2 DEF PaintedTwice
  <2>4. \A m \in Elem \ sub[t.pRoot] : q.color[m] = "black"
    BY <1>1, <2>0, <2>3, Nodes DEF Shape, Outside
  <2>5. /\ r \in Tree /\ r.color = q.color /\ r.count = t.count
        /\ r.pRoot = IF p = t.pRoot THEN s ELSE t.pRoot
        /\ r.kid[o][p] = a /\ r.kid[d][p] = x
        /\ r.kid[d][s] = p /\ r.kid[o][s] = c
        /\ \A m \in Node : m \notin {p, s} /\ (m # a \/ m = Nil) => r.up[m] = t.up[m]
        /\ \A m \in Elem, z \in Side :
              m \notin {p, s} => /\ t.kid[z][m] # s
                                 /\ t.kid[z][m] = p => r.kid[z][m] = s
                                 /\ t.kid[z][m] # p => r.kid[z][m] = t.kid[z][m]
        /\ nbh[s] = bh[p] /\ (\A k \in Node : k \notin {p, s} => nbh[k] = bh[k])
              => \A m \in Elem : m \notin {p, s} /\ Even(q, bh, m) => Even(r, nbh, m)
        /\ \E new : /\ Shape(r, new) /\ new[r.pRoot] = sub[t.pRoot]
                    /\ \A m \in Node : m \notin {p, s} => new[m] = sub[m]
    <3>1. Toppled(t, q, r, sub, p, s, d, o)
      BY <1>0, <1>1, <2>0, <2>2, <2>3, <2>4, PaintedRotation
    <3>2. QED
      BY Zenon, <1>0, <1>1, <2>a, <3>1 DEF Toppled
  <2>6. PICK new : /\ Shape(r, new) /\ new[r.pRoot] = sub[t.pRoot]
                   /\ \A m \in Node : m \notin {p, s} => new[m] = sub[m]
    BY <2>5
  <2>7. /\ bh[a] = bh[x] + 1 /\ bh[c] = bh[x] + 1 /\ bh[p] = bh[x] + 2 /\ bh[p] \in Nat
    <3>1. Even(t, bh, s)
      BY <1>1 DEF TooLight
    <3>2. Weight(t, s) = 0 /\ Weight(t, p) = 1
      BY <2>1 DEF Weight
    <3>3. bh[s] = bh[a] + 0 /\ bh[s] = bh[c] + 0 /\ bh[a] \in Nat /\ bh[c] \in Nat
      BY <1>1, <2>0, <2>a, <3>1, <3>2 DEF Even, Heights
    <3>4. QED
      BY <1>1, <3>2, <3>3
  <2>8. a # x /\ a # p /\ a # s /\ c # p /\ c # s
    <3>1. a # x
      BY <1>1, <2>7
    <3>2. a # p /\ a # s /\ c # p /\ c # s
      <4>1. /\ t.kid[d][s] # p /\ t.kid[d][s] # s
            /\ t.kid[o][s] # p /\ t.kid[o][s] # s
        <5>1. t.kid[Other(d)][p] # Nil
          BY <1>0, <2>0
        <5>2. LET y == t.kid[Other(d)][p]
              IN  /\ t.kid[d][y] # p /\ t.kid[d][y] # y
                  /\ t.kid[Other(d)][y] # p /\ t.kid[Other(d)][y] # y
          BY <1>1, <2>0, <5>1, RotateFits
        <5>3. QED
          BY <1>0, <5>2
      <4>2. QED
        BY <2>a, <4>1
    <3>3. QED
      BY <3>1, <3>2
  <2>9. /\ nbh[p] = bh[x] + 1 /\ nbh[s] = bh[p] /\ nbh[x] = bh[x] /\ nbh[a] = bh[a]
        /\ nbh[c] = bh[c] /\ \A k \in Node : k \notin {p, s} => nbh[k] = bh[k]
    BY <1>1, <2>0, <2>8, <2>n
  <2>10. Heights(nbh)
    <3>1. bh[x] + 1 \in Nat /\ bh[p] \in Nat
      BY <1>1, <2>7
    <3>2. bh \in [Node -> Nat] /\ bh[Nil] = 0
      BY <2>0 DEF Heights
    <3>3. nbh \in [Node -> Nat]
      BY <2>n, <3>1, <3>2
    <3>4. nbh[Nil] = 0
      BY <2>0, <2>n, <3>2, Nodes
    <3>5. QED
      BY <3>3, <3>4 DEF Heights
  <2>11. r.up[x] = p
    <3>1. x = a /\ x # Nil => FALSE
      BY <2>8
    <3>2. QED
      BY <1>1, <2>5, <3>1
  <2>12. SideOf(r, x) = d
    BY <1>1, <2>5, <2>8, <2>11, SideIs
  <2>13. r.color[p] = "red" /\ r.color[s] = "black" /\ r.color[x] = "black"
         /\ r.color[a] = "black" /\ r.color[c] = "black" /\ r.color[Nil] = "black"
    <3>1. \A m \in Node : r.color[m] = IF m = p THEN "red" ELSE IF m = s THEN "black"
                                        ELSE t.color[m]
      <4>1. r.color = q.color
        BY <2>5
      <4>2. QED
        BY <2>3, <4>1
    <3>2. QED
      BY Zenon, <1>1, <2>0, <2>1, <2>8, <3>1, Nodes
  <2>14. Short(r, nbh, x)
    <3>1. Weight(r, p) = 0
      BY <2>13 DEF Weight
    <3>2. nbh[a] = nbh[x] + 1 /\ nbh[p] = nbh[x] + 1 + Weight(r, p)
      <4>1. QED
        BY <1>1, <2>7, <2>9, <3>1
    <3>3. QED
      BY <2>5, <2>11, <2>12, <3>2 DEF Short
  <2>15. ASSUME NEW m \in Elem, m # p PROVE Even(r, nbh, m)
    <3>1. CASE m = s
      <4>1. Weight(r, s) = 1
        BY <2>13 DEF Weight
      <4>2. nbh[s] = nbh[p] + 1 /\ nbh[s] = nbh[c] + 1
        <5>1. QED
          BY <1>1, <2>7, <2>9
      <4>3. QED
        BY <1>1, <2>5, <3>1, <4>1, <4>2 DEF Even
    <3>2. CASE m # s
      <4>1. Even(t, bh, m)
        BY <2>15 DEF TooLight
      <4>2. Weight(q, m) = Weight(t, m)
        BY Zenon, <2>3, <2>15, <3>2, Nodes DEF Weight
      <4>3. Even(q, bh, m)
        BY <2>3, <4>1, <4>2 DEF Even, SameLinks
      <4>4. QED
        BY <2>5, <2>9, <2>15, <3>2, <4>3
    <3>3. QED
      BY <3>1, <3>2
  <2>16. ASSUME NEW m \in Elem, NEW z \in Side, RedPair(r, m, z) PROVE FALSE
    <3>1. CASE m = p
      BY <1>1, <2>5, <2>13, <2>16, <3>1 DEF RedPair
    <3>2. CASE m = s
      BY <2>13, <2>16, <3>2 DEF RedPair
    <3>3. CASE m \notin {p, s}
      <4>1. m \in Node /\ t.kid[z][m] \in Node
        BY Nodes, TreeTypes
      <4>2. r.kid[z][m] # s
        BY <2>13, <2>16 DEF RedPair
      <4>3. r.kid[z][m] = t.kid[z][m] /\ t.kid[z][m] \notin {p, s}
        BY <2>5, <3>3, <4>2
      <4>4. RedPair(t, m, z)
        BY <2>3, <2>5, <2>16, <3>3, <4>1, <4>3 DEF RedPair
      <4>5. QED
        BY <1>1, <4>4
    <3>4. QED
      BY <3>1, <3>2, <3>3
  <2>17. r.color[r.pRoot] # "red"
    <3>1. CASE p = t.pRoot
      BY <2>5, <2>13, <3>1
    <3>2. CASE p # t.pRoot
      <4>1. t.color[t.pRoot] # "red" /\ t.pRoot \in Node
        BY <1>1, TreeTypes DEF TooLight
      <4>2. QED
        BY <2>3, <2>5, <2>13, <3>2, <4>1
    <3>3. QED
      BY <3>1, <3>2
  <2>18. x # r.pRoot
    BY <1>1, <2>5
  <2>19. TooLight(r, new, nbh, x)
    <3>1. x \in new[r.pRoot] \union {Nil} /\ r.up[x] \in new[r.pRoot]
      BY <1>1, <2>6, <2>11 DEF TooLight
    <3>2. \A n \in Elem : n # r.up[x] => Even(r, nbh, n)
      BY <2>11, <2>15
    <3>3. QED
      BY <2>6, <2>10, <2>13, <2>14, <2>16, <2>17, <2>18, <3>1, <3>2 DEF TooLight
  <2>20. ~ DeleteOver(r, x)
    BY <2>13, <2>18 DEF DeleteOver
  <2>21. new[x] = sub[x]
    BY <1>1, <2>6
  <2>22. QED
    BY <2>5, <2>6, <2>11, <2>12, <2>13, <2>19, <2>20, <2>21
<1>5. QED
  BY <1>3, <1>4

(* A child y of n, and what it is not.                                     *)
LEMMA NextDown ==
    ASSUME NEW t \in Tree, NEW sub, Shape(t, sub), NEW n \in sub[t.pRoot], NEW z \in Side,
           NEW y, y = t.kid[z][n], y # Nil
    PROVE  /\ n \in Elem /\ y \in Elem /\ y \in sub[t.pRoot] /\ y # n
           /\ t.up[y] = n /\ t.up[n] # n /\ t.up[n] # y
           /\ \A w \in Side : t.kid[w][y] # n /\ t.kid[w][y] # y
           /\ t.kid[Other(z)][n] # y
<1> DEFINE e == Other(z)
<1>1. e \in Side /\ Other(e) = z /\ \A w \in Side : w = e \/ w = z
  BY Sides
<1> HIDE DEF e
<1>2. t.kid[Other(e)][n] # Nil
  BY <1>1
<1>3. LET m == t.kid[Other(e)][n]
      IN  /\ n \in Elem /\ m \in Elem /\ m \in sub[t.pRoot]
          /\ m # n /\ t.up[n] # n /\ t.up[n] # m
          /\ t.kid[e][m] # n /\ t.kid[e][m] # m /\ t.up[m] = n
          /\ t.kid[Other(e)][m] # n /\ t.kid[Other(e)][m] # m
          /\ t.kid[e][n] # m
  BY <1>1, <1>2, RotateFits
<1>4. QED
  BY <1>1, <1>3 DEF e

(* x is short; p is its parent, s its sibling, d and o their sides.        *)
ShortAt(t, sub, bh, x, p, d, o, s) ==
    /\ x \in Node /\ p \in Elem /\ p \in sub[t.pRoot] /\ d \in Side /\ o \in Side
    /\ t.kid[d][p] = x /\ x # p /\ s # p
    /\ s \in Elem /\ s # x /\ s \in sub[t.pRoot]
    /\ \A z \in Side : z = d \/ z = o
    /\ Other(o) = d /\ o # d
    /\ bh[x] \in Nat /\ bh[s] = bh[x] + 1 /\ bh[p] = bh[x] + 1 + Weight(t, p)
    /\ t.color[x] = "black" /\ x # t.pRoot
    /\ \A n \in Elem, z \in Side : ~ RedPair(t, n, z)

(* The same, for a node whose surroundings have names.                     *)
LEMMA ShortNodeAt ==
    ASSUME NEW t \in Tree, NEW sub, NEW bh, NEW x, TooLight(t, sub, bh, x),
           ~ DeleteOver(t, x), NEW p, p = t.up[x], NEW d, d = SideOf(t, x),
           NEW o, o = Other(d), NEW s, s = t.kid[o][p]
    PROVE  /\ ShortAt(t, sub, bh, x, p, d, o, s)
           /\ p \in Node /\ s \in Node /\ p # Nil /\ s # Nil /\ t.up[s] = p
           /\ Shape(t, sub) /\ Heights(bh) /\ t.color[Nil] = "black"
           /\ \A z \in Side : t.kid[z][s] \in Node /\ t.kid[z][s] # p /\ t.kid[z][s] # s
           /\ \A z \in Side : t.kid[z][s] # x \/ x = Nil
<1>1. ShortAt(t, sub, bh, x, t.up[x], SideOf(t, x), Other(SideOf(t, x)),
              t.kid[Other(SideOf(t, x))][t.up[x]])
  BY ShortNode DEF ShortAt
<1>2. ShortAt(t, sub, bh, x, p, d, o, s)
  BY <1>1
<1>3. Shape(t, sub) /\ Heights(bh) /\ t.color[Nil] = "black"
  BY DEF TooLight
<1>4. /\ p \in Elem /\ p \in sub[t.pRoot] /\ s \in Elem /\ o \in Side /\ x # p /\ s # p
      /\ d \in Side /\ t.kid[d][p] = x
  BY <1>2 DEF ShortAt
<1>5. p \in Node /\ s \in Node /\ p # Nil /\ s # Nil
  BY <1>4, Nodes
<1>6. t.up[s] = p /\ \A z \in Side : t.kid[z][s] # p /\ t.kid[z][s] # s
  BY <1>3, <1>4, <1>5, NextDown
<1>7. ASSUME NEW z \in Side, t.kid[z][s] = x, x # Nil PROVE FALSE
  <2>1. t.up[x] = s
    BY <1>3, <1>4, <1>7 DEF Shape, UpLinks
  <2>2. QED
    BY <1>4, <2>1
<1>8. \A z \in Side : t.kid[z][s] \in Node
  BY <1>5, TreeTypes
<1>9. QED
  BY Zenon, <1>2, <1>3, <1>5, <1>6, <1>7, <1>8


(* The names of the nodes around x.                                        *)
Around(t, x, p, d, o, s) ==
    p = t.up[x] /\ d = SideOf(t, x) /\ o = Other(d) /\ s = t.kid[o][p]

(* The nodes around a node that is short.                                  *)
LEMMA ShortAround ==
    ASSUME NEW t \in Tree, NEW sub, NEW bh, NEW x, TooLight(t, sub, bh, x),
           ~ DeleteOver(t, x), NEW p, NEW d, NEW o, NEW s, Around(t, x, p, d, o, s)
    PROVE  /\ ShortAt(t, sub, bh, x, p, d, o, s)
           /\ p \in Node /\ s \in Node /\ p # Nil /\ s # Nil /\ t.up[s] = p
           /\ Shape(t, sub) /\ Heights(bh) /\ t.color[Nil] = "black"
           /\ \A z \in Side : t.kid[z][s] \in Node /\ t.kid[z][s] # p /\ t.kid[z][s] # s
           /\ \A z \in Side : t.kid[z][s] # x \/ x = Nil
<1>1. p = t.up[x] /\ d = SideOf(t, x) /\ o = Other(d) /\ s = t.kid[o][p]
  BY DEF Around
<1>2. ShortAt(t, sub, bh, x, p, d, o, s)
  BY <1>1, ShortNodeAt, Zenon
<1>3. /\ p \in Node /\ s \in Node /\ p # Nil /\ s # Nil /\ t.up[s] = p
      /\ Shape(t, sub) /\ Heights(bh) /\ t.color[Nil] = "black"
      /\ \A z \in Side : t.kid[z][s] \in Node /\ t.kid[z][s] # p /\ t.kid[z][s] # s
      /\ \A z \in Side : t.kid[z][s] # x \/ x = Nil
  <2> DEFINE p0 == t.up[x]
             d0 == SideOf(t, x)
             o0 == Other(d0)
             s0 == t.kid[o0][p0]
  <2>1. p = p0 /\ d = d0 /\ o = o0 /\ s = s0
    BY <1>1
  <2>2. p0 = t.up[x] /\ d0 = SideOf(t, x) /\ o0 = Other(d0) /\ s0 = t.kid[o0][p0]
    OBVIOUS
  <2> HIDE DEF p0, d0, o0, s0
  <2>3. /\ p0 \in Node /\ s0 \in Node /\ p0 # Nil /\ s0 # Nil /\ t.up[s0] = p0
        /\ Shape(t, sub) /\ Heights(bh) /\ t.color[Nil] = "black"
        /\ \A z \in Side : t.kid[z][s0] \in Node /\ t.kid[z][s0] # p0 /\ t.kid[z][s0] # s0
        /\ \A z \in Side : t.kid[z][s0] # x \/ x = Nil
    BY <2>2, ShortNodeAt
  <2>4. QED
    BY <2>1, <2>3
<1>4. QED
  BY <1>2, <1>3

(* The far child of a black sibling becomes red.                           *)
LEMMA RedFarStep ==
    ASSUME NEW t \in Tree, NEW sub, NEW bh, NEW x, TooLight(t, sub, bh, x),
           ~ DeleteOver(t, x), NEW p, NEW d, NEW o, NEW s, Around(t, x, p, d, o, s),
           t.color[s] = "black",
           ~ \A z \in Side : t.color[t.kid[z][s]] = "black",
           NEW r, r = RedFar(t, s, d)
    PROVE  /\ r \in Tree /\ r.count = t.count /\ ~ DeleteOver(r, x)
           /\ r.up[x] = p /\ SideOf(r, x) = d /\ r.color[r.kid[o][p]] = "black"
           /\ r.color[r.kid[o][r.kid[o][p]]] = "red"
           /\ \E new, nbh : /\ TooLight(r, new, nbh, x) /\ new[r.pRoot] = sub[t.pRoot]
                            /\ new[x] = sub[x]
<1>1. /\ x \in Node /\ p \in Elem /\ p \in sub[t.pRoot] /\ d \in Side /\ o \in Side
      /\ t.kid[d][p] = x /\ x # p /\ s # p
      /\ s \in Elem /\ s # x /\ s \in sub[t.pRoot]
      /\ \A z \in Side : z = d \/ z = o
      /\ Other(o) = d /\ o # d
      /\ bh[x] \in Nat /\ bh[s] = bh[x] + 1 /\ bh[p] = bh[x] + 1 + Weight(t, p)
      /\ t.color[x] = "black" /\ x # t.pRoot
      /\ \A n \in Elem, z \in Side : ~ RedPair(t, n, z)
  <2>1. ShortAt(t, sub, bh, x, p, d, o, s)
    BY ShortAround
  <2>2. QED
    BY <2>1 DEF ShortAt
<1>0. p = t.up[x] /\ d = SideOf(t, x) /\ o = Other(d) /\ s = t.kid[o][p]
  BY Zenon DEF Around
<1>2. PICK c, f : c = t.kid[d][s] /\ f = t.kid[o][s]
  BY Zenon
<1>3. CASE t.color[f] # "black"
  <2>0. t.color[f] = "red"
    BY <1>1, <1>2, <1>3, TreeTypes, Nodes DEF Colour
  <2>1. r = t
    BY Zenon, <1>0, <1>2, <1>3 DEF RedFar
  <2>2. TooLight(r, sub, bh, x) /\ sub[r.pRoot] = sub[t.pRoot]
    BY <2>1
  <2>3. r \in Tree /\ r.count = t.count /\ r.up[x] = p /\ r.color[r.kid[o][p]] = "black"
        /\ r.color[r.kid[o][r.kid[o][p]]] = "red"
    BY Zenon, <1>0, <1>2, <2>0, <2>1
  <2>4. ~ DeleteOver(r, x) /\ SideOf(r, x) = d
    BY Zenon, <1>0, <2>1
  <2>5. QED
    BY <2>2, <2>3, <2>4
<1>4. CASE t.color[f] = "black"
  <2>q. PICK q : q = Paint(Paint(t, c, "black"), s, "red")
    OBVIOUS
  <2>a. PICK a, b : a = t.kid[d][c] /\ b = t.kid[o][c]
    BY Zenon
  <2>n. PICK nbh : nbh = [m \in Node |-> IF m = s THEN bh[x] ELSE IF m = c THEN bh[s]
                                          ELSE bh[m]]
    BY Zenon
  <2>0. /\ p \in Node /\ s \in Node /\ c \in Node /\ f \in Node /\ p # Nil /\ s # Nil
        /\ Shape(t, sub) /\ Heights(bh) /\ t.color[Nil] = "black"
        /\ c # p /\ c # s /\ f # s /\ f # p
    <3>1. /\ p \in Node /\ s \in Node /\ p # Nil /\ s # Nil
          /\ Shape(t, sub) /\ Heights(bh) /\ t.color[Nil] = "black"
          /\ \A z \in Side : t.kid[z][s] \in Node /\ t.kid[z][s] # p /\ t.kid[z][s] # s
      BY ShortAround
    <3>2. QED
      BY <1>1, <1>2, <3>1
  <2>1. t.color[c] = "red" /\ c \in Elem /\ c # Nil /\ a \in Node /\ b \in Node /\ x # c
    <3>1. t.color[c] # "black"
      BY <1>1, <1>2, <1>4
    <3>2. t.color[c] = "red"
      BY <2>0, <3>1, TreeTypes DEF Colour
    <3>3. c # Nil /\ c \in Elem
      BY <2>0, <3>2, Nodes
    <3>4. QED
      BY Zenon, <1>1, <2>a, <3>1, <3>2, <3>3, TreeTypes, Nodes
  <2>2. r = Rotate(q, s, o)
    BY Zenon, <1>0, <1>2, <1>4, <2>q DEF RedFar
  <2>3. /\ q \in Tree /\ SameLinks(t, q)
        /\ \A m \in Node : q.color[m] = IF m = s THEN "red" ELSE IF m = c THEN "black"
                                        ELSE t.color[m]
    <3>1. "black" \in Colour /\ "red" \in Colour
      BY DEF Colour
    <3>2. PaintedTwice(t, q, c, "black", s, "red")
      BY <2>0, <2>q, <3>1, PaintTwo
    <3>3. QED
      BY <3>2 DEF PaintedTwice
  <2>4. c \in sub[t.pRoot] /\ \A m \in Elem \ sub[t.pRoot] : q.color[m] = "black"
    <3>1. c \in sub[t.pRoot]
      BY <1>1, <1>2, <2>0, <2>1, ShapeFacts
    <3>2. ASSUME NEW m \in Elem \ sub[t.pRoot] PROVE q.color[m] = "black"
      <4>1. m # s /\ m # c /\ m \in Node /\ t.color[m] = "black"
        BY <1>1, <2>0, <3>1, Nodes DEF Shape, Outside
      <4>2. QED
        BY <2>3, <4>1
    <3>3. QED
      BY <3>1, <3>2
  <2>5. /\ r \in Tree /\ r.color = q.color /\ r.count = t.count
        /\ r.pRoot = IF s = t.pRoot THEN c ELSE t.pRoot
        /\ r.kid[d][s] = b /\ r.kid[o][s] = f
        /\ r.kid[o][c] = s /\ r.kid[d][c] = a
        /\ \A m \in Node : m \notin {s, c} /\ (m # b \/ m = Nil) => r.up[m] = t.up[m]
        /\ \A m \in Elem, z \in Side :
              m \notin {s, c} => /\ t.kid[z][m] # c
                                 /\ t.kid[z][m] = s => r.kid[z][m] = c
                                 /\ t.kid[z][m] # s => r.kid[z][m] = t.kid[z][m]
        /\ nbh[c] = bh[s] /\ (\A k \in Node : k \notin {s, c} => nbh[k] = bh[k])
              => \A m \in Elem : m \notin {s, c} /\ Even(q, bh, m) => Even(r, nbh, m)
        /\ \E new : /\ Shape(r, new) /\ new[r.pRoot] = sub[t.pRoot]
                    /\ \A m \in Node : m \notin {s, c} => new[m] = sub[m]
    <3>1. Toppled(t, q, r, sub, s, c, o, d)
      BY <1>1, <1>2, <2>0, <2>1, <2>2, <2>3, <2>4, PaintedRotation
    <3>2. QED
      BY Zenon, <1>1, <1>2, <2>a, <3>1 DEF Toppled
  <2>6. PICK new : /\ Shape(r, new) /\ new[r.pRoot] = sub[t.pRoot]
                   /\ \A m \in Node : m \notin {s, c} => new[m] = sub[m]
    BY <2>5
  <2>7. /\ bh[a] = bh[x] /\ bh[b] = bh[x] /\ bh[c] = bh[x] /\ bh[f] = bh[x]
        /\ bh[s] \in Nat
    <3>1. Even(t, bh, s) /\ Even(t, bh, c)
      BY Zenon, <1>0, <1>1, <2>0, <2>1 DEF TooLight
    <3>2. Weight(t, s) = 1 /\ Weight(t, c) = 0
      BY <2>1 DEF Weight
    <3>3. bh[s] = bh[c] + 1 /\ bh[s] = bh[f] + 1
      BY <1>1, <1>2, <3>1, <3>2 DEF Even
    <3>4. bh[c] = bh[a] + 0 /\ bh[c] = bh[b] + 0
      BY <1>1, <2>a, <3>1, <3>2 DEF Even
    <3>5. bh[a] \in Nat /\ bh[b] \in Nat /\ bh[c] \in Nat /\ bh[f] \in Nat
      BY <2>0, <2>1 DEF Heights
    <3>6. QED
      BY <1>1, <3>3, <3>4, <3>5
  <2>8. c # p /\ c # s /\ f # s /\ f # c /\ a # s /\ a # c /\ b # s /\ b # c /\ t.up[c] = s
    <3>1. /\ t.up[c] = s /\ \A w \in Side : t.kid[w][c] # s /\ t.kid[w][c] # c
          /\ t.kid[Other(d)][s] # c
      BY <1>1, <1>2, <2>0, <2>1, NextDown
    <3>2. QED
      BY Zenon, <1>0, <1>1, <1>2, <2>0, <2>a, <3>1
  <2>9. /\ nbh[s] = bh[x] /\ nbh[c] = bh[s] /\ nbh[x] = bh[x] /\ nbh[p] = bh[p]
        /\ nbh[a] = bh[a] /\ nbh[b] = bh[b] /\ nbh[f] = bh[f]
        /\ \A k \in Node : k \notin {s, c} => nbh[k] = bh[k]
    BY <1>1, <2>0, <2>1, <2>8, <2>n
  <2>10. Heights(nbh)
    <3>1. bh \in [Node -> Nat] /\ bh[Nil] = 0
      BY <2>0 DEF Heights
    <3>2. nbh \in [Node -> Nat]
      BY <1>1, <2>7, <2>n, <3>1
    <3>3. nbh[Nil] = 0
      BY <2>0, <2>1, <2>n, <3>1, Nodes
    <3>4. QED
      BY <3>2, <3>3 DEF Heights
  <2>11. r.up[x] = p
    <3>1. ASSUME x = b, x # Nil PROVE FALSE
      <4>1. t.kid[o][c] = b /\ b # Nil /\ c \in Elem /\ o \in Side
        BY <1>1, <2>1, <2>a, <3>1
      <4>2. t.up[b] = c
        BY <2>0, <4>1 DEF Shape, UpLinks
      <4>3. QED
        BY <1>0, <2>8, <3>1, <4>2
    <3>2. QED
      BY Zenon, <1>0, <1>1, <2>1, <2>5, <2>8, <3>1
  <2>12. r.kid[d][p] = x /\ r.kid[o][p] = c
    <3>1. p \notin {s, c} /\ t.kid[o][p] = s /\ t.kid[d][p] # s
      BY Zenon, <1>0, <1>1, <2>8
    <3>2. QED
      BY <1>1, <2>5, <3>1
  <2>13. SideOf(r, x) = d
    <3>1. r.kid[d][r.up[x]] = x /\ r.kid[Other(d)][r.up[x]] # x
      BY Zenon, <1>0, <2>1, <2>11, <2>12
    <3>2. QED
      BY <1>1, <3>1, SideIs
  <2>14. /\ r.color[s] = "red" /\ r.color[c] = "black" /\ r.color[x] = "black"
         /\ r.color[b] = "black" /\ r.color[f] = "black" /\ r.color[Nil] = "black"
         /\ r.color[p] = t.color[p]
    <3>1. \A m \in Node : r.color[m] = IF m = s THEN "red" ELSE IF m = c THEN "black"
                                        ELSE t.color[m]
      <4>1. r.color = q.color
        BY <2>5
      <4>2. QED
        BY <2>3, <4>1
    <3>2. t.color[b] = "black"
      <4>1. t.color[b] # "red"
        BY <1>1, <2>1, <2>a DEF RedPair
      <4>2. QED
        BY <2>1, <4>1, TreeTypes DEF Colour
    <3>3. QED
      BY <1>1, <1>4, <2>0, <2>1, <2>8, <3>1, <3>2, Nodes
  <2>15. Short(r, nbh, x)
    <3>1. Weight(r, p) = Weight(t, p)
      BY <2>14 DEF Weight
    <3>2. nbh[c] = nbh[x] + 1 /\ nbh[p] = nbh[x] + 1 + Weight(r, p)
      BY <1>1, <2>9, <3>1
    <3>3. QED
      BY Zenon, <1>0, <2>11, <2>12, <2>13, <3>2 DEF Short
  <2>16. ASSUME NEW m \in Elem, m # p PROVE Even(r, nbh, m)
    <3>1. CASE m = s
      <4>1. Weight(r, s) = 0
        BY <2>14 DEF Weight
      <4>2. nbh[s] = nbh[b] + 0 /\ nbh[s] = nbh[f] + 0
        <5>1. nbh[b] = bh[x] /\ nbh[f] = bh[x] /\ nbh[s] = bh[x] /\ bh[x] = bh[x] + 0
          BY <1>1, <2>7, <2>9
        <5>2. QED
          BY <5>1
      <4>3. QED
        BY <1>1, <2>5, <3>1, <4>1, <4>2 DEF Even
    <3>2. CASE m = c
      <4>1. Weight(r, c) = 1
        BY <2>14 DEF Weight
      <4>2. nbh[c] = nbh[a] + 1 /\ nbh[c] = nbh[s] + 1
        BY <1>1, <2>7, <2>9
      <4>3. QED
        BY <1>1, <2>5, <3>2, <4>1, <4>2 DEF Even
    <3>3. CASE m \notin {s, c}
      <4>1. Even(t, bh, m)
        BY Zenon, <1>0, <2>16 DEF TooLight
      <4>2. Weight(q, m) = Weight(t, m)
        BY Zenon, <2>3, <3>3, Nodes DEF Weight
      <4>3. Even(q, bh, m)
        BY <2>3, <4>1, <4>2 DEF Even, SameLinks
      <4>4. QED
        BY <2>5, <2>9, <3>3, <4>3
    <3>4. QED
      BY <3>1, <3>2, <3>3
  <2>17. ASSUME NEW m \in Elem, NEW z \in Side, RedPair(r, m, z) PROVE FALSE
    <3>1. CASE m = s
      BY <1>1, <2>5, <2>14, <2>17, <3>1 DEF RedPair
    <3>2. CASE m = c
      BY <2>14, <2>17, <3>2 DEF RedPair
    <3>3. CASE m \notin {s, c}
      <4>1. m \in Node /\ t.kid[z][m] \in Node
        BY Nodes, TreeTypes
      <4>2. r.kid[z][m] # c
        BY <2>14, <2>17 DEF RedPair
      <4>3. r.kid[z][m] = t.kid[z][m] /\ t.kid[z][m] \notin {s, c}
        BY <2>5, <3>3, <4>2
      <4>4. RedPair(t, m, z)
        BY <2>3, <2>5, <2>17, <3>3, <4>1, <4>3 DEF RedPair
      <4>5. QED
        BY <1>1, <4>4
    <3>4. QED
      BY <3>1, <3>2, <3>3
  <2>18. r.color[r.pRoot] # "red"
    <3>1. CASE s = t.pRoot
      BY <2>5, <2>14, <3>1
    <3>2. CASE s # t.pRoot
      <4>1. t.color[t.pRoot] # "red" /\ t.pRoot \in Node
        BY <1>1, TreeTypes DEF TooLight
      <4>2. QED
        BY <2>3, <2>5, <2>14, <3>2, <4>1
    <3>3. QED
      BY <3>1, <3>2
  <2>19. x # r.pRoot
    BY <1>1, <2>1, <2>5
  <2>20. TooLight(r, new, nbh, x)
    <3>1. x \in new[r.pRoot] \union {Nil} /\ r.up[x] \in new[r.pRoot]
      BY <1>1, <2>6, <2>11 DEF TooLight
    <3>2. \A n \in Elem : n # r.up[x] => Even(r, nbh, n)
      BY <2>11, <2>16
    <3>3. QED
      BY <2>6, <2>10, <2>14, <2>15, <2>17, <2>18, <2>19, <3>1, <3>2 DEF TooLight
  <2>21. ~ DeleteOver(r, x)
    BY <2>14, <2>19 DEF DeleteOver
  <2>22. new[x] = sub[x]
    BY <1>1, <2>1, <2>6
  <2>23. r.color[r.kid[o][p]] = "black" /\ r.color[r.kid[o][r.kid[o][p]]] = "red"
    BY <2>5, <2>12, <2>14
  <2>24. QED
    BY <2>5, <2>6, <2>11, <2>13, <2>20, <2>21, <2>22, <2>23
<1>5. QED
  BY <1>3, <1>4

(* The last rotation of a removal: nothing is wrong after it.              *)
LEMMA BalanceStep ==
    ASSUME NEW t \in Tree, NEW sub, NEW bh, NEW x, TooLight(t, sub, bh, x),
           ~ DeleteOver(t, x), NEW p, NEW d, NEW o, NEW s, Around(t, x, p, d, o, s),
           t.color[s] = "black", t.color[t.kid[o][s]] = "red",
           NEW r, r = Balance(t, p, d)
    PROVE  /\ r \in Tree /\ r.count = t.count
           /\ \E new, nbh : TooLight(r, new, nbh, r.pRoot) /\ new[r.pRoot] = sub[t.pRoot]
<1>1. /\ x \in Node /\ p \in Elem /\ p \in sub[t.pRoot] /\ d \in Side /\ o \in Side
      /\ t.kid[d][p] = x /\ x # p /\ s # p
      /\ s \in Elem /\ s # x /\ s \in sub[t.pRoot]
      /\ \A z \in Side : z = d \/ z = o
      /\ Other(o) = d /\ o # d
      /\ bh[x] \in Nat /\ bh[s] = bh[x] + 1 /\ bh[p] = bh[x] + 1 + Weight(t, p)
      /\ t.color[x] = "black" /\ x # t.pRoot
      /\ \A n \in Elem, z \in Side : ~ RedPair(t, n, z)
  <2>1. ShortAt(t, sub, bh, x, p, d, o, s)
    BY ShortAround
  <2>2. QED
    BY <2>1 DEF ShortAt
<1>0. p = t.up[x] /\ d = SideOf(t, x) /\ o = Other(d) /\ s = t.kid[o][p]
  BY DEF Around
<1>2. PICK c, f : c = t.kid[d][s] /\ f = t.kid[o][s]
  BY Zenon
<1>3. PICK q : q = [t EXCEPT !.color[s] = t.color[p], !.color[p] = "black", !.color[f] = "black"]
  OBVIOUS
<1>4. /\ p \in Node /\ s \in Node /\ c \in Node /\ f \in Node /\ p # Nil /\ s # Nil
      /\ Shape(t, sub) /\ Heights(bh) /\ t.color[Nil] = "black"
      /\ c # p /\ c # s /\ f # s /\ f # p
  <2>1. /\ p \in Node /\ s \in Node /\ p # Nil /\ s # Nil
        /\ Shape(t, sub) /\ Heights(bh) /\ t.color[Nil] = "black"
        /\ \A z \in Side : t.kid[z][s] \in Node /\ t.kid[z][s] # p /\ t.kid[z][s] # s
    BY ShortAround
  <2>2. QED
    BY <1>1, <1>2, <2>1
<1>5. t.color[f] = "red" /\ f # Nil /\ f \in Elem /\ f # c /\ f # x /\ f \in sub[t.pRoot]
      /\ \A z \in Side : t.kid[z][f] \in Node /\ t.kid[z][f] # s /\ t.kid[z][f] # f
  <2>1. t.color[f] = "red"
    BY <1>2
  <2>2. f # Nil /\ f \in Elem /\ f # x
    BY <1>1, <1>4, <2>1, Nodes
  <2>3. /\ f \in sub[t.pRoot] /\ t.kid[Other(o)][s] # f
        /\ \A z \in Side : t.kid[z][f] # s /\ t.kid[z][f] # f
    BY <1>1, <1>2, <1>4, <2>2, NextDown
  <2>4. \A z \in Side : t.kid[z][f] \in Node
    BY <1>4, TreeTypes
  <2>5. QED
    BY <1>1, <1>2, <2>1, <2>2, <2>3, <2>4
<1>6. r = Rotate(q, p, d)
  BY Zenon, <1>0, <1>2, <1>3 DEF Balance
<1>7. /\ q \in Tree /\ SameLinks(t, q)
      /\ \A m \in Node : q.color[m] = IF m \in {p, f} THEN "black"
                                      ELSE IF m = s THEN t.color[p] ELSE t.color[m]
  <2>1. "black" \in Colour /\ t.color[p] \in Colour
    BY <1>4, TreeTypes DEF Colour
  <2>2. QED
    BY Zenon, <1>1, <1>3, <1>4, <2>1 DEF Tree, SameLinks
<1>8. \A m \in Elem \ sub[t.pRoot] : q.color[m] = "black"
  <2>1. ASSUME NEW m \in Elem \ sub[t.pRoot] PROVE q.color[m] = "black"
    <3>1. m # s /\ m # p /\ m \in Node /\ t.color[m] = "black"
      BY <1>1, <1>4, Nodes DEF Shape, Outside
    <3>2. QED
      BY <1>7, <3>1
  <2>2. QED
    BY Zenon, <2>1
<1>9. PICK one : one = [m \in Node |-> IF m = f THEN bh[x] + 1 ELSE bh[m]]
  BY Zenon
<1>10. PICK nbh : nbh = [m \in Node |-> IF m = s THEN bh[p] ELSE IF m \in {p, f} THEN bh[x] + 1
                                        ELSE bh[m]]
  BY Zenon
<1>11. /\ r \in Tree /\ r.color = q.color /\ r.count = t.count
       /\ r.pRoot = IF p = t.pRoot THEN s ELSE t.pRoot
       /\ r.kid[o][p] = c /\ r.kid[d][p] = x
       /\ r.kid[d][s] = p /\ r.kid[o][s] = f
       /\ \A m \in Elem, z \in Side :
             m \notin {p, s} => /\ t.kid[z][m] # s
                                /\ t.kid[z][m] = p => r.kid[z][m] = s
                                /\ t.kid[z][m] # p => r.kid[z][m] = t.kid[z][m]
       /\ nbh[s] = one[p] /\ (\A k \in Node : k \notin {p, s} => nbh[k] = one[k])
             => \A m \in Elem : m \notin {p, s} /\ Even(q, one, m) => Even(r, nbh, m)
       /\ \E new : Shape(r, new) /\ new[r.pRoot] = sub[t.pRoot]
  <2>1. Toppled(t, q, r, sub, p, s, d, o)
    BY Zenon, <1>0, <1>1, <1>4, <1>6, <1>7, <1>8, PaintedRotation
  <2>2. QED
    BY <1>1, <1>2, <2>1 DEF Toppled
<1>12. PICK new : Shape(r, new) /\ new[r.pRoot] = sub[t.pRoot]
  BY <1>11
<1>13. /\ bh[c] = bh[x] /\ bh[f] = bh[x] /\ bh[p] \in Nat /\ bh[x] + 1 \in Nat
       /\ \A z \in Side : bh[t.kid[z][f]] = bh[x]
  <2>1. Even(t, bh, s) /\ Even(t, bh, f)
    BY Zenon, <1>0, <1>1, <1>4, <1>5 DEF TooLight
  <2>2. Weight(t, s) = 1 /\ Weight(t, f) = 0
    BY <1>5 DEF Weight
  <2>3. bh[s] = bh[c] + 1 /\ bh[s] = bh[f] + 1
    BY <1>1, <1>2, <2>1, <2>2 DEF Even
  <2>4. bh[c] \in Nat /\ bh[f] \in Nat /\ bh[p] \in Nat
    BY <1>4 DEF Heights
  <2>5. ASSUME NEW z \in Side PROVE bh[t.kid[z][f]] = bh[x]
    <3>1. bh[f] = bh[t.kid[z][f]] + 0
      BY <2>1, <2>2 DEF Even
    <3>2. bh[t.kid[z][f]] \in Nat
      BY <1>4, <1>5 DEF Heights
    <3>3. QED
      BY <1>1, <2>3, <2>4, <3>1, <3>2
  <2>6. QED
    BY <1>1, <2>3, <2>4, <2>5
<1>14. /\ nbh[s] = bh[p] /\ nbh[p] = bh[x] + 1 /\ nbh[f] = bh[x] + 1
       /\ nbh[x] = bh[x] /\ nbh[c] = bh[c] /\ one[p] = bh[p]
       /\ \A k \in Node : k \notin {p, s} => nbh[k] = one[k]
  BY <1>1, <1>4, <1>5, <1>9, <1>10
<1>15. Heights(nbh)
  <2>1. bh \in [Node -> Nat] /\ bh[Nil] = 0
    BY <1>4 DEF Heights
  <2>2. nbh \in [Node -> Nat]
    BY <1>10, <1>13, <2>1
  <2>3. nbh[Nil] = 0
    BY <1>4, <1>5, <1>10, <2>1, Nodes
  <2>4. QED
    BY <2>2, <2>3 DEF Heights
<1>16. \A m \in Node : r.color[m] = IF m \in {p, f} THEN "black"
                                    ELSE IF m = s THEN t.color[p] ELSE t.color[m]
  <2>1. r.color = q.color
    BY <1>11
  <2>2. QED
    BY <1>7, <2>1
<1>17. /\ r.color[p] = "black" /\ r.color[f] = "black" /\ r.color[s] = t.color[p]
       /\ r.color[Nil] = "black"
  BY <1>1, <1>4, <1>5, <1>16, Nodes
<1>18. ASSUME NEW m \in Elem PROVE Even(r, nbh, m)
  <2>1. CASE m = p
    <3>1. Weight(r, p) = 1
      BY <1>17 DEF Weight
    <3>2. nbh[p] = nbh[x] + 1 /\ nbh[p] = nbh[c] + 1
      BY <1>1, <1>13, <1>14
    <3>3. QED
      BY <1>1, <1>11, <2>1, <3>1, <3>2 DEF Even
  <2>2. CASE m = s
    <3>1. Weight(r, s) = Weight(t, p)
      BY <1>17 DEF Weight
    <3>2. nbh[s] = nbh[p] + Weight(r, s) /\ nbh[s] = nbh[f] + Weight(r, s)
      BY <1>1, <1>14, <3>1
    <3>3. QED
      BY <1>1, <1>11, <2>2, <3>2 DEF Even
  <2>3. CASE m = f
    <3>1. Weight(q, f) = 1
      BY <1>4, <1>7 DEF Weight
    <3>2. one[f] = bh[x] + 1 /\ \A z \in Side : one[t.kid[z][f]] = bh[x]
      BY <1>4, <1>5, <1>9, <1>13
    <3>3. Even(q, one, f)
      BY <1>7, <3>1, <3>2 DEF Even, SameLinks
    <3>4. QED
      BY <1>4, <1>5, <1>11, <1>14, <2>3, <3>3
  <2>4. CASE m \notin {p, s, f}
    <3>1. Even(t, bh, m) /\ m \in Node
      BY <1>0, <2>4, Nodes DEF TooLight
    <3>2. Weight(q, m) = Weight(t, m)
      BY <1>7, <2>4, <3>1 DEF Weight
    <3>3. ASSUME NEW z \in Side PROVE t.kid[z][m] # f /\ t.kid[z][m] \in Node
      <4>1. t.up[f] = s
        BY <1>1, <1>2, <1>4, <1>5, NextDown
      <4>2. t.kid[z][m] # f
        BY <1>4, <1>5, <2>4, <4>1 DEF Shape, UpLinks
      <4>3. QED
        BY <3>1, <4>2, TreeTypes
    <3>4. one[m] = bh[m] /\ \A z \in Side : one[t.kid[z][m]] = bh[t.kid[z][m]]
      BY <1>9, <2>4, <3>1, <3>3
    <3>5. Even(q, one, m)
      BY <1>7, <3>1, <3>2, <3>4 DEF Even, SameLinks
    <3>6. QED
      BY <1>11, <1>14, <2>4, <3>5
  <2>5. QED
    BY <2>1, <2>2, <2>3, <2>4
<1>19. ASSUME NEW m \in Elem, NEW z \in Side, RedPair(r, m, z) PROVE FALSE
  <2>1. CASE m \in {p, f}
    BY <1>17, <1>19, <2>1 DEF RedPair
  <2>2. CASE m = s
    BY <1>1, <1>11, <1>17, <1>19, <2>2 DEF RedPair
  <2>3. CASE m \notin {p, s, f}
    <3>1. m \in Node /\ t.kid[z][m] \in Node
      BY Nodes, TreeTypes
    <3>2. t.color[m] = "red"
      BY <1>16, <1>19, <2>3, <3>1 DEF RedPair
    <3>3. CASE t.kid[z][m] = p
      <4>1. r.kid[z][m] = s
        BY <1>11, <2>3, <3>3
      <4>2. t.color[p] = "red"
        BY <1>17, <1>19, <4>1 DEF RedPair
      <4>3. QED
        BY <1>1, <3>2, <3>3, <4>2 DEF RedPair
    <3>4. CASE t.kid[z][m] # p
      <4>1. r.kid[z][m] = t.kid[z][m] /\ t.kid[z][m] # s
        BY <1>11, <2>3, <3>4
      <4>2. t.color[t.kid[z][m]] = "red"
        BY <1>5, <1>16, <1>19, <3>1, <4>1 DEF RedPair
      <4>3. QED
        BY <1>1, <3>2, <4>2 DEF RedPair
    <3>5. QED
      BY <3>3, <3>4
  <2>4. QED
    BY <2>1, <2>2, <2>3
<1>20. r.color[r.pRoot] # "red"
  <2>1. t.color[t.pRoot] # "red" /\ t.pRoot \in Node
    BY <1>1, TreeTypes DEF TooLight
  <2>2. CASE p = t.pRoot
    BY <1>11, <1>17, <2>1, <2>2
  <2>3. CASE p # t.pRoot
    <3>1. t.pRoot # s
      <4>1. t.up[s] = p
        BY ShortAround
      <4>2. QED
        BY <1>4, <4>1 DEF Shape, UpLinks
    <3>2. QED
      BY <1>11, <1>16, <2>1, <2>3, <3>1
  <2>4. QED
    BY <2>2, <2>3
<1>21. r.pRoot \in new[r.pRoot] \union {Nil}
  <2>1. r.pRoot # Nil => r.pRoot \in new[r.pRoot]
    BY <1>11, <1>12, ShapeFacts
  <2>2. QED
    BY <2>1
<1>22. TooLight(r, new, nbh, r.pRoot)
  BY <1>12, <1>15, <1>17, <1>18, <1>19, <1>20, <1>21 DEF TooLight
<1>23. QED
  BY <1>11, <1>12, <1>22

(* A sibling with two black children becomes red: the trouble moves up.    *)
LEMMA BothBlackStep ==
    ASSUME NEW t \in Tree, NEW sub, NEW bh, NEW x, TooLight(t, sub, bh, x),
           ~ DeleteOver(t, x), NEW p, NEW d, NEW o, NEW s, Around(t, x, p, d, o, s),
           t.color[s] = "black", \A z \in Side : t.color[t.kid[z][s]] = "black",
           NEW r, r = Paint(t, s, "red")
    PROVE  /\ r \in Tree /\ SameLinks(t, r)
           /\ p \in sub[t.pRoot] /\ p \notin sub[x] /\ sub[x] \subseteq sub[p]
           /\ \E nbh : TooLight(r, sub, nbh, p)
<1>1. /\ x \in Node /\ p \in Elem /\ p \in sub[t.pRoot] /\ d \in Side /\ o \in Side
      /\ t.kid[d][p] = x /\ x # p /\ s # p
      /\ s \in Elem /\ s # x /\ s \in sub[t.pRoot]
      /\ \A z \in Side : z = d \/ z = o
      /\ Other(o) = d /\ o # d
      /\ bh[x] \in Nat /\ bh[s] = bh[x] + 1 /\ bh[p] = bh[x] + 1 + Weight(t, p)
      /\ t.color[x] = "black" /\ x # t.pRoot
      /\ \A n \in Elem, z \in Side : ~ RedPair(t, n, z)
  <2>1. ShortAt(t, sub, bh, x, p, d, o, s)
    BY ShortAround
  <2>2. QED
    BY <2>1 DEF ShortAt
<1>0. p = t.up[x] /\ d = SideOf(t, x) /\ o = Other(d) /\ s = t.kid[o][p]
  BY DEF Around
<1>2. /\ p \in Node /\ s \in Node /\ p # Nil /\ s # Nil /\ t.up[s] = p
      /\ Shape(t, sub) /\ Heights(bh) /\ t.color[Nil] = "black"
      /\ \A z \in Side : t.kid[z][s] \in Node /\ t.kid[z][s] # p /\ t.kid[z][s] # s
  BY ShortAround
<1>3. PICK g : g = t.up[p]
  OBVIOUS
<1>4. PICK nbh : nbh = [m \in Node |-> IF m = s THEN bh[x]
                                       ELSE IF m = p THEN bh[x] + Weight(t, p) ELSE bh[m]]
  BY Zenon
<1>5. /\ r \in Tree /\ SameLinks(t, r)
      /\ \A m \in Node : r.color[m] = IF m = s THEN "red" ELSE t.color[m]
  <2>1. "red" \in Colour
    BY DEF Colour
  <2>2. QED
    BY <1>2, <2>1, PaintLinks
<1>6. r.kid = t.kid /\ r.up = t.up /\ r.pRoot = t.pRoot
  BY <1>5 DEF SameLinks
<1>7. Shape(r, sub)
  <2>1. ASSUME NEW m \in Elem \ sub[t.pRoot] PROVE r.color[m] = "black"
    <3>1. m # s /\ m \in Node /\ t.color[m] = "black"
      BY <1>1, <1>2, Nodes DEF Shape, Outside
    <3>2. QED
      BY <1>5, <3>1
  <2>2. QED
    BY <1>2, <1>5, <2>1, PaintedShape
<1>8. Weight(t, p) \in {0, 1} /\ bh[x] + Weight(t, p) \in Nat /\ bh[p] \in Nat
  <2>1. Weight(t, p) \in {0, 1} /\ bh[p] \in Nat
    BY <1>2, Weights
  <2>2. QED
    BY <1>1, <2>1
<1>9. Heights(nbh)
  <2>1. bh \in [Node -> Nat] /\ bh[Nil] = 0
    BY <1>2 DEF Heights
  <2>2. nbh \in [Node -> Nat]
    BY <1>1, <1>4, <1>8, <2>1
  <2>3. nbh[Nil] = 0
    BY <1>2, <1>4, <2>1, Nodes
  <2>4. QED
    BY <2>2, <2>3 DEF Heights
<1>10. /\ nbh[s] = bh[x] /\ nbh[p] = bh[x] + Weight(t, p) /\ nbh[x] = bh[x]
       /\ \A k \in Node : k \notin {p, s} => nbh[k] = bh[k]
  BY <1>1, <1>2, <1>4
(* Which kids are p or s. *)
<1>11. \A m \in Elem, z \in Side : /\ t.kid[z][m] = p => m = g
                                   /\ t.kid[z][m] = s => m = p
  BY <1>2, <1>3 DEF Shape, UpLinks
<1>12. g # p /\ g # s
  <2>1. t.up[p] # p /\ t.up[p] # s
    <3>1. s = t.kid[o][p]
      BY Zenon, <1>0
    <3>2. QED
      BY <1>1, <1>2, <3>1, NextDown
  <2>2. QED
    BY <1>3, <2>1
<1>13. ASSUME NEW m \in Elem, m # g PROVE Even(r, nbh, m)
  <2>1. CASE m = p
    <3>1. Weight(r, p) = Weight(t, p)
      BY <1>1, <1>2, <1>5 DEF Weight
    <3>2. nbh[p] = nbh[x] + Weight(r, p) /\ nbh[p] = nbh[s] + Weight(r, p)
      BY <1>10, <3>1
    <3>3. QED
      BY Zenon, <1>0, <1>1, <1>6, <2>1, <3>2 DEF Even
  <2>2. CASE m = s
    <3>1. Even(t, bh, s)
      BY Zenon, <1>0, <1>1 DEF TooLight
    <3>2. Weight(t, s) = 1 /\ Weight(r, s) = 0
      BY <1>2, <1>5 DEF Weight
    <3>3. ASSUME NEW z \in Side PROVE nbh[s] = nbh[t.kid[z][s]] + Weight(r, s)
      <4>1. bh[s] = bh[t.kid[z][s]] + 1
        BY <3>1, <3>2 DEF Even
      <4>2. nbh[t.kid[z][s]] = bh[t.kid[z][s]] /\ bh[t.kid[z][s]] \in Nat
        BY <1>2, <1>10 DEF Heights
      <4>3. QED
        BY <1>1, <1>10, <3>2, <4>1, <4>2
    <3>4. QED
      BY <1>6, <2>2, <3>3 DEF Even
  <2>3. CASE m \notin {p, s}
    <3>1. Even(t, bh, m) /\ m \in Node
      BY Zenon, <1>0, <2>3, Nodes DEF TooLight
    <3>2. Weight(r, m) = Weight(t, m)
      BY <1>5, <2>3, <3>1 DEF Weight
    <3>3. \A z \in Side : t.kid[z][m] \notin {p, s} /\ t.kid[z][m] \in Node
      BY <1>11, <1>13, <2>3, <3>1, TreeTypes
    <3>4. nbh[m] = bh[m] /\ \A z \in Side : nbh[t.kid[z][m]] = bh[t.kid[z][m]]
      BY <1>10, <2>3, <3>1, <3>3
    <3>5. QED
      BY <1>6, <3>1, <3>2, <3>4 DEF Even
  <2>4. QED
    BY <2>1, <2>2, <2>3
<1>14. ASSUME NEW m \in Elem, NEW z \in Side, RedPair(r, m, z), m # p PROVE t.kid[z][m] = p
  <2>1. m \in Node /\ t.kid[z][m] \in Node
    BY Nodes, TreeTypes
  <2>2. t.kid[z][m] # s
    BY <1>11, <1>14
  <2>3. t.color[t.kid[z][m]] = "red"
    BY <1>5, <1>6, <1>14, <2>1, <2>2 DEF RedPair
  <2>4. m # s
    BY <2>3
  <2>5. t.color[m] = "red"
    BY <1>5, <1>14, <2>1, <2>4 DEF RedPair
  <2>6. QED
    BY <1>1, <2>3, <2>5 DEF RedPair
<1>15. r.color[Nil] = "black"
  BY <1>2, <1>5, Nodes
<1>16. r.color[r.pRoot] # "red"
  <2>1. t.color[t.pRoot] # "red" /\ t.pRoot \in Node
    BY <1>1, TreeTypes DEF TooLight
  <2>2. t.pRoot # s
    BY <1>2 DEF Shape, UpLinks
  <2>3. QED
    BY <1>5, <1>6, <2>1, <2>2
<1>17. p # t.pRoot => g \in sub[t.pRoot] /\ Short(r, nbh, p)
  <2>1. SUFFICES ASSUME p # t.pRoot PROVE g \in sub[t.pRoot] /\ Short(r, nbh, p)
    OBVIOUS
  <2>2. PICK e, f, u : e = SideOf(t, p) /\ f = Other(e) /\ u = t.kid[f][g]
    OBVIOUS
  <2>3. g \in Elem /\ g \in sub[t.pRoot] /\ e \in Side /\ t.kid[e][g] = p /\ u # p
    BY <1>1, <1>2, <1>3, <2>1, <2>2, OnItsSide
  <2>4. f \in Side /\ u \in Node /\ g \in Node
    BY <2>2, <2>3, Sides, TreeTypes, Nodes
  <2>5. u # s
    BY <1>11, <1>12, <2>2, <2>3, <2>4
  <2>6. Even(t, bh, g)
    BY Zenon, <1>0, <1>12, <2>3 DEF TooLight
  <2>7. bh[g] = bh[p] + Weight(t, g) /\ bh[g] = bh[u] + Weight(t, g)
    BY <2>2, <2>3, <2>4, <2>6 DEF Even
  <2>8. bh[u] \in Nat /\ bh[g] \in Nat /\ Weight(t, g) \in {0, 1}
    BY <1>2, <2>4, Weights
  <2>9. Weight(r, g) = Weight(t, g)
    BY <1>5, <1>12, <2>4 DEF Weight
  <2>10. nbh[u] = bh[u] /\ nbh[g] = bh[g]
    BY <1>10, <1>12, <2>3, <2>4, <2>5
  <2>11. bh[u] = bh[p] /\ bh[p] = nbh[p] + 1
    BY <1>1, <1>8, <1>10, <2>7, <2>8
  <2>12. nbh[u] = nbh[p] + 1 /\ nbh[g] = nbh[p] + 1 + Weight(r, g)
    BY <2>7, <2>9, <2>10, <2>11
  <2>13. SideOf(r, p) = e /\ r.up[p] = g
    BY <1>3, <1>6, <2>2 DEF SideOf
  <2>14. r.kid[e][g] = p /\ r.kid[Other(e)][g] = u
    BY <1>6, <2>2, <2>3
  <2>15. QED
    BY <2>3, <2>12, <2>13, <2>14 DEF Short
<1>18. TooLight(r, sub, nbh, p)
  <2>1. p \in sub[r.pRoot] /\ r.up[p] = g
    BY <1>1, <1>3, <1>6
  <2>2. p # r.pRoot => r.up[p] \in sub[r.pRoot] /\ Short(r, nbh, p)
    BY <1>6, <1>17, <2>1
  <2>3. \A n \in Elem : p = r.pRoot \/ n # r.up[p] => Even(r, nbh, n)
    <3>1. p = r.pRoot => g \notin Elem
      BY <1>2, <1>3, <1>6, Nodes DEF Shape, UpLinks
    <3>2. QED
      BY <1>13, <2>1, <3>1
  <2>4. \A n \in Elem, z \in Side : RedPair(r, n, z) => r.kid[z][n] = p \/ n = p
    BY <1>6, <1>14
  <2>5. QED
    BY <1>7, <1>9, <1>15, <1>16, <2>1, <2>2, <2>3, <2>4 DEF TooLight
<1>19. p \notin sub[x] /\ sub[x] \subseteq sub[p]
  <2>1. p \notin sub[t.kid[d][p]] /\ sub[t.kid[d][p]] \subseteq sub[p]
    BY <1>1, <1>2, ShapeFacts
  <2>2. QED
    BY <1>1, <2>1
<1>20. QED
  BY <1>1, <1>5, <1>18, <1>19

(* A turn of the loop of the removal.                                      *)
LEMMA DeleteTurnStep ==
    ASSUME NEW t \in Tree, NEW sub, NEW bh, NEW x, TooLight(t, sub, bh, x),
           ~ DeleteOver(t, x), NEW turn, turn = DeleteTurn(t, x)
    PROVE  /\ turn.tree \in Tree /\ turn.tree.count = t.count
           /\ \E new, nbh : /\ TooLight(turn.tree, new, nbh, turn.at)
                            /\ new[turn.tree.pRoot] = sub[t.pRoot]
                            /\ \/ DeleteOver(turn.tree, turn.at)
                               \/ /\ turn.at # Nil /\ turn.at \notin sub[x]
                                  /\ sub[x] \subseteq new[turn.at]
<1>1. PICK p, d, o : p = t.up[x] /\ d = SideOf(t, x) /\ o = Other(d)
  OBVIOUS
<1>2. PICK t1 : t1 = BlackSibling(t, x)
  OBVIOUS
<1>3. PICK s : s = t1.kid[o][p]
  OBVIOUS
<1>4. /\ t1 \in Tree /\ t1.count = t.count /\ ~ DeleteOver(t1, x)
      /\ t1.up[x] = p /\ SideOf(t1, x) = d /\ t1.color[t1.kid[o][p]] = "black"
      /\ \E new, nbh : /\ TooLight(t1, new, nbh, x) /\ new[t1.pRoot] = sub[t.pRoot]
                       /\ new[x] = sub[x]
  BY <1>1, <1>2, BlackSiblingStep
<1>5. PICK sub1, bh1 : /\ TooLight(t1, sub1, bh1, x) /\ sub1[t1.pRoot] = sub[t.pRoot]
                       /\ sub1[x] = sub[x]
  BY <1>4
<1>6. Around(t1, x, p, d, o, s) /\ t1.color[s] = "black"
  BY <1>1, <1>3, <1>4 DEF Around
<1>7. CASE \A z \in Side : t1.color[t1.kid[z][s]] = "black"
  <2>1. PICK r : r = Paint(t1, s, "red")
    OBVIOUS
  <2>2. turn = [tree |-> r, at |-> p]
    BY Zenon, <1>1, <1>2, <1>3, <1>7, <2>1 DEF DeleteTurn
  <2>3. /\ r \in Tree /\ SameLinks(t1, r)
        /\ p \notin sub1[x] /\ sub1[x] \subseteq sub1[p]
        /\ \E nbh : TooLight(r, sub1, nbh, p)
    BY <1>4, <1>5, <1>6, <1>7, <2>1, BothBlackStep
  <2>4. r.count = t.count /\ sub1[r.pRoot] = sub[t.pRoot]
    BY <1>4, <1>5, <2>3 DEF SameLinks
  <2>5. p # Nil /\ p \notin sub[x] /\ sub[x] \subseteq sub1[p]
    <3>1. p # Nil
      BY <1>1, ShortNodeAt
    <3>2. QED
      BY <1>5, <2>3, <3>1
  <2>6. turn.tree = r /\ turn.at = p
    BY <2>2
  <2>7. QED
    BY <2>3, <2>4, <2>5, <2>6
<1>8. CASE ~ \A z \in Side : t1.color[t1.kid[z][s]] = "black"
  <2>1. PICK t2, r : t2 = RedFar(t1, s, d) /\ r = Balance(t2, p, d)
    OBVIOUS
  <2>2. turn = [tree |-> r, at |-> r.pRoot]
    BY Zenon, <1>1, <1>2, <1>3, <1>8, <2>1 DEF DeleteTurn
  <2>3. /\ t2 \in Tree /\ t2.count = t1.count /\ ~ DeleteOver(t2, x)
        /\ t2.up[x] = p /\ SideOf(t2, x) = d /\ t2.color[t2.kid[o][p]] = "black"
        /\ t2.color[t2.kid[o][t2.kid[o][p]]] = "red"
        /\ \E new, nbh : /\ TooLight(t2, new, nbh, x) /\ new[t2.pRoot] = sub1[t1.pRoot]
                         /\ new[x] = sub1[x]
    BY <1>4, <1>5, <1>6, <1>8, <2>1, RedFarStep
  <2>4. PICK sub2, bh2 : TooLight(t2, sub2, bh2, x) /\ sub2[t2.pRoot] = sub1[t1.pRoot]
    BY <2>3
  <2>5. PICK u : u = t2.kid[o][p]
    OBVIOUS
  <2>6. Around(t2, x, p, d, o, u) /\ t2.color[u] = "black" /\ t2.color[t2.kid[o][u]] = "red"
    BY <1>1, <2>3, <2>5 DEF Around
  <2>7. /\ r \in Tree /\ r.count = t2.count
        /\ \E new, nbh : TooLight(r, new, nbh, r.pRoot) /\ new[r.pRoot] = sub2[t2.pRoot]
    BY <2>1, <2>3, <2>4, <2>6, BalanceStep
  <2>8. turn.tree = r /\ turn.at = r.pRoot /\ DeleteOver(r, r.pRoot)
    BY <2>2 DEF DeleteOver
  <2>9. QED
    BY <1>4, <1>5, <2>3, <2>4, <2>7, <2>8
<1>9. QED
  BY <1>7, <1>8

(* What follows the loop of the removal.                                   *)
LEMMA DeleteEndStep ==
    ASSUME NEW t \in Tree, NEW sub, NEW bh, NEW x, TooLight(t, sub, bh, x),
           DeleteOver(t, x), NEW r, r = DeleteEnd(t, x)
    PROVE  /\ r \in Tree /\ SameLinks(t, r) /\ \E nbh : Balanced(r, sub, nbh)
<1>1. x \in Node /\ "black" \in Colour
  <2>1. Shape(t, sub) /\ x \in sub[t.pRoot] \union {Nil}
    BY DEF TooLight
  <2>2. sub[t.pRoot] \subseteq Elem
    BY <2>1, ShapeFacts, TreeTypes
  <2>3. QED
    BY <2>1, <2>2, Nodes DEF Colour
<1>2. /\ r \in Tree /\ SameLinks(t, r)
      /\ \A m \in Node : r.color[m] = IF m = x THEN "black" ELSE t.color[m]
  BY <1>1, PaintLinks DEF DeleteEnd
<1>3. r.kid = t.kid /\ r.up = t.up /\ r.pRoot = t.pRoot
  BY <1>2 DEF SameLinks
<1>4. Shape(t, sub) /\ Heights(bh) /\ t.color[Nil] = "black"
  BY DEF TooLight
<1>5. Shape(r, sub)
  <2>1. ASSUME NEW m \in Elem \ sub[t.pRoot] PROVE r.color[m] = "black"
    <3>1. m \in Node /\ t.color[m] = "black"
      BY <1>4, Nodes DEF Shape, Outside
    <3>2. QED
      BY <1>2, <3>1
  <2>2. QED
    BY <1>2, <1>4, <2>1, PaintedShape
<1>6. \A n \in Elem, d \in Side : ~ RedPair(r, n, d)
  <2>1. ASSUME NEW n \in Elem, NEW d \in Side, RedPair(r, n, d) PROVE FALSE
    <3>1. n \in Node /\ t.kid[d][n] \in Node
      BY Zenon, Nodes, TreeTypes
    <3>2. n # x /\ t.kid[d][n] # x /\ RedPair(t, n, d)
      BY <1>2, <1>3, <2>1, <3>1 DEF RedPair
    <3>3. QED
      BY <3>2 DEF TooLight
  <2>2. QED
    BY <2>1
<1>7. r.color[Nil] = "black" /\ r.color[r.pRoot] = "black"
  <2>1. t.pRoot \in Node /\ t.color[t.pRoot] \in Colour
    BY TreeTypes
  <2>2. t.pRoot # x => t.color[t.pRoot] = "black"
    BY <2>1 DEF TooLight, Colour
  <2>3. QED
    BY <1>2, <1>3, <1>4, <2>1, <2>2, Nodes
<1>8. CASE x = t.pRoot
  <2>1. PICK nbh : nbh = [m \in Node |-> IF m = x /\ x # Nil /\ t.color[x] = "red"
                                         THEN bh[m] + 1 ELSE bh[m]]
    BY Zenon
  <2>2. Heights(nbh)
    <3>1. bh \in [Node -> Nat] /\ bh[Nil] = 0
      BY <1>4 DEF Heights
    <3>2. nbh \in [Node -> Nat]
      BY <2>1, <3>1
    <3>3. nbh[Nil] = 0
      BY <2>1, <3>1, Nodes
    <3>4. QED
      BY <3>2, <3>3 DEF Heights
  <2>3. ASSUME NEW m \in Elem PROVE Even(r, nbh, m)
    <3>1. Even(t, bh, m) /\ m \in Node /\ m # Nil
      BY <1>8, Nodes DEF TooLight
    <3>2. ASSUME NEW z \in Side PROVE nbh[t.kid[z][m]] = bh[t.kid[z][m]]
      <4>1. t.kid[z][m] \in Node
        BY <3>1, TreeTypes
      <4>2. t.kid[z][m] = x => x = Nil
        BY <1>4, <1>8, <3>1 DEF Shape, UpLinks
      <4>3. QED
        BY <2>1, <4>1, <4>2
    <3>3. CASE m = x /\ t.color[x] = "red"
      <4>1. Weight(t, m) = 0 /\ Weight(r, m) = 1
        BY <1>2, <3>1, <3>3 DEF Weight
      <4>2. nbh[m] = bh[m] + 1
        BY <2>1, <3>1, <3>3
      <4>3. ASSUME NEW z \in Side PROVE nbh[m] = nbh[t.kid[z][m]] + Weight(r, m)
        <5>1. bh[m] = bh[t.kid[z][m]] + 0
          BY <3>1, <4>1 DEF Even
        <5>2. bh[t.kid[z][m]] \in Nat
          BY <1>4, Weights
        <5>3. nbh[t.kid[z][m]] = bh[t.kid[z][m]]
          BY <3>2
        <5>4. QED
          BY <4>1, <4>2, <5>1, <5>2, <5>3
      <4>4. QED
        BY <1>3, <4>3 DEF Even
    <3>4. CASE ~ (m = x /\ t.color[x] = "red")
      <4>1. Weight(r, m) = Weight(t, m)
        <5>1. t.color[m] \in Colour
          BY <3>1, TreeTypes
        <5>2. QED
          BY <1>2, <3>1, <3>4, <5>1 DEF Weight, Colour
      <4>2. nbh[m] = bh[m]
        BY <2>1, <3>1, <3>4
      <4>3. QED
        BY <1>3, <3>1, <3>2, <4>1, <4>2 DEF Even
    <3>5. QED
      BY <3>3, <3>4
  <2>4. Balanced(r, sub, nbh)
    BY <1>5, <1>6, <1>7, <2>2, <2>3 DEF Balanced
  <2>5. QED
    BY <1>2, <2>4
<1>9. CASE x # t.pRoot
  <2>1. t.color[x] = "red" /\ x # Nil /\ x \in Elem
    BY <1>1, <1>4, <1>9, Nodes DEF DeleteOver
  <2>2. PICK p, d, s : p = t.up[x] /\ d = SideOf(t, x) /\ s = t.kid[Other(d)][p]
    OBVIOUS
  <2>3. PICK nbh : nbh = [m \in Node |-> IF m = x THEN bh[m] + 1 ELSE bh[m]]
    BY Zenon
  <2>4. /\ p \in sub[t.pRoot] /\ t.kid[d][p] = x
        /\ bh[s] = bh[x] + 1 /\ bh[p] = bh[x] + 1 + Weight(t, p)
    BY <1>9, <2>2 DEF TooLight, Short
  <2>5. p \in Elem /\ d \in Side /\ Other(d) \in Side /\ (\A z \in Side : z = d \/ z = Other(d))
    <3>1. p \in Elem
      BY <1>4, <2>4, ShapeFacts, TreeTypes
    <3>2. d \in Side
      BY <2>2 DEF SideOf, Side
    <3>3. QED
      BY <3>1, <3>2, Sides
  <2>6. p # x /\ s # x /\ p \in Node /\ s \in Node
    <3>1. p # x
      BY <1>4, <2>4, <2>5, ShapeFacts
    <3>2. bh[x] \in Nat
      BY <1>1, <1>4, Weights
    <3>3. s # x
      BY <2>4, <3>2
    <3>4. QED
      BY <2>2, <2>5, <3>1, <3>3, TreeTypes, Nodes
  <2>7. Heights(nbh)
    <3>1. bh \in [Node -> Nat] /\ bh[Nil] = 0
      BY <1>4 DEF Heights
    <3>2. nbh \in [Node -> Nat]
      BY <2>3, <3>1
    <3>3. nbh[Nil] = 0
      BY <2>1, <2>3, <3>1, Nodes
    <3>4. QED
      BY <3>2, <3>3 DEF Heights
  <2>8. ASSUME NEW m \in Elem PROVE Even(r, nbh, m)
    <3>1. m \in Node
      BY Nodes
    <3>2. CASE m = p
      <4>1. nbh[p] = bh[p] /\ nbh[x] = bh[x] + 1 /\ nbh[s] = bh[s]
        BY <1>1, <2>3, <2>6
      <4>2. Weight(r, p) = Weight(t, p)
        BY <1>2, <2>6 DEF Weight
      <4>3. nbh[p] = nbh[x] + Weight(r, p) /\ nbh[p] = nbh[s] + Weight(r, p)
        BY <2>4, <4>1, <4>2
      <4>4. r.kid[d][p] = x /\ r.kid[Other(d)][p] = s
        BY <1>3, <2>2, <2>4
      <4>5. QED
        BY <2>5, <3>2, <4>3, <4>4 DEF Even
    <3>3. CASE m # p
      <4>1. Even(t, bh, m)
        BY <1>9, <2>2, <3>3 DEF TooLight
      <4>2. ASSUME NEW z \in Side PROVE nbh[t.kid[z][m]] = bh[t.kid[z][m]]
        <5>1. t.kid[z][m] # x
          BY <1>4, <2>1, <2>2, <3>3 DEF Shape, UpLinks
        <5>2. QED
          BY <2>3, <3>1, <5>1, TreeTypes
      <4>3. CASE m = x
        <5>1. Weight(t, m) = 0 /\ Weight(r, m) = 1
          BY <1>2, <2>1, <3>1, <4>3 DEF Weight
        <5>2. nbh[m] = bh[m] + 1
          BY <2>3, <3>1, <4>3
        <5>3. ASSUME NEW z \in Side PROVE nbh[m] = nbh[t.kid[z][m]] + Weight(r, m)
          <6>1. bh[m] = bh[t.kid[z][m]] + 0
            BY <4>1, <5>1 DEF Even
          <6>2. bh[t.kid[z][m]] \in Nat
            BY <1>4, Weights
          <6>3. nbh[t.kid[z][m]] = bh[t.kid[z][m]]
            BY <4>2
          <6>4. QED
            BY <5>1, <5>2, <6>1, <6>2, <6>3
        <5>4. QED
          BY <1>3, <5>3 DEF Even
      <4>4. CASE m # x
        <5>1. Weight(r, m) = Weight(t, m) /\ nbh[m] = bh[m]
          BY <1>2, <2>3, <3>1, <4>4 DEF Weight
        <5>2. QED
          BY <1>3, <4>1, <4>2, <5>1 DEF Even
      <4>5. QED
        BY <4>3, <4>4
    <3>4. QED
      BY <3>2, <3>3
  <2>9. Balanced(r, sub, nbh)
    BY <1>5, <1>6, <1>7, <2>7, <2>8 DEF Balanced
  <2>10. QED
    BY <1>2, <2>9
<1>10. QED
  BY <1>8, <1>9

(* y, which has no child besides x, leaves the tree t, and x moves up.     *)
Without(t, r, y, x) ==
    /\ r \in Tree /\ r.count = t.count
    /\ r.pRoot = IF y = t.pRoot THEN x ELSE t.pRoot
    /\ \A m \in Elem, z \in Side :
          r.kid[z][m] = IF m = y THEN Nil ELSE IF t.kid[z][m] = y THEN x ELSE t.kid[z][m]
    /\ r.kid["left"][Nil] = Nil
    /\ \A m \in Node : r.up[m] = IF m = y THEN Nil ELSE IF m = x THEN t.up[y] ELSE t.up[m]
    /\ \A m \in Node : r.color[m] = IF m = y THEN "black" ELSE t.color[m]

(* The only child of a node.                                               *)
LEMMA OnlyChildIs ==
    ASSUME NEW t \in Tree, NEW sub, Shape(t, sub), NEW y \in sub[t.pRoot],
           Nil \in {t.kid["left"][y], t.kid["right"][y]}, NEW x, x = OnlyChild(t, y)
    PROVE  /\ y \in Elem /\ x \in Node /\ x # y
           /\ \A z \in Side : t.kid[z][y] \in {x, Nil}
           /\ \E z \in Side : t.kid[z][y] = x
           /\ x # Nil => x \in sub[t.pRoot] /\ t.up[x] = y /\ x # t.pRoot
<1>1. y \in Elem /\ y \in Node /\ y # Nil
  BY Zenon, ShapeFacts, TreeTypes, Nodes
<1>2. (\A z \in Side : t.kid[z][y] \in {x, Nil}) /\ \E z \in Side : t.kid[z][y] = x
  BY DEF OnlyChild, Side
<1>3. x \in Node /\ x # y
  BY <1>1, <1>2, ShapeFacts, TreeTypes
<1>4. ASSUME x # Nil PROVE x \in sub[t.pRoot] /\ t.up[x] = y /\ x # t.pRoot
  <2>1. x \in sub[t.pRoot] /\ t.up[x] = y
    BY <1>1, <1>2, <1>4, ShapeFacts DEF Shape, UpLinks
  <2>2. x # t.pRoot
    BY <1>1, <1>4, <2>1 DEF Shape, UpLinks
  <2>3. QED
    BY <2>1, <2>2
<1>5. QED
  BY <1>1, <1>2, <1>3, <1>4

(* The links after rb_delete has moved x up.                               *)
UnlinkedLinks(t, r, y, x) ==
    /\ r \in Tree /\ r.count = t.count /\ r.color = t.color
    /\ r.pRoot = IF y = t.pRoot THEN x ELSE t.pRoot
    /\ \A m \in Elem, z \in Side :
          m # y => r.kid[z][m] = IF t.kid[z][m] = y THEN x ELSE t.kid[z][m]
    /\ \A z \in Side : r.kid[z][y] = t.kid[z][y]
    /\ r.kid["left"][Nil] = Nil
    /\ \A m \in Node : r.up[m] = IF m = x THEN t.up[y] ELSE t.up[m]

(* What unlinking y writes.                                                *)
LEMMA UnlinkIs ==
    ASSUME NEW t \in Tree, NEW sub, Shape(t, sub), NEW y \in sub[t.pRoot],
           Nil \in {t.kid["left"][y], t.kid["right"][y]}, NEW x, x = OnlyChild(t, y)
    PROVE  UnlinkedLinks(t, Unlink(t, y), y, x)
<1>1. /\ y \in Elem /\ x \in Node /\ x # y
      /\ x # Nil => x \in sub[t.pRoot] /\ t.up[x] = y /\ x # t.pRoot
  BY OnlyChildIs
<1>2. PICK p, d, u, r : /\ p = t.up[y] /\ d = SideOf(t, y) /\ u = [t EXCEPT !.up[x] = p]
                        /\ r = Unlink(t, y)
  BY Zenon
<1>3. y \in Node /\ y # Nil /\ p \in Node /\ d \in Side
  BY <1>1, <1>2, Nodes, TreeTypes DEF SideOf, Side
<1>4. /\ u \in Tree /\ u.count = t.count /\ u.color = t.color /\ u.pRoot = t.pRoot
      /\ u.kid = t.kid /\ \A m \in Node : u.up[m] = IF m = x THEN p ELSE t.up[m]
  BY <1>1, <1>2, <1>3 DEF Tree
<1>5. u.up[y] = p /\ SideOf(u, y) = d
  BY <1>1, <1>2, <1>3, <1>4 DEF SideOf
<1>6. r = IF p = Nil THEN [u EXCEPT !.pRoot = x] ELSE [u EXCEPT !.kid[d][p] = x]
  BY Zenon, <1>2, <1>5 DEF Unlink, Hang
<1>7. y = t.pRoot <=> p = Nil
  BY <1>1, <1>2, <1>3 DEF Shape, Hangs, UpLinks
<1>8. /\ r \in Tree /\ r.count = t.count /\ r.color = t.color /\ r.up = u.up
      /\ r.pRoot = IF y = t.pRoot THEN x ELSE t.pRoot
      /\ \A m \in Node, z \in Side :
            r.kid[z][m] = IF p # Nil /\ m = p /\ z = d THEN x ELSE t.kid[z][m]
  BY Zenon, <1>1, <1>3, <1>4, <1>6, <1>7 DEF Tree
<1>9. /\ p # Nil => p \in Elem /\ p # y /\ t.kid[d][p] = y
      /\ \A m \in Elem, z \in Side : t.kid[z][m] = y => p # Nil /\ m = p /\ z = d
  <2>1. CASE y = t.pRoot
    BY <1>2, <1>3, <1>7, <2>1, Nodes DEF Shape, UpLinks
  <2>2. CASE y # t.pRoot
    <3>1. /\ p \in Elem /\ t.kid[d][p] = y /\ p # Nil
          /\ \A z \in Side : t.kid[z][p] = y => z = d
      BY <1>2, <1>7, <2>2, OnItsSide
    <3>2. p # y
      BY <1>3, <3>1, ShapeFacts
    <3>3. \A m \in Elem, z \in Side : t.kid[z][m] = y => m = p
      BY <1>2, <1>3 DEF Shape, UpLinks
    <3>4. QED
      BY <3>1, <3>2, <3>3
  <2>3. QED
    BY <2>1, <2>2
<1>10. \A m \in Elem, z \in Side :
          r.kid[z][m] = IF t.kid[z][m] = y THEN x ELSE t.kid[z][m]
  BY Zenon, <1>8, <1>9, Nodes
<1>11. \A z \in Side : r.kid[z][y] = t.kid[z][y]
  BY <1>3, <1>8, <1>9
<1>12. r.kid["left"][Nil] = Nil
  <2>1. t.kid["left"][Nil] = Nil /\ "left" \in Side /\ Nil \in Node
    BY Nodes DEF Shape, UpLinks, Side
  <2>2. QED
    BY <1>8, <2>1
<1>13. UnlinkedLinks(t, r, y, x)
  BY <1>2, <1>4, <1>8, <1>10, <1>11, <1>12 DEF UnlinkedLinks
<1>14. QED
  BY <1>2, <1>13

(* The memory of one node is given back.                                   *)
LEMMA ReleasedIs ==
    ASSUME NEW t \in Tree, NEW y \in Elem, NEW r, r = Released(t, {y})
    PROVE  /\ r \in Tree /\ r.count = t.count /\ r.pRoot = t.pRoot
           /\ \A m \in Node, z \in Side : r.kid[z][m] = IF m = y THEN Nil ELSE t.kid[z][m]
           /\ \A m \in Node : r.up[m] = IF m = y THEN Nil ELSE t.up[m]
           /\ \A m \in Node : r.color[m] = IF m = y THEN "black" ELSE t.color[m]
<1> DEFINE k == [d \in Side |-> [n \in Node |-> IF n \in {y} THEN Nil ELSE t.kid[d][n]]]
           u == [n \in Node |-> IF n \in {y} THEN Nil ELSE t.up[n]]
           c == [n \in Node |-> IF n \in {y} THEN "black" ELSE t.color[n]]
<1>1. r = [t EXCEPT !.kid = k, !.up = u, !.color = c]
  BY DEF Released
<1>2. /\ k \in [Side -> [Node -> Node]] /\ u \in [Node -> Node] /\ c \in [Node -> Colour]
      /\ \A m \in Node, z \in Side : k[z][m] = IF m = y THEN Nil ELSE t.kid[z][m]
      /\ \A m \in Node : u[m] = IF m = y THEN Nil ELSE t.up[m]
      /\ \A m \in Node : c[m] = IF m = y THEN "black" ELSE t.color[m]
  BY Nodes, TreeTypes DEF Colour
<1> HIDE DEF k, u, c
<1>3. r \in Tree /\ r.kid = k /\ r.up = u /\ r.color = c /\ r.count = t.count /\ r.pRoot = t.pRoot
  BY Zenon, <1>1, <1>2 DEF Tree
<1>4. QED
  BY Zenon, <1>2, <1>3

(* A node that is unlinked and released is gone, and the rest is as it was.*)
LEMMA WithoutIs ==
    ASSUME NEW t \in Tree, NEW sub, Shape(t, sub), NEW y \in sub[t.pRoot],
           Nil \in {t.kid["left"][y], t.kid["right"][y]}, NEW x, x = OnlyChild(t, y)
    PROVE  Without(t, Released(Unlink(t, y), {y}), y, x)
<1>1. PICK u, r : u = Unlink(t, y) /\ r = Released(u, {y})
  OBVIOUS
<1>2. y \in Elem /\ y \in Node /\ y # Nil
  BY OnlyChildIs, Nodes
<1>3. UnlinkedLinks(t, u, y, x)
  BY <1>1, UnlinkIs
<1>4. u \in Tree
  BY <1>3 DEF UnlinkedLinks
<1>5. /\ r \in Tree /\ r.count = u.count /\ r.pRoot = u.pRoot
      /\ \A m \in Node, z \in Side : r.kid[z][m] = IF m = y THEN Nil ELSE u.kid[z][m]
      /\ \A m \in Node : r.up[m] = IF m = y THEN Nil ELSE u.up[m]
      /\ \A m \in Node : r.color[m] = IF m = y THEN "black" ELSE u.color[m]
  BY <1>1, <1>2, <1>4, ReleasedIs
<1>6. r.kid["left"][Nil] = Nil
  <2>1. u.kid["left"][Nil] = Nil /\ "left" \in Side /\ Nil \in Node
    BY <1>3, Nodes DEF UnlinkedLinks, Side
  <2>2. QED
    BY <1>2, <1>5, <2>1
<1>7. \A m \in Elem, z \in Side :
          r.kid[z][m] = IF m = y THEN Nil ELSE IF t.kid[z][m] = y THEN x ELSE t.kid[z][m]
  <2>1. \A m \in Elem, z \in Side :
          m # y => u.kid[z][m] = IF t.kid[z][m] = y THEN x ELSE t.kid[z][m]
    BY <1>3 DEF UnlinkedLinks
  <2>2. QED
    BY <1>5, <2>1, Nodes
<1>8. r.count = t.count /\ r.pRoot = IF y = t.pRoot THEN x ELSE t.pRoot
  BY <1>3, <1>5 DEF UnlinkedLinks
<1>9. \A m \in Node : r.up[m] = IF m = y THEN Nil ELSE IF m = x THEN t.up[y] ELSE t.up[m]
  <2>1. \A m \in Node : u.up[m] = IF m = x THEN t.up[y] ELSE t.up[m]
    BY Zenon, <1>3 DEF UnlinkedLinks
  <2>2. QED
    BY <1>5, <2>1
<1>10. \A m \in Node : r.color[m] = IF m = y THEN "black" ELSE t.color[m]
  <2>1. u.color = t.color
    BY <1>3 DEF UnlinkedLinks
  <2>2. QED
    BY <1>5, <2>1
<1>11. Without(t, r, y, x)
  BY <1>5, <1>6, <1>7, <1>8, <1>9, <1>10 DEF Without
<1>12. QED
  BY <1>1, <1>11

(* The elements below each node once y is gone.                            *)
Pruned(sub, y) == [m \in Node |-> IF m = y THEN {y} ELSE sub[m] \ {y}]

(* Order and links of what is left.                                        *)
LEMMA WithoutShape ==
    ASSUME NEW t \in Tree, NEW sub, Shape(t, sub), NEW y \in sub[t.pRoot],
           Nil \in {t.kid["left"][y], t.kid["right"][y]}, NEW x, x = OnlyChild(t, y),
           NEW r, Without(t, r, y, x), NEW new, new = Pruned(sub, y)
    PROVE  Shape(r, new) /\ new[r.pRoot] = sub[t.pRoot] \ {y}
<1>1. /\ y \in Elem /\ x \in Node /\ x # y
      /\ \A z \in Side : t.kid[z][y] \in {x, Nil}
      /\ \E z \in Side : t.kid[z][y] = x
      /\ x # Nil => x \in sub[t.pRoot] /\ t.up[x] = y /\ x # t.pRoot
  BY OnlyChildIs
<1>2. /\ r \in Tree
      /\ r.pRoot = IF y = t.pRoot THEN x ELSE t.pRoot
      /\ \A m \in Elem, z \in Side :
            r.kid[z][m] = IF m = y THEN Nil ELSE IF t.kid[z][m] = y THEN x ELSE t.kid[z][m]
      /\ r.kid["left"][Nil] = Nil
      /\ \A m \in Node : r.up[m] = IF m = y THEN Nil ELSE IF m = x THEN t.up[y] ELSE t.up[m]
      /\ \A m \in Node : r.color[m] = IF m = y THEN "black" ELSE t.color[m]
  BY DEF Without
<1>3. y \in Node /\ y # Nil /\ t.pRoot \in Node
  BY <1>1, Nodes, TreeTypes
<1>4. /\ \A n \in Node : sub[n] \in SUBSET Elem
      /\ sub[Nil] = {}
      /\ \A n \in Elem : n \in sub[n] /\ IsFiniteSet(sub[n])
      /\ \A n \in Elem, m \in Elem : m \in sub[n] <=> m = n \/ \E z \in Side : m \in sub[t.kid[z][n]]
      /\ \A n \in Elem, z \in Side : sub[t.kid[z][n]] \subseteq sub[n] /\ n \notin sub[t.kid[z][n]]
  BY ShapeFacts DEF Shape, Subtrees
<1>5. sub[x] = sub[y] \ {y}
  <2>1. y \notin sub[x] /\ sub[x] \subseteq sub[y]
    BY <1>1, <1>4
  <2>2. ASSUME NEW m \in sub[y], m # y PROVE m \in sub[x]
    <3>1. m \in Elem
      BY <1>3, <1>4
    <3>2. PICK z \in Side : m \in sub[t.kid[z][y]]
      BY <1>1, <1>4, <2>2, <3>1
    <3>3. QED
      BY <1>1, <1>4, <3>2
  <2>3. QED
    BY <2>1, <2>2
<1>6. /\ new \in [Node -> SUBSET Elem]
      /\ \A m \in Node : new[m] = IF m = y THEN {y} ELSE sub[m] \ {y}
      /\ new[x] = sub[y] \ {y} /\ new[Nil] = {}
  BY <1>1, <1>3, <1>4, <1>5, Nodes DEF Pruned
(* What hangs below a node that is not y is what hung there, but y. *)
<1>7. ASSUME NEW n \in Elem, n # y, NEW z \in Side
      PROVE  new[r.kid[z][n]] = sub[t.kid[z][n]] \ {y}
  <2>1. t.kid[z][n] \in Node
    BY TreeTypes, Nodes
  <2>2. CASE t.kid[z][n] = y
    BY <1>2, <1>6, <1>7, <2>2
  <2>3. CASE t.kid[z][n] # y
    BY <1>2, <1>6, <1>7, <2>1, <2>3
  <2>4. QED
    BY <2>2, <2>3
<1>8. Subtrees(r, new)
  <2>1. ASSUME NEW n \in Elem, NEW m \in Elem
        PROVE  m \in new[n] <=> m = n \/ \E z \in Side : m \in new[r.kid[z][n]]
    <3>1. CASE n = y
      BY <1>1, <1>2, <1>3, <1>6, <3>1
    <3>2. CASE n # y
      <4>1. new[n] = sub[n] \ {y} /\ \A z \in Side : new[r.kid[z][n]] = sub[t.kid[z][n]] \ {y}
        BY Zenon, <1>6, <1>7, <3>2, Nodes
      <4>2. m \in sub[n] <=> m = n \/ \E z \in Side : m \in sub[t.kid[z][n]]
        BY <1>4
      <4>3. QED
        BY <3>2, <4>1, <4>2
    <3>3. QED
      BY <3>1, <3>2
  <2>2. ASSUME NEW n \in Elem PROVE IsFiniteSet(new[n])
    <3>1. new[n] \subseteq sub[n] /\ IsFiniteSet(sub[n])
      <4>1. n \in Node /\ n \in sub[n] /\ IsFiniteSet(sub[n])
        BY <1>4, Nodes
      <4>2. new[n] = IF n = y THEN {y} ELSE sub[n] \ {y}
        BY <1>6, <4>1
      <4>3. QED
        BY <4>1, <4>2
    <3>2. QED
      BY <3>1, FS_Subset
  <2>3. QED
    BY <1>6, <2>1, <2>2 DEF Subtrees
<1>9. Sided(r, new)
  <2>1. ASSUME NEW n \in Elem, NEW z \in Side, NEW m \in new[r.kid[z][n]] PROVE Before(z, m, n)
    <3>1. n # y
      BY <1>2, <1>6, <2>1
    <3>2. m \in sub[t.kid[z][n]]
      BY <1>7, <2>1, <3>1
    <3>3. QED
      BY <3>2 DEF Shape, Sided
  <2>2. QED
    BY <2>1 DEF Sided
<1>10. UpLinks(r)
  <2>1. ASSUME NEW n \in Elem, NEW z \in Side, r.kid[z][n] # Nil PROVE r.up[r.kid[z][n]] = n
    <3>1. n # y /\ t.kid[z][n] \in Node /\ n \in Node
      BY Zenon, <1>2, <2>1, TreeTypes, Nodes
    <3>2. CASE t.kid[z][n] = y
      <4>1. r.kid[z][n] = x /\ t.up[y] = n
        BY <1>2, <1>3, <3>1, <3>2 DEF Shape, UpLinks
      <4>2. QED
        BY <1>1, <1>2, <4>1
    <3>3. CASE t.kid[z][n] # y
      <4>1. r.kid[z][n] = t.kid[z][n] /\ t.kid[z][n] # Nil /\ t.up[t.kid[z][n]] = n
        BY <1>2, <2>1, <3>1, <3>3 DEF Shape, UpLinks
      <4>2. t.kid[z][n] # x
        BY <1>1, <3>1, <4>1
      <4>3. QED
        BY <1>2, <3>1, <3>3, <4>1, <4>2
    <3>4. QED
      BY <3>2, <3>3
  <2>2. ASSUME r.pRoot # Nil PROVE r.up[r.pRoot] = Nil
    <3>1. t.pRoot # Nil => t.up[t.pRoot] = Nil
      BY DEF Shape, UpLinks
    <3>2. CASE y = t.pRoot
      BY <1>1, <1>2, <1>3, <3>1, <3>2
    <3>3. CASE y # t.pRoot
      BY <1>1, <1>2, <1>3, <2>2, <3>1, <3>3
    <3>4. QED
      BY <3>2, <3>3
  <2>3. QED
    BY <1>2, <2>1, <2>2 DEF UpLinks
<1>11. new[r.pRoot] = sub[t.pRoot] \ {y}
  BY <1>2, <1>3, <1>6
<1>12. Hangs(r, new)
  <2>1. ASSUME NEW n \in new[r.pRoot], n # r.pRoot
        PROVE  r.up[n] # Nil /\ \E z \in Side : r.kid[z][r.up[n]] = n
    <3>1. n \in sub[t.pRoot] /\ n # y /\ n \in Elem /\ n \in Node
      BY Zenon, <1>3, <1>4, <1>11, <2>1, Nodes
    <3>2. CASE n = x
      <4>1. y # t.pRoot
        BY <1>2, <2>1, <3>2
      <4>2. t.up[y] \in Elem /\ t.up[y] # y /\ SideOf(t, y) \in Side /\ t.kid[SideOf(t, y)][t.up[y]] = y
        <5>1. t.up[y] \in Elem /\ SideOf(t, y) \in Side /\ t.kid[SideOf(t, y)][t.up[y]] = y
          BY <4>1, OnItsSide
        <5>2. QED
          BY <5>1, ShapeFacts
      <4>3. r.up[n] = t.up[y]
        BY <1>1, <1>2, <3>2
      <4>4. r.kid[SideOf(t, y)][t.up[y]] = x
        BY <1>2, <4>2
      <4>5. QED
        BY <3>2, <4>2, <4>3, <4>4, Nodes
    <3>3. CASE n # x
      <4>1. n # t.pRoot
        BY <1>2, <2>1, <3>1
      <4>2. t.up[n] \in Elem /\ SideOf(t, n) \in Side /\ t.kid[SideOf(t, n)][t.up[n]] = n
        BY <3>1, <4>1, OnItsSide
      <4>3. t.up[n] # y /\ n # Nil
        BY <1>1, <3>1, <3>3, <4>2, Nodes
      <4>4. r.up[n] = t.up[n]
        BY <1>2, <3>1, <3>3
      <4>5. r.kid[SideOf(t, n)][t.up[n]] = n
        BY <1>2, <3>1, <4>2, <4>3
      <4>6. QED
        BY <4>2, <4>4, <4>5, Nodes
    <3>4. QED
      BY <3>2, <3>3
  <2>2. QED
    BY <2>1 DEF Hangs
<1>13. Outside(r, new)
  <2>1. ASSUME NEW n \in Elem \ new[r.pRoot]
        PROVE  (\A z \in Side : r.kid[z][n] = Nil) /\ r.up[n] = Nil /\ r.color[n] = "black"
    <3>1. CASE n = y
      BY <1>1, <1>2, <1>3, <3>1
    <3>2. CASE n # y
      <4>1. n \in Elem \ sub[t.pRoot] /\ n \in Node /\ n # Nil
        BY <1>11, <2>1, <3>2, Nodes
      <4>2. /\ \A z \in Side : t.kid[z][n] = Nil
            /\ t.up[n] = Nil /\ t.color[n] = "black"
        BY <4>1 DEF Shape, Outside
      <4>3. n # x
        BY <1>1, <4>1
      <4>4. QED
        BY <1>2, <1>3, <3>2, <4>1, <4>2, <4>3
    <3>3. QED
      BY <3>1, <3>2
  <2>2. QED
    BY Zenon, <2>1 DEF Outside
<1>14. QED
  BY <1>8, <1>9, <1>10, <1>11, <1>12, <1>13 DEF Shape

(* The colours of what is left: a red node is not missed.                  *)
LEMMA WithoutStep ==
    ASSUME NEW t \in Tree, NEW sub, NEW bh, Balanced(t, sub, bh), NEW y \in sub[t.pRoot],
           Nil \in {t.kid["left"][y], t.kid["right"][y]}, NEW x, x = OnlyChild(t, y),
           NEW r, Without(t, r, y, x), NEW new, new = Pruned(sub, y)
    PROVE  \E nbh : IF t.color[y] = "red" THEN Balanced(r, new, nbh)
                                          ELSE TooLight(r, new, nbh, x)
<1>1. Shape(t, sub) /\ Heights(bh) /\ t.color[Nil] = "black" /\ t.color[t.pRoot] = "black"
      /\ (\A n \in Elem, z \in Side : ~ RedPair(t, n, z)) /\ \A n \in Elem : Even(t, bh, n)
  BY DEF Balanced
<1>2. /\ y \in Elem /\ x \in Node /\ x # y
      /\ \A z \in Side : t.kid[z][y] \in {x, Nil}
      /\ \E z \in Side : t.kid[z][y] = x
      /\ x # Nil => x \in sub[t.pRoot] /\ t.up[x] = y /\ x # t.pRoot
  BY <1>1, OnlyChildIs
<1>3. /\ r \in Tree
      /\ r.pRoot = IF y = t.pRoot THEN x ELSE t.pRoot
      /\ \A m \in Elem, z \in Side :
            r.kid[z][m] = IF m = y THEN Nil ELSE IF t.kid[z][m] = y THEN x ELSE t.kid[z][m]
      /\ \A m \in Node : r.up[m] = IF m = y THEN Nil ELSE IF m = x THEN t.up[y] ELSE t.up[m]
      /\ \A m \in Node : r.color[m] = IF m = y THEN "black" ELSE t.color[m]
  BY DEF Without
<1>4. y \in Node /\ y # Nil /\ Nil \in Node /\ t.pRoot \in Node
  BY <1>2, Nodes, TreeTypes
<1>5. Shape(r, new) /\ new[r.pRoot] = sub[t.pRoot] \ {y}
  BY <1>1, WithoutShape
<1>6. PICK nbh : nbh = [m \in Node |-> IF m = y THEN 1 ELSE bh[m]]
  BY Zenon
<1>7. \A m \in Node : nbh[m] = IF m = y THEN 1 ELSE bh[m]
  BY <1>6
<1>8. Heights(nbh)
  <2>1. bh \in [Node -> Nat] /\ bh[Nil] = 0
    BY <1>1 DEF Heights
  <2>2. nbh \in [Node -> Nat]
    BY <1>6, <2>1
  <2>3. nbh[Nil] = 0
    BY <1>4, <1>7, <2>1
  <2>4. QED
    BY <2>2, <2>3 DEF Heights
<1>9. bh[x] \in Nat /\ bh[y] \in Nat /\ bh[y] = bh[x] + Weight(t, y)
  <2>1. bh[x] \in Nat /\ bh[y] \in Nat
    BY <1>1, <1>2, <1>4, Weights
  <2>2. Even(t, bh, y)
    BY <1>1, <1>2
  <2>3. QED
    BY <1>2, <2>1, <2>2 DEF Even
<1>10. r.color[Nil] = "black"
  BY <1>1, <1>3, <1>4
(* The node whose child y was apart, all ways down are as long as they were.*)
<1>11. ASSUME NEW n \in Elem, \A z \in Side : t.kid[z][n] # y \/ t.color[y] = "red"
       PROVE  Even(r, nbh, n)
  <2>1. CASE n = y
    <3>1. Weight(r, y) = 1 /\ nbh[y] = 1 /\ nbh[Nil] = 0
      BY <1>3, <1>4, <1>7, <1>8 DEF Weight, Heights
    <3>2. \A z \in Side : r.kid[z][y] = Nil
      BY <1>2, <1>3
    <3>3. nbh[y] = nbh[Nil] + Weight(r, y)
      BY <3>1
    <3>4. QED
      BY <2>1, <3>2, <3>3 DEF Even
  <2>2. CASE n # y
    <3>1. n \in Node /\ Weight(r, n) = Weight(t, n) /\ nbh[n] = bh[n] /\ Even(t, bh, n)
      BY <1>1, <1>3, <1>7, <2>2, Nodes DEF Weight
    <3>2. ASSUME NEW z \in Side PROVE nbh[r.kid[z][n]] = bh[t.kid[z][n]]
      <4>1. t.kid[z][n] \in Node
        BY <3>1, TreeTypes
      <4>2. CASE t.kid[z][n] = y
        <5>1. Weight(t, y) = 0
          BY <1>11, <4>2 DEF Weight
        <5>2. bh[y] = bh[x]
          BY <1>9, <5>1
        <5>3. r.kid[z][n] = x /\ nbh[x] = bh[x]
          BY <1>2, <1>3, <1>7, <2>2, <4>2
        <5>4. QED
          BY <4>2, <5>2, <5>3
      <4>3. CASE t.kid[z][n] # y
        <5>1. r.kid[z][n] = t.kid[z][n]
          BY <1>3, <2>2, <4>3
        <5>2. QED
          BY <1>7, <4>1, <4>3, <5>1
      <4>4. QED
        BY <4>2, <4>3
    <3>3. QED
      BY <3>1, <3>2 DEF Even
  <2>3. QED
    BY <2>1, <2>2
<1>12. ASSUME NEW n \in Elem, NEW z \in Side, RedPair(r, n, z)
       PROVE  r.kid[z][n] = x /\ t.color[y] = "black"
  <2>1. n # y /\ n \in Node /\ t.kid[z][n] \in Node
    BY Zenon, <1>3, <1>4, <1>12, TreeTypes, Nodes DEF RedPair
  <2>2. t.color[n] = "red"
    BY <1>3, <1>12, <2>1 DEF RedPair
  <2>3. t.kid[z][n] = y
    <3>1. SUFFICES ASSUME t.kid[z][n] # y PROVE FALSE
      OBVIOUS
    <3>2. r.kid[z][n] = t.kid[z][n]
      BY <1>3, <2>1, <3>1
    <3>3. t.color[t.kid[z][n]] = "red"
      BY <1>3, <1>12, <2>1, <3>1, <3>2 DEF RedPair
    <3>4. QED
      BY <1>1, <2>2, <3>3 DEF RedPair
  <2>4. r.kid[z][n] = x
    BY <1>3, <2>1, <2>3
  <2>5. t.color[y] # "red"
    BY <1>1, <2>2, <2>3 DEF RedPair
  <2>6. QED
    BY <1>4, <2>4, <2>5, TreeTypes DEF Colour
<1>13. CASE t.color[y] = "red"
  <2>1. y # t.pRoot
    BY <1>1, <1>13
  <2>2. r.color[r.pRoot] = "black"
    BY <1>1, <1>3, <1>4, <2>1
  <2>3. \A n \in Elem : Even(r, nbh, n)
    BY Zenon, <1>11, <1>13
  <2>4. \A n \in Elem, z \in Side : ~ RedPair(r, n, z)
    BY <1>12, <1>13
  <2>5. Balanced(r, new, nbh)
    BY <1>5, <1>8, <1>10, <2>2, <2>3, <2>4 DEF Balanced
  <2>6. QED
    BY <1>13, <2>5
<1>14. CASE t.color[y] # "red"
  <2>1. t.color[y] = "black" /\ Weight(t, y) = 1 /\ bh[y] = bh[x] + 1
    <3>1. t.color[y] = "black"
      BY <1>4, <1>14, TreeTypes DEF Colour
    <3>2. Weight(t, y) = 1
      BY <3>1 DEF Weight
    <3>3. QED
      BY <1>9, <3>1, <3>2
  <2>2. PICK p, d, s : p = t.up[y] /\ d = SideOf(t, y) /\ s = t.kid[Other(d)][p]
    OBVIOUS
  <2>3. r.up[x] = p
    BY <1>2, <1>3, <2>2
  <2>4. x = r.pRoot => y = t.pRoot
    <3>1. ASSUME x = r.pRoot, y # t.pRoot PROVE FALSE
      <4>1. t.pRoot # Nil
        BY <1>1 DEF Shape, Subtrees
      <4>2. QED
        BY <1>2, <1>3, <3>1, <4>1
    <3>2. QED
      BY <3>1
  <2>5. y # t.pRoot => x # r.pRoot /\ p \in new[r.pRoot] /\ Short(r, nbh, x)
    <3>1. SUFFICES ASSUME y # t.pRoot PROVE x # r.pRoot /\ p \in new[r.pRoot] /\ Short(r, nbh, x)
      OBVIOUS
    <3>2. /\ p \in Elem /\ p \in sub[t.pRoot] /\ d \in Side /\ t.kid[d][p] = y
          /\ s # y
      BY <1>1, <2>2, <3>1, OnItsSide
    <3>3. p # y /\ p \in Node /\ Other(d) \in Side /\ s \in Node
      <4>1. p # y
        BY <1>1, <3>2, ShapeFacts
      <4>2. QED
        BY Zenon, <2>2, <3>2, <4>1, Nodes, Sides, TreeTypes
    <3>4. bh[p] = bh[y] + Weight(t, p) /\ bh[p] = bh[s] + Weight(t, p)
      <4>1. Even(t, bh, p)
        BY <1>1, <3>2
      <4>2. QED
        BY <2>2, <3>2, <3>3, <4>1 DEF Even
    <3>5. bh[s] \in Nat /\ bh[p] \in Nat /\ Weight(t, p) \in {0, 1}
      BY <1>1, <3>3, Weights
    <3>6. bh[s] = bh[x] + 1 /\ bh[p] = bh[x] + 1 + Weight(t, p)
      BY <1>9, <2>1, <3>4, <3>5
    <3>7. s # x
      BY <1>9, <3>6
    <3>8. r.kid[d][p] = x /\ r.kid[Other(d)][p] = s
      BY <1>3, <2>2, <3>2, <3>3
    <3>9. SideOf(r, x) = d
      <4>1. r.kid[d][r.up[x]] = x /\ r.kid[Other(d)][r.up[x]] # x
        BY <2>3, <3>7, <3>8
      <4>2. QED
        BY <3>2, <4>1, SideIs
    <3>10. nbh[s] = bh[s] /\ nbh[x] = bh[x] /\ nbh[p] = bh[p] /\ Weight(r, p) = Weight(t, p)
      BY <1>2, <1>3, <1>7, <3>2, <3>3 DEF Weight
    <3>11. nbh[s] = nbh[x] + 1 /\ nbh[p] = nbh[x] + 1 + Weight(r, p)
      BY <3>6, <3>10
    <3>12. Short(r, nbh, x)
      BY <2>3, <3>8, <3>9, <3>11 DEF Short
    <3>13. QED
      BY <1>5, <2>4, <3>1, <3>2, <3>3, <3>12
  <2>6. \A n \in Elem : x = r.pRoot \/ n # r.up[x] => Even(r, nbh, n)
    <3>1. ASSUME NEW n \in Elem, x = r.pRoot \/ n # p PROVE Even(r, nbh, n)
      <4>1. \A z \in Side : t.kid[z][n] # y
        <5>1. ASSUME NEW z \in Side, t.kid[z][n] = y PROVE FALSE
          <6>1. n = p /\ n # Nil
            BY <1>1, <1>4, <2>2, <5>1, Nodes DEF Shape, UpLinks
          <6>2. p = Nil
            BY <1>1, <1>4, <2>2, <2>4, <3>1, <6>1 DEF Shape, UpLinks
          <6>3. QED
            BY <6>1, <6>2
        <5>2. QED
          BY <5>1
      <4>2. QED
        BY <1>11, <4>1
    <3>2. QED
      BY <2>3, <3>1
  <2>7. r.color[r.pRoot] = "red" => r.pRoot = x
    BY <1>1, <1>3, <1>4
  <2>8. x \in new[r.pRoot] \union {Nil}
    BY <1>2, <1>5
  <2>9. x # r.pRoot => r.up[x] \in new[r.pRoot] /\ Short(r, nbh, x)
    BY <1>3, <2>3, <2>5
  <2>10. \A n \in Elem, z \in Side : RedPair(r, n, z) => r.kid[z][n] = x \/ n = x
    BY <1>12
  <2>11. TooLight(r, new, nbh, x)
    BY <1>5, <1>8, <1>10, <2>6, <2>7, <2>8, <2>9, <2>10 DEF TooLight
  <2>12. QED
    BY <1>14, <2>11
<1>15. QED
  BY <1>13, <1>14

(* r is t with its nodes renamed by w, but for the parent of Nil.          *)
Renaming(w) ==
    w \in [Node -> Node] /\ w[Nil] = Nil /\ \A k \in Node : w[w[k]] = k

(* The tree r is t with its nodes renamed, but for the parent of Nil.      *)
Renamed(t, r, w) ==
    /\ r \in Tree /\ r.count = t.count /\ r.pRoot = w[t.pRoot]
    /\ \A m \in Elem, z \in Side : r.kid[z][m] = w[t.kid[z][w[m]]]
    /\ r.kid["left"][Nil] = Nil
    /\ \A m \in Elem : r.up[m] = w[t.up[w[m]]]
    /\ \A m \in Node : r.color[m] = t.color[w[m]]

(* The elements below each node after a renaming.                          *)
RenamedSubs(sub, w) == [n \in Node |-> {m \in Elem : w[m] \in sub[w[n]]}]

(* The renaming respects the sides.                                        *)
KeepsOrder(t, sub, w) ==
    \A n \in Elem, z \in Side : \A m \in sub[t.kid[z][n]] : Before(z, w[m], w[n])

(* A renaming is one to one and leaves Nil alone.                          *)
LEMMA RenamingFacts ==
    ASSUME NEW w, Renaming(w)
    PROVE  /\ \A k \in Node : w[k] \in Node /\ (w[k] = Nil <=> k = Nil)
           /\ \A k \in Elem : w[k] \in Elem
           /\ \A k, m \in Node : w[k] = w[m] => k = m
BY Zenon, Nodes DEF Renaming

(* A renaming that keeps the order keeps the shape.                        *)
LEMMA RenamedShape ==
    ASSUME NEW t \in Tree, NEW sub, Shape(t, sub), NEW w, Renaming(w), NEW r, Renamed(t, r, w),
           KeepsOrder(t, sub, w),
           NEW new, new = RenamedSubs(sub, w)
    PROVE  /\ Shape(r, new)
           /\ \A m \in Elem : m \in new[r.pRoot] <=> w[m] \in sub[t.pRoot]
<1>1. /\ r \in Tree /\ r.pRoot = w[t.pRoot]
      /\ \A m \in Elem, z \in Side : r.kid[z][m] = w[t.kid[z][w[m]]]
      /\ r.kid["left"][Nil] = Nil
      /\ \A m \in Elem : r.up[m] = w[t.up[w[m]]]
      /\ \A m \in Node : r.color[m] = t.color[w[m]]
  BY DEF Renamed
<1>2. /\ \A k \in Node : w[k] \in Node /\ (w[k] = Nil <=> k = Nil) /\ w[w[k]] = k
      /\ \A k \in Elem : w[k] \in Elem /\ k \in Node /\ k # Nil
      /\ \A k, m \in Node : w[k] = w[m] => k = m
      /\ w[Nil] = Nil
  BY RenamingFacts, Nodes DEF Renaming
<1>3. /\ \A n \in Node : sub[n] \in SUBSET Elem
      /\ sub[Nil] = {}
      /\ \A n \in Elem : n \in sub[n] /\ IsFiniteSet(sub[n])
      /\ \A n \in Elem, m \in Elem : m \in sub[n] <=> m = n \/ \E z \in Side : m \in sub[t.kid[z][n]]
  BY ShapeFacts DEF Shape, Subtrees
<1>4. /\ new \in [Node -> SUBSET Elem]
      /\ \A n \in Node : new[n] \subseteq Elem /\ \A m \in Elem : m \in new[n] <=> w[m] \in sub[w[n]]
  BY DEF RenamedSubs
<1>5. \A n \in Elem, z \in Side :
         /\ t.kid[z][n] \in Node /\ t.kid[z][w[n]] \in Node /\ t.up[n] \in Node /\ t.up[w[n]] \in Node
         /\ r.kid[z][n] \in Node /\ w[r.kid[z][n]] = t.kid[z][w[n]]
         /\ r.up[n] \in Node /\ w[r.up[n]] = t.up[w[n]]
  BY <1>1, <1>2, TreeTypes
<1>6. t.pRoot \in Node /\ w[r.pRoot] = t.pRoot /\ r.pRoot \in Node
  BY <1>1, <1>2, TreeTypes
<1>7. Subtrees(r, new)
  <2>1. ASSUME NEW n \in Elem, NEW m \in Elem
        PROVE  m \in new[n] <=> m = n \/ \E z \in Side : m \in new[r.kid[z][n]]
    <3>1. m \in new[n] <=> w[m] \in sub[w[n]]
      BY <1>2, <1>4
    <3>2. w[m] \in sub[w[n]] <=> w[m] = w[n] \/ \E z \in Side : w[m] \in sub[t.kid[z][w[n]]]
      BY <1>2, <1>3
    <3>3. \A z \in Side : m \in new[r.kid[z][n]] <=> w[m] \in sub[t.kid[z][w[n]]]
      BY <1>4, <1>5
    <3>4. w[m] = w[n] <=> m = n
      BY <1>2
    <3>5. QED
      BY <3>1, <3>2, <3>3, <3>4
  <2>2. ASSUME NEW n \in Elem PROVE IsFiniteSet(new[n])
    <3>1. IsFiniteSet(sub[w[n]])
      BY <1>2, <1>3
    <3>2. PICK f, T : f = [k \in sub[w[n]] |-> w[k]] /\ T = {w[k] : k \in sub[w[n]]}
      BY Zenon
    <3>3. f \in Surjection(sub[w[n]], T)
      BY <3>2 DEF Surjection
    <3>4. IsFiniteSet(T)
      BY <3>1, <3>3, FS_Surjection
    <3>5. new[n] \subseteq T
      <4>1. ASSUME NEW m \in new[n] PROVE m \in T
        <5>1. m \in Elem /\ w[m] \in sub[w[n]] /\ w[w[m]] = m
          BY <1>2, <1>4, <4>1
        <5>2. QED
          BY <3>2, <5>1
      <4>2. QED
        BY <4>1
    <3>6. QED
      BY <3>4, <3>5, FS_Subset
  <2>3. new[Nil] = {}
    BY <1>2, <1>3, <1>4, Nodes
  <2>4. QED
    BY <1>4, <2>1, <2>2, <2>3 DEF Subtrees
<1>8. Sided(r, new)
  <2>1. ASSUME NEW n \in Elem, NEW z \in Side, NEW m \in new[r.kid[z][n]] PROVE Before(z, m, n)
    <3>1. m \in Elem /\ w[m] \in sub[t.kid[z][w[n]]] /\ w[n] \in Elem
      BY <1>2, <1>4, <1>5
    <3>2. Before(z, w[w[m]], w[w[n]])
      BY <3>1 DEF KeepsOrder
    <3>3. w[w[m]] = m /\ w[w[n]] = n
      BY <1>2, <3>1
    <3>4. QED
      BY <3>2, <3>3
  <2>2. QED
    BY <2>1 DEF Sided
<1>9. UpLinks(r)
  <2>1. ASSUME NEW n \in Elem, NEW z \in Side, r.kid[z][n] # Nil PROVE r.up[r.kid[z][n]] = n
    <3>1. /\ w[n] \in Elem /\ t.kid[z][w[n]] # Nil
          /\ r.kid[z][n] \in Elem /\ w[r.kid[z][n]] = t.kid[z][w[n]]
      BY ZenonT(30), <1>2, <1>5, <2>1, Nodes
    <3>2. t.up[t.kid[z][w[n]]] = w[n]
      BY <3>1 DEF Shape, UpLinks
    <3>3. r.up[r.kid[z][n]] = w[w[n]]
      BY <1>1, <3>1, <3>2
    <3>4. QED
      BY <1>2, <3>3
  <2>2. ASSUME r.pRoot # Nil PROVE r.up[r.pRoot] = Nil
    <3>1. r.pRoot \in Elem /\ t.pRoot # Nil
      BY Zenon, <1>2, <1>6, <2>2, Nodes
    <3>2. t.up[t.pRoot] = Nil
      BY <3>1 DEF Shape, UpLinks
    <3>3. QED
      BY <1>1, <1>2, <1>6, <3>1, <3>2
  <2>3. QED
    BY <1>1, <2>1, <2>2 DEF UpLinks
<1>10. \A m \in Elem : m \in new[r.pRoot] <=> w[m] \in sub[t.pRoot]
  BY <1>4, <1>6
<1>11. Hangs(r, new)
  <2>1. ASSUME NEW n \in new[r.pRoot], n # r.pRoot
        PROVE  r.up[n] # Nil /\ \E z \in Side : r.kid[z][r.up[n]] = n
    <3>1. n \in Elem /\ w[n] \in sub[t.pRoot] /\ w[n] # t.pRoot
      BY <1>2, <1>4, <1>6, <1>10, <2>1
    <3>2. /\ t.up[w[n]] \in Elem /\ SideOf(t, w[n]) \in Side
          /\ t.kid[SideOf(t, w[n])][t.up[w[n]]] = w[n]
      BY <3>1, OnItsSide
    <3>3. r.up[n] \in Elem /\ r.up[n] # Nil /\ w[r.up[n]] = t.up[w[n]]
      BY <1>1, <1>2, <1>5, <3>1, <3>2
    <3>4. r.kid[SideOf(t, w[n])][r.up[n]] = w[w[n]]
      BY <1>1, <3>2, <3>3
    <3>5. QED
      BY <1>2, <3>1, <3>2, <3>3, <3>4
  <2>2. QED
    BY <2>1 DEF Hangs
<1>12. Outside(r, new)
  <2>1. ASSUME NEW n \in Elem \ new[r.pRoot]
        PROVE  (\A z \in Side : r.kid[z][n] = Nil) /\ r.up[n] = Nil /\ r.color[n] = "black"
    <3>1. w[n] \in Elem \ sub[t.pRoot] /\ n \in Node
      BY <1>2, <1>10
    <3>2. /\ \A z \in Side : t.kid[z][w[n]] = Nil
          /\ t.up[w[n]] = Nil /\ t.color[w[n]] = "black"
      BY <3>1 DEF Shape, Outside
    <3>3. QED
      BY <1>1, <1>2, <3>1, <3>2
  <2>2. QED
    BY Zenon, <2>1 DEF Outside
<1>13. QED
  BY <1>7, <1>8, <1>9, <1>10, <1>11, <1>12 DEF Shape

(* The colours are renamed with the nodes.                                 *)
LEMMA RenamedColours ==
    ASSUME NEW t \in Tree, NEW sub, Shape(t, sub), NEW w, Renaming(w), NEW r, Renamed(t, r, w),
           NEW bh, Heights(bh), NEW nbh, nbh = [m \in Node |-> bh[w[m]]]
    PROVE  /\ Heights(nbh)
           /\ \A n \in Elem : Even(t, bh, w[n]) => Even(r, nbh, n)
           /\ \A n \in Elem, z \in Side : RedPair(r, n, z) => RedPair(t, w[n], z)
           /\ r.color[Nil] = t.color[Nil] /\ r.color[r.pRoot] = t.color[t.pRoot]
           /\ \A n \in Node : nbh[n] = bh[w[n]] /\ Weight(r, n) = Weight(t, w[n])
           /\ \A n \in Elem, z \in Side : r.kid[z][n] \in Node /\ w[r.kid[z][n]] = t.kid[z][w[n]]
<1>1. /\ r \in Tree /\ r.pRoot = w[t.pRoot]
      /\ \A m \in Elem, z \in Side : r.kid[z][m] = w[t.kid[z][w[m]]]
      /\ \A m \in Node : r.color[m] = t.color[w[m]]
  BY DEF Renamed
<1>2. /\ \A k \in Node : w[k] \in Node /\ w[w[k]] = k
      /\ \A k \in Elem : w[k] \in Elem /\ k \in Node
      /\ w[Nil] = Nil /\ Nil \in Node
  BY RenamingFacts, Nodes DEF Renaming
<1>3. \A n \in Elem, z \in Side : t.kid[z][w[n]] \in Node /\ r.kid[z][n] \in Node /\ w[r.kid[z][n]] = t.kid[z][w[n]]
  BY <1>1, <1>2, TreeTypes
<1>4. \A n \in Node : nbh[n] = bh[w[n]] /\ Weight(r, n) = Weight(t, w[n])
  BY <1>1, <1>2 DEF Weight
<1>5. Heights(nbh)
  BY <1>2 DEF Heights
<1>6. ASSUME NEW n \in Elem, Even(t, bh, w[n]) PROVE Even(r, nbh, n)
  <2>1. \A z \in Side : nbh[r.kid[z][n]] = bh[t.kid[z][w[n]]]
    BY <1>3, <1>4
  <2>2. nbh[n] = bh[w[n]] /\ Weight(r, n) = Weight(t, w[n])
    BY <1>2, <1>4
  <2>3. QED
    BY <1>6, <2>1, <2>2 DEF Even
<1>7. ASSUME NEW n \in Elem, NEW z \in Side, RedPair(r, n, z) PROVE RedPair(t, w[n], z)
  BY <1>1, <1>2, <1>3, <1>7 DEF RedPair
<1>8. r.color[Nil] = t.color[Nil] /\ r.color[r.pRoot] = t.color[t.pRoot]
  BY <1>1, <1>2, TreeTypes
<1>9. QED
  BY <1>3, <1>4, <1>5, <1>6, <1>7, <1>8

(* A renaming that keeps the order, and the node x where it is.            *)
Renames(t, r, w, sub, new, x) ==
    /\ t \in Tree /\ Renaming(w) /\ Renamed(t, r, w) /\ KeepsOrder(t, sub, w)
    /\ new = RenamedSubs(sub, w)
    /\ x \in Node /\ w[x] = x /\ r.up[x] = w[t.up[x]]

(* A renaming that keeps the order keeps what is known of the tree.        *)
LEMMA RenamedStep ==
    ASSUME NEW t, NEW sub, NEW bh, NEW w, NEW r, NEW new, NEW x, Renames(t, r, w, sub, new, x)
    PROVE  /\ Balanced(t, sub, bh) => \E nbh : Balanced(r, new, nbh)
           /\ TooLight(t, sub, bh, x) => \E nbh : TooLight(r, new, nbh, x)
<1> SUFFICES ASSUME t \in Tree, Renaming(w), Renamed(t, r, w), KeepsOrder(t, sub, w),
                    new = RenamedSubs(sub, w), x \in Node, w[x] = x, r.up[x] = w[t.up[x]]
             PROVE  /\ Balanced(t, sub, bh) => \E nbh : Balanced(r, new, nbh)
                    /\ TooLight(t, sub, bh, x) => \E nbh : TooLight(r, new, nbh, x)
  BY DEF Renames
<1>1. PICK nbh : nbh = [m \in Node |-> bh[w[m]]]
  BY Zenon
<1>2. /\ \A k \in Node : w[k] \in Node /\ w[w[k]] = k
      /\ \A k \in Elem : w[k] \in Elem /\ k \in Node
      /\ w[Nil] = Nil /\ Nil \in Node
      /\ \A k, m \in Node : w[k] = w[m] => k = m
  BY RenamingFacts, Nodes DEF Renaming
<1>3. ASSUME Shape(t, sub), Heights(bh)
      PROVE  /\ Shape(r, new) /\ Heights(nbh)
             /\ \A m \in Elem : m \in new[r.pRoot] <=> w[m] \in sub[t.pRoot]
             /\ \A n \in Elem : Even(t, bh, w[n]) => Even(r, nbh, n)
             /\ \A n \in Elem, z \in Side : RedPair(r, n, z) => RedPair(t, w[n], z)
             /\ r.color[Nil] = t.color[Nil] /\ r.color[r.pRoot] = t.color[t.pRoot]
             /\ \A n \in Node : nbh[n] = bh[w[n]] /\ Weight(r, n) = Weight(t, w[n])
             /\ \A n \in Elem, z \in Side : r.kid[z][n] \in Node /\ w[r.kid[z][n]] = t.kid[z][w[n]]
  <2>1. Shape(r, new) /\ \A m \in Elem : m \in new[r.pRoot] <=> w[m] \in sub[t.pRoot]
    BY <1>3, RenamedShape
  <2>2. QED
    BY <1>1, <1>3, <2>1, RenamedColours
<1>4. ASSUME Balanced(t, sub, bh) PROVE Balanced(r, new, nbh)
  <2>1. /\ Shape(t, sub) /\ Heights(bh) /\ \A n \in Elem : Even(t, bh, n)
        /\ \A n \in Elem, d \in Side : ~ RedPair(t, n, d)
        /\ t.color[Nil] = "black" /\ t.color[t.pRoot] = "black"
    BY <1>4 DEF Balanced
  <2>2. \A n \in Elem : Even(r, nbh, n)
    BY Zenon, <1>2, <1>3, <2>1
  <2>3. \A n \in Elem, d \in Side : ~ RedPair(r, n, d)
    BY <1>2, <1>3, <2>1
  <2>4. QED
    BY <1>3, <2>1, <2>2, <2>3 DEF Balanced
<1>5. ASSUME TooLight(t, sub, bh, x) PROVE TooLight(r, new, nbh, x)
  <2>1. /\ Shape(t, sub) /\ Heights(bh)
        /\ x \in sub[t.pRoot] \union {Nil}
        /\ x # t.pRoot => t.up[x] \in sub[t.pRoot] /\ Short(t, bh, x)
        /\ \A n \in Elem : x = t.pRoot \/ n # t.up[x] => Even(t, bh, n)
        /\ \A n \in Elem, d \in Side : RedPair(t, n, d) => t.kid[d][n] = x \/ n = x
        /\ t.color[Nil] = "black" /\ (t.color[t.pRoot] = "red" => t.pRoot = x)
    BY <1>5 DEF TooLight
  <2>2. r.pRoot = w[t.pRoot] /\ t.pRoot \in Node /\ t.up[x] \in Node
    BY TreeTypes DEF Renamed
  <2>3. x = r.pRoot <=> x = t.pRoot
    BY <1>2, <2>2
  <2>4. x \in new[r.pRoot] \union {Nil}
    <3>1. CASE x = Nil
      BY <3>1
    <3>2. CASE x # Nil
      BY <1>3, <2>1, <3>2, Nodes
    <3>3. QED
      BY <3>1, <3>2
  <2>5. x # r.pRoot => r.up[x] \in new[r.pRoot] /\ Short(r, nbh, x)
    <3>1. SUFFICES ASSUME x # r.pRoot PROVE r.up[x] \in new[r.pRoot] /\ Short(r, nbh, x)
      OBVIOUS
    <3>2. PICK p, d, s, q : /\ p = t.up[x] /\ d = SideOf(t, x) /\ s = t.kid[Other(d)][p]
                            /\ q = w[p]
      OBVIOUS
    <3>3. /\ p \in sub[t.pRoot] /\ t.kid[d][p] = x
          /\ bh[s] = bh[x] + 1 /\ bh[p] = bh[x] + 1 + Weight(t, p)
      BY <2>1, <2>3, <3>1, <3>2 DEF Short
    <3>4. p \in Elem /\ p \in Node /\ d \in Side /\ Other(d) \in Side
      <4>1. p \in Elem
        BY <2>1, <2>2, <3>3, ShapeFacts
      <4>2. d \in Side
        BY <3>2 DEF SideOf, Side
      <4>3. QED
        BY <4>1, <4>2, Nodes, Sides
    <3>5. q \in Elem /\ q \in Node /\ r.up[x] = q /\ w[q] = p
      BY <1>2, <3>2, <3>4
    <3>6. r.kid[d][q] = x /\ w[r.kid[Other(d)][q]] = s /\ r.kid[Other(d)][q] \in Node
      <4>1. /\ w[r.kid[d][q]] = t.kid[d][p] /\ w[r.kid[Other(d)][q]] = t.kid[Other(d)][p]
            /\ r.kid[d][q] \in Node /\ r.kid[Other(d)][q] \in Node
        BY <1>3, <2>1, <3>4, <3>5
      <4>2. QED
        BY <1>2, <3>2, <3>3, <4>1
    <3>7. s # x
      <4>1. bh[x] \in Nat
        BY <2>1, Weights
      <4>2. QED
        BY <3>3, <4>1
    <3>8. SideOf(r, x) = d
      <4>1. r.kid[Other(d)][q] # x
        BY <3>6, <3>7
      <4>2. r.kid[d][r.up[x]] = x /\ r.kid[Other(d)][r.up[x]] # x
        BY <3>5, <3>6, <4>1
      <4>3. QED
        BY <3>4, <4>2, SideIs
    <3>9. /\ nbh[r.kid[Other(d)][q]] = bh[s] /\ nbh[x] = bh[x] /\ nbh[q] = bh[p]
          /\ Weight(r, q) = Weight(t, p)
      BY <1>3, <2>1, <3>5, <3>6
    <3>10. Short(r, nbh, x)
      BY <3>3, <3>5, <3>6, <3>8, <3>9 DEF Short
    <3>11. q \in new[r.pRoot]
      BY <1>3, <2>1, <3>3, <3>5
    <3>12. QED
      BY <3>5, <3>10, <3>11
  <2>6. \A n \in Elem : x = r.pRoot \/ n # r.up[x] => Even(r, nbh, n)
    <3>1. ASSUME NEW n \in Elem, x = r.pRoot \/ n # r.up[x] PROVE Even(r, nbh, n)
      <4>1. x = t.pRoot \/ w[n] # t.up[x]
        BY <1>2, <2>2, <2>3, <3>1
      <4>2. Even(t, bh, w[n])
        BY <1>2, <2>1, <4>1
      <4>3. QED
        BY <1>3, <2>1, <4>2
    <3>2. QED
      BY <3>1
  <2>7. \A n \in Elem, d \in Side : RedPair(r, n, d) => r.kid[d][n] = x \/ n = x
    <3>1. ASSUME NEW n \in Elem, NEW d \in Side, RedPair(r, n, d) PROVE r.kid[d][n] = x \/ n = x
      <4>1. t.kid[d][w[n]] = x \/ w[n] = x
        BY <1>2, <1>3, <2>1, <3>1
      <4>2. r.kid[d][n] \in Node /\ w[r.kid[d][n]] = t.kid[d][w[n]] /\ n \in Node
        BY <1>2, <1>3, <2>1
      <4>3. QED
        BY <1>2, <4>1, <4>2
    <3>2. QED
      BY <3>1
  <2>8. r.color[Nil] = "black" /\ (r.color[r.pRoot] = "red" => r.pRoot = x)
    BY <1>3, <2>1, <2>3
  <2>9. QED
    BY <1>3, <2>1, <2>4, <2>5, <2>6, <2>7, <2>8 DEF TooLight
<1>6. QED
  BY <1>4, <1>5

(* y gets the links of n; q is what becomes of u.                          *)
Seated(u, q, n, y, c) ==
    /\ q \in Tree /\ q.count = u.count
    /\ q.pRoot = IF u.up[n] = Nil THEN y ELSE u.pRoot
    /\ \A m \in Node, z \in Side :
          q.kid[z][m] = IF m = y THEN u.kid[z][n]
                        ELSE IF m = u.up[n] /\ z = SideOf(u, n) THEN y ELSE u.kid[z][m]
    /\ \A m \in Node :
          q.up[m] = IF m \in {u.kid["left"][n], u.kid["right"][n]} THEN y
                    ELSE IF m = y THEN u.up[n] ELSE u.up[m]
    /\ \A m \in Node : q.color[m] = IF m = y THEN c ELSE u.color[m]

(* What taking the place of n writes.                                      *)
LEMMA TakePlaceIs ==
    ASSUME NEW u \in Tree, NEW n \in Node, NEW y \in Node, y # n, u.up[n] \notin {n, y},
           u.kid["left"][n] # y, u.kid["right"][n] # y
    PROVE  Seated(u, TakePlace(u, n, y), n, y, u.color[n])
<1>1. PICK p, d, a, b : /\ p = u.up[n] /\ d = SideOf(u, n)
                        /\ a = u.kid["left"][n] /\ b = u.kid["right"][n]
  OBVIOUS
<1>2. /\ p \in Node /\ d \in Side /\ a \in Node /\ b \in Node /\ p # n /\ p # y /\ a # y /\ b # y
      /\ "left" \in Side /\ "right" \in Side /\ (\A z \in Side : z = "left" \/ z = "right")
  BY <1>1, TreeTypes DEF SideOf, Side
<1>3. PICK t1 : t1 = [u EXCEPT !.pRoot = IF p = Nil THEN y ELSE @, !.up[y] = p, !.kid[d][p] = y]
  OBVIOUS
<1>4. /\ t1 \in Tree /\ t1.count = u.count /\ t1.color = u.color
      /\ t1.pRoot = IF p = Nil THEN y ELSE u.pRoot
      /\ \A m \in Node, z \in Side : t1.kid[z][m] = IF m = p /\ z = d THEN y ELSE u.kid[z][m]
      /\ \A m \in Node : t1.up[m] = IF m = y THEN p ELSE u.up[m]
  BY Zenon, <1>2, <1>3 DEF Tree
<1>5. t1.kid["left"][n] = a /\ t1.kid["right"][n] = b
  BY <1>1, <1>2, <1>4
<1>6. PICK t2 : t2 = [t1 EXCEPT !.up[a] = y]
  BY Zenon
<1>7. /\ t2 \in Tree /\ t2.count = u.count /\ t2.color = u.color /\ t2.pRoot = t1.pRoot
      /\ t2.kid = t1.kid /\ \A m \in Node : t2.up[m] = IF m = a THEN y ELSE t1.up[m]
  BY Zenon, <1>2, <1>4, <1>6 DEF Tree
<1>8. PICK t3 : t3 = [t2 EXCEPT !.up[b] = y]
  BY Zenon
<1>9. /\ t3 \in Tree /\ t3.count = u.count /\ t3.color = u.color /\ t3.pRoot = t1.pRoot
      /\ t3.kid = t1.kid
      /\ \A m \in Node : t3.up[m] = IF m = b THEN y ELSE t2.up[m]
  BY Zenon, <1>2, <1>7, <1>8 DEF Tree
<1>10. PICK t4 : t4 = [t3 EXCEPT !.kid["left"][y] = a, !.kid["right"][y] = b]
  OBVIOUS
<1>11. /\ t4 \in Tree /\ t4.count = u.count /\ t4.color = u.color /\ t4.pRoot = t1.pRoot
       /\ t4.up = t3.up
       /\ \A m \in Node, z \in Side :
             t4.kid[z][m] = IF m = y THEN IF z = "left" THEN a ELSE b ELSE t3.kid[z][m]
  BY ZenonT(30), <1>2, <1>9, <1>10 DEF Tree
<1>12. Seat(u, n, y) = t4
  BY Zenon, <1>1, <1>3, <1>5, <1>6, <1>8, <1>10 DEF Seat
<1>13. PICK q : q = TakePlace(u, n, y)
  OBVIOUS
<1>14. /\ q \in Tree /\ SameLinks(t4, q)
       /\ \A m \in Node : q.color[m] = IF m = y THEN u.color[n] ELSE t4.color[m]
  <2>1. q = Paint(t4, y, u.color[n]) /\ u.color[n] \in Colour
    BY <1>12, <1>13, TreeTypes DEF TakePlace
  <2>2. QED
    BY <1>11, <2>1, PaintLinks
<1>15. q.kid = t4.kid /\ q.up = t3.up /\ q.pRoot = t1.pRoot /\ q.count = u.count
  BY <1>11, <1>14 DEF SameLinks
<1>16. \A m \in Node, z \in Side :
          q.kid[z][m] = IF m = y THEN u.kid[z][n] ELSE IF m = p /\ z = d THEN y ELSE u.kid[z][m]
  <2>1. ASSUME NEW m \in Node, NEW z \in Side
        PROVE  q.kid[z][m] = IF m = y THEN u.kid[z][n]
                             ELSE IF m = p /\ z = d THEN y ELSE u.kid[z][m]
    <3>1. CASE m = y
      <4>1. u.kid[z][n] = IF z = "left" THEN a ELSE b
        BY <1>1, <1>2
      <4>2. QED
        BY <1>11, <1>15, <3>1, <4>1
    <3>2. CASE m # y
      BY <1>4, <1>9, <1>11, <1>15, <3>2
    <3>3. QED
      BY <3>1, <3>2
  <2>2. QED
    BY <2>1
<1>17. \A m \in Node : q.up[m] = IF m \in {a, b} THEN y ELSE IF m = y THEN p ELSE u.up[m]
  BY <1>4, <1>7, <1>9, <1>15
<1>18. \A m \in Node : q.color[m] = IF m = y THEN u.color[n] ELSE u.color[m]
  BY <1>11, <1>14
<1>19. Seated(u, q, n, y, u.color[n])
  BY <1>1, <1>4, <1>14, <1>15, <1>16, <1>17, <1>18 DEF Seated
<1>20. QED
  BY <1>13, <1>19

(* e and y exchanged.                                                      *)
Swap(e, y) == [k \in Node |-> IF k = e THEN y ELSE IF k = y THEN e ELSE k]

(* The exchange of two elements is a renaming.                             *)
LEMMA SwapIs ==
    ASSUME NEW e \in Elem, NEW y \in Elem, e # y, NEW w, w = Swap(e, y)
    PROVE  /\ Renaming(w) /\ w[e] = y /\ w[y] = e
           /\ \A k \in Node : k \notin {e, y} => w[k] = k
BY Nodes DEF Swap, Renaming

(* y is unlinked and takes the place of e: v is the tree without y, r the   *)
(* one without e.                                                          *)
Moved(t, e, y, x, w, v, r) ==
    /\ x = OnlyChild(t, y) /\ w = Swap(e, y)
    /\ v = Released(Unlink(t, y), {y})
    /\ r = Released(TakePlace(Unlink(t, y), e, y), {e})

(* When the successor y of e takes its place, e and y change their roles.  *)
LEMMA PlaceRenamed ==
    ASSUME NEW t \in Tree, NEW sub, Shape(t, sub), NEW e \in sub[t.pRoot],
           t.kid["left"][e] # Nil, t.kid["right"][e] # Nil,
           NEW y \in sub[t.kid["right"][e]], t.kid["left"][y] = Nil,
           NEW x, NEW w, NEW v, NEW r, Moved(t, e, y, x, w, v, r)
    PROVE  /\ y \in sub[t.pRoot] /\ y # e /\ x \in Node /\ x # e /\ x # y
           /\ Without(t, v, y, x) /\ Renamed(v, r, w) /\ r.up[x] = w[v.up[x]]
<1>0. /\ x = OnlyChild(t, y) /\ w = Swap(e, y)
      /\ v = Released(Unlink(t, y), {y})
      /\ r = Released(TakePlace(Unlink(t, y), e, y), {e})
  BY DEF Moved
<1>1. "right" \in Side /\ "left" \in Side /\ \A z \in Side : z = "left" \/ z = "right"
  BY DEF Side
<1>2. /\ e \in Elem /\ y \in Elem /\ y \in sub[e] /\ y # e /\ y \in sub[t.pRoot]
      /\ y \in Node /\ e \in Node /\ y # Nil /\ e # Nil
  <2>1. e \in Elem /\ e \in Node
    BY ShapeFacts, TreeTypes, Nodes
  <2>2. y \in sub[e] /\ y # e
    BY <1>1, <2>1, ShapeFacts
  <2>3. y \in sub[t.pRoot]
    BY <2>2, Nested, TreeTypes
  <2>4. QED
    BY Zenon, <2>1, <2>2, <2>3, ShapeFacts, TreeTypes, Nodes
<1>3. Nil \in {t.kid["left"][y], t.kid["right"][y]}
  OBVIOUS
<1>4. /\ x \in Node /\ x # y
      /\ \A z \in Side : t.kid[z][y] \in {x, Nil}
      /\ \E z \in Side : t.kid[z][y] = x
      /\ x # Nil => x \in sub[t.pRoot] /\ t.up[x] = y /\ x # t.pRoot
  BY <1>0, <1>2, <1>3, OnlyChildIs
<1>5. x # e /\ t.up[e] # y /\ t.up[e] # e
  <2>1. sub[y] \subseteq sub[t.kid["right"][e]] /\ e \notin sub[t.kid["right"][e]]
    BY <1>1, <1>2, Nested, TreeTypes, ShapeFacts
  <2>2. \A z \in Side : sub[t.kid[z][y]] \subseteq sub[y]
    BY <1>2, ShapeFacts
  <2>3. e \in sub[e]
    BY <1>2, ShapeFacts
  <2>4. \A z \in Side : t.kid[z][y] # e
    BY <2>1, <2>2, <2>3
  <2>5. x # e
    BY <1>4, <2>4
  <2>6. t.up[e] \in Elem => \E z \in Side : t.kid[z][t.up[e]] = e
    BY <1>2, Nodes, OnItsSide DEF Shape, UpLinks
  <2>7. t.up[e] # y
    BY <1>2, <2>4, <2>6
  <2>8. t.up[e] # e
    BY <1>2, <2>6, ShapeFacts
  <2>9. QED
    BY <2>5, <2>7, <2>8
<1>6. PICK u, q : u = Unlink(t, y) /\ q = TakePlace(u, e, y)
  OBVIOUS
<1>7. UnlinkedLinks(t, u, y, x)
  BY <1>0, <1>2, <1>3, <1>6, UnlinkIs
<1>8. Without(t, v, y, x)
  BY <1>0, <1>2, <1>3, WithoutIs
<1>9. /\ u \in Tree /\ u.count = t.count /\ u.color = t.color
      /\ u.pRoot = IF y = t.pRoot THEN x ELSE t.pRoot
      /\ \A m \in Elem, z \in Side :
            m # y => u.kid[z][m] = IF t.kid[z][m] = y THEN x ELSE t.kid[z][m]
      /\ u.kid["left"][Nil] = Nil
      /\ \A m \in Node : u.up[m] = IF m = x THEN t.up[y] ELSE t.up[m]
  BY <1>7 DEF UnlinkedLinks
<1>10. PICK p, d, a, b : /\ p = u.up[e] /\ d = SideOf(u, e)
                         /\ a = u.kid["left"][e] /\ b = u.kid["right"][e]
  OBVIOUS
<1>11. /\ p = t.up[e] /\ p # e /\ p # y /\ p \in Node /\ d \in Side
       /\ a \in Node /\ b \in Node /\ a # y /\ b # y /\ a # e /\ b # e
  <2>1. p = t.up[e] /\ p \in Node /\ d \in Side
    BY <1>2, <1>5, <1>9, <1>10, TreeTypes DEF SideOf, Side
  <2>2. \A z \in Side : t.kid[z][e] # e /\ t.kid[z][e] \in Node
    BY <1>2, ShapeFacts, TreeTypes
  <2>3. QED
    BY <1>1, <1>2, <1>4, <1>5, <1>9, <1>10, <2>1, <2>2
<1>12. Seated(u, q, e, y, u.color[e])
  BY Zenon, <1>2, <1>6, <1>9, <1>10, <1>11, TakePlaceIs
<1>13. /\ q \in Tree /\ q.count = u.count
       /\ q.pRoot = IF p = Nil THEN y ELSE u.pRoot
       /\ \A m \in Node, z \in Side :
             q.kid[z][m] = IF m = y THEN u.kid[z][e] ELSE IF m = p /\ z = d THEN y ELSE u.kid[z][m]
       /\ \A m \in Node : q.up[m] = IF m \in {a, b} THEN y ELSE IF m = y THEN p ELSE u.up[m]
       /\ \A m \in Node : q.color[m] = IF m = y THEN u.color[e] ELSE u.color[m]
  BY <1>10, <1>12 DEF Seated
<1>14. /\ v \in Tree /\ v.count = u.count /\ v.pRoot = u.pRoot
       /\ \A m \in Node, z \in Side : v.kid[z][m] = IF m = y THEN Nil ELSE u.kid[z][m]
       /\ \A m \in Node : v.up[m] = IF m = y THEN Nil ELSE u.up[m]
       /\ \A m \in Node : v.color[m] = IF m = y THEN "black" ELSE u.color[m]
  BY <1>0, <1>2, <1>6, <1>9, ReleasedIs
<1>15. /\ r \in Tree /\ r.count = q.count /\ r.pRoot = q.pRoot
       /\ \A m \in Node, z \in Side : r.kid[z][m] = IF m = e THEN Nil ELSE q.kid[z][m]
       /\ \A m \in Node : r.up[m] = IF m = e THEN Nil ELSE q.up[m]
       /\ \A m \in Node : r.color[m] = IF m = e THEN "black" ELSE q.color[m]
  BY <1>0, <1>2, <1>6, <1>13, ReleasedIs
<1>16. PICK new : new = Pruned(sub, y)
  OBVIOUS
<1>17. Shape(v, new) /\ new[v.pRoot] = sub[t.pRoot] \ {y} /\ e \in new[v.pRoot]
  <2>1. Shape(v, new) /\ new[v.pRoot] = sub[t.pRoot] \ {y}
    <3>1. x = OnlyChild(t, y)
      BY <1>0
    <3>2. QED
      BY <1>2, <1>3, <1>8, <1>16, <3>1, WithoutShape
  <2>2. QED
    BY <1>2, <2>1
<1>18. Renaming(w) /\ w[e] = y /\ w[y] = e /\ \A k \in Node : k \notin {e, y} => w[k] = k
  BY <1>0, <1>2, SwapIs
<1>19. w[Nil] = Nil /\ \A k \in Node : w[w[k]] = k
  BY <1>18 DEF Renaming
(* The links of v at e. *)
<1>20. /\ v.up[e] = p /\ v.kid["left"][e] = a /\ v.kid["right"][e] = b
       /\ SideOf(v, e) = d
  <2>1. v.up[e] = p /\ \A z \in Side : v.kid[z][e] = u.kid[z][e] /\ v.kid[z][p] = u.kid[z][p]
    BY Zenon, <1>2, <1>10, <1>11, <1>14
  <2>2. v.kid["left"][e] = a /\ v.kid["right"][e] = b /\ v.kid["left"][p] = u.kid["left"][p]
    BY <1>1, <1>10, <2>1
  <2>3. SideOf(v, e) = d
    BY <1>10, <2>1, <2>2 DEF SideOf
  <2>4. QED
    BY <2>1, <2>2, <2>3
<1>21. p = Nil <=> e = v.pRoot
  BY <1>2, <1>17, <1>20 DEF Shape, Hangs, UpLinks
<1>22. p # Nil => p \in Elem /\ v.kid[d][p] = e /\ \A z \in Side : v.kid[z][p] = e => z = d
  <2>1. SUFFICES ASSUME p # Nil
                 PROVE  p \in Elem /\ v.kid[d][p] = e /\ \A z \in Side : v.kid[z][p] = e => z = d
    OBVIOUS
  <2>2. e # v.pRoot /\ e \in new[v.pRoot] /\ Shape(v, new) /\ v \in Tree
    BY <1>14, <1>17, <1>21, <2>1
  <2>3. /\ v.up[e] \in Elem /\ v.kid[SideOf(v, e)][v.up[e]] = e
        /\ \A z \in Side : v.kid[z][v.up[e]] = e => z = SideOf(v, e)
    BY <2>2, OnItsSide
  <2>4. v.up[e] = p /\ SideOf(v, e) = d
    BY <1>20
  <2>5. QED
    BY <2>3, <2>4
<1>23. p = Nil => d = "right"
  BY <1>2, <1>9, <1>10 DEF SideOf
<1>24. \A m \in Elem, z \in Side : v.kid[z][m] # y /\ (v.kid[z][m] = e => m = p)
  <2>1. v.up[y] = Nil
    BY <1>2, <1>14
  <2>2. \A m \in Elem, z \in Side : v.kid[z][m] # Nil => v.up[v.kid[z][m]] = m
    BY <1>17 DEF Shape, UpLinks
  <2>3. QED
    BY <1>2, <1>20, <2>1, <2>2, Nodes
<1>25. \A m \in Elem, z \in Side : r.kid[z][m] = w[v.kid[z][w[m]]]
  <2>1. ASSUME NEW m \in Elem, NEW z \in Side PROVE r.kid[z][m] = w[v.kid[z][w[m]]]
    <3>1. m \in Node
      BY Nodes
    <3>2. CASE m = e
      BY <1>2, <1>14, <1>15, <1>18, <1>19, <3>2
    <3>3. CASE m = y
      <4>1. r.kid[z][m] = u.kid[z][e] /\ w[m] = e /\ v.kid[z][e] = u.kid[z][e]
        BY <1>2, <1>13, <1>14, <1>15, <1>18, <3>3
      <4>2. u.kid[z][e] \notin {e, y} /\ u.kid[z][e] \in Node
        BY <1>1, <1>10, <1>11
      <4>3. QED
        BY <1>18, <4>1, <4>2
    <3>4. CASE m \notin {e, y}
      <4>1. w[m] = m /\ v.kid[z][m] = u.kid[z][m] /\ v.kid[z][m] \in Node /\ v.kid[z][m] # y
        BY <1>14, <1>18, <1>24, <3>1, <3>4, TreeTypes
      <4>2. r.kid[z][m] = IF m = p /\ z = d THEN y ELSE v.kid[z][m]
        BY <1>13, <1>15, <3>1, <3>4, <4>1
      <4>3. CASE m = p /\ z = d
        BY <1>18, <1>22, <3>1, <4>1, <4>2, <4>3, Nodes
      <4>4. CASE ~ (m = p /\ z = d)
        <5>1. v.kid[z][m] # e
          BY <1>22, <1>24, <4>4, Nodes
        <5>2. QED
          BY <1>18, <4>1, <4>2, <4>4, <5>1
      <4>5. QED
        BY <4>3, <4>4
    <3>5. QED
      BY <3>2, <3>3, <3>4
  <2>2. QED
    BY <2>1
<1>26. \A m \in Node : m # Nil \/ m = x => r.up[m] = w[v.up[w[m]]]
  <2>1. ASSUME NEW m \in Node, m # Nil \/ m = x PROVE r.up[m] = w[v.up[w[m]]]
    <3>1. CASE m = e
      BY <1>2, <1>14, <1>15, <1>18, <1>19, <3>1
    <3>2. CASE m = y
      <4>1. r.up[m] = p
        BY <1>2, <1>11, <1>13, <1>15, <3>2
      <4>2. QED
        BY <1>11, <1>18, <1>20, <3>2, <4>1
    <3>3. CASE m \notin {e, y}
      <4>1. w[m] = m /\ v.up[m] = u.up[m] /\ v.up[m] \in Node
        BY <1>14, <1>18, <3>3, TreeTypes
      <4>2. r.up[m] = IF m \in {a, b} THEN y ELSE v.up[m]
        BY <1>13, <1>15, <3>3, <4>1
      <4>3. (m \in {a, b} => v.up[m] = e) /\ (v.up[m] = e => m \in {a, b}) /\ v.up[m] # y
        <5>1. CASE m # Nil
          <6>1. m \in Elem
            BY <5>1, Nodes
          <6>2. m \in {a, b} => v.up[m] = e
            BY <1>1, <1>2, <1>17, <1>20, <5>1 DEF Shape, UpLinks
          <6>3. v.up[m] # Nil => \E z \in Side : v.kid[z][v.up[m]] = m
            <7>1. m \notin new[v.pRoot] => v.up[m] = Nil
              BY <1>17, <6>1 DEF Shape, Outside
            <7>2. m = v.pRoot => v.up[m] = Nil
              BY <1>17, <5>1 DEF Shape, UpLinks
            <7>3. QED
              BY <1>17, <7>1, <7>2 DEF Shape, Hangs
          <6>4. v.up[m] = e => m \in {a, b}
            BY <1>1, <1>2, <1>20, <6>3
          <6>5. \A z \in Side : v.kid[z][y] = Nil
            BY <1>2, <1>14
          <6>6. v.up[m] # y
            BY <1>2, <5>1, <6>3, <6>5
          <6>7. QED
            BY <6>2, <6>4, <6>6
        <5>2. CASE m = Nil
          <6>1. m = x /\ v.up[m] = t.up[y]
            BY <1>9, <2>1, <4>1, <5>2
          <6>2. t.up[y] # y
            BY <1>2, Nodes, OnItsSide, ShapeFacts DEF Shape, UpLinks
          <6>3. ASSUME t.up[y] = e PROVE m \in {a, b}
            <7>1. y # t.pRoot
              BY <1>2, <6>3 DEF Shape, UpLinks
            <7>2. PICK z \in Side : t.kid[z][e] = y
              BY <1>2, <6>3, <7>1, OnItsSide
            <7>3. u.kid[z][e] = x
              BY <1>2, <1>9, <7>2
            <7>4. QED
              BY <1>1, <1>10, <6>1, <7>3
          <6>4. ASSUME m \in {a, b} PROVE t.up[y] = e
            <7>1. PICK z \in Side : u.kid[z][e] = Nil
              BY <1>1, <1>10, <5>2, <6>4
            <7>2. t.kid[z][e] # Nil
              BY <1>1
            <7>3. t.kid[z][e] = y
              BY <1>2, <1>9, <7>1, <7>2
            <7>4. QED
              BY <1>2, <7>3 DEF Shape, UpLinks
          <6>5. QED
            BY <6>1, <6>2, <6>3, <6>4
        <5>3. QED
          BY <5>1, <5>2
      <4>4. QED
        BY <1>18, <4>1, <4>2, <4>3
    <3>4. QED
      BY <3>1, <3>2, <3>3
  <2>2. QED
    BY <2>1
<1>27. \A m \in Node : r.color[m] = v.color[w[m]]
  <2>1. ASSUME NEW m \in Node PROVE r.color[m] = v.color[w[m]]
    <3>1. CASE m = e
      BY <1>2, <1>14, <1>15, <1>18, <3>1
    <3>2. CASE m = y
      BY <1>2, <1>13, <1>14, <1>15, <1>18, <3>2
    <3>3. CASE m \notin {e, y}
      BY <1>13, <1>14, <1>15, <1>18, <3>3
    <3>4. QED
      BY <3>1, <3>2, <3>3
  <2>2. QED
    BY <2>1
<1>28. r.pRoot = w[v.pRoot] /\ r.count = v.count
  <2>1. r.pRoot = IF e = v.pRoot THEN y ELSE v.pRoot
    BY <1>13, <1>14, <1>15, <1>21
  <2>2. v.pRoot # y /\ v.pRoot \in Node
    <3>1. y \notin new[v.pRoot]
      BY <1>17
    <3>2. v.pRoot # y
      BY <1>2, <1>14, <1>17, <3>1, ShapeFacts
    <3>3. QED
      BY <1>14, <3>2, TreeTypes
  <2>3. QED
    BY <1>13, <1>14, <1>15, <1>18, <2>1, <2>2
<1>29. r.kid["left"][Nil] = Nil
  <2>1. q.kid["left"][Nil] = u.kid["left"][Nil]
    BY <1>1, <1>2, <1>13, <1>23, Nodes
  <2>2. QED
    BY <1>1, <1>2, <1>9, <1>15, <2>1, Nodes
<1>30. \A m \in Elem : r.up[m] = w[v.up[w[m]]]
  BY <1>26, Nodes
<1>31. Renamed(v, r, w)
  BY <1>15, <1>25, <1>27, <1>28, <1>29, <1>30 DEF Renamed
<1>32. r.up[x] = w[v.up[x]]
  <2>1. w[x] = x
    BY <1>4, <1>5, <1>18
  <2>2. QED
    BY <1>4, <1>26, <2>1
<1>33. QED
  BY <1>2, <1>4, <1>5, <1>8, <1>31, <1>32

(* Of the other elements, none is between e and its successor.             *)
LEMMA SwapOrder ==
    ASSUME NEW t \in Tree, NEW sub, Shape(t, sub), NEW e \in sub[t.pRoot],
           NEW y \in sub[t.pRoot], e < y, \A m \in sub[t.pRoot] : m <= e \/ y <= m,
           NEW x, NEW v, Without(t, v, y, x), NEW new, Shape(v, new),
           new[v.pRoot] = sub[t.pRoot] \ {y}, NEW w, w = Swap(e, y)
    PROVE  KeepsOrder(v, new, w)
<1>1. v \in Tree
  BY DEF Without
<1>2. e \in Elem /\ y \in Elem /\ e # y
  <2>1. e \in Elem /\ y \in Elem
    BY ShapeFacts, TreeTypes
  <2>2. e \in Nat /\ y \in Nat
    BY Zenon, <2>1, Nodes
  <2>3. QED
    BY <2>1, <2>2
<1>3. w[e] = y /\ w[y] = e /\ \A k \in Node : k \notin {e, y} => w[k] = k
  BY <1>2, SwapIs
<1>4. SUFFICES ASSUME NEW n \in Elem, NEW z \in Side, NEW m \in new[v.kid[z][n]]
               PROVE  Before(z, w[m], w[n])
  BY DEF KeepsOrder
<1>5. /\ m \in Elem /\ m \in Node /\ n \in Node /\ v.kid[z][n] \in Node /\ new[v.kid[z][n]] \subseteq new[n]
      /\ m # n
  BY Zenon, <1>1, <1>4, ShapeFacts, TreeTypes, Nodes
<1>6. n \in new[v.pRoot] /\ m \in new[v.pRoot]
  <2>1. v.kid[z][n] # Nil
    BY <1>4 DEF Shape, Subtrees
  <2>2. n \in new[v.pRoot]
    BY <2>1 DEF Shape, Outside
  <2>3. new[n] \subseteq new[v.pRoot]
    BY <1>1, <2>2, Nested, TreeTypes
  <2>4. QED
    BY <1>4, <1>5, <2>2, <2>3
<1>7. n # y /\ m # y /\ n \in sub[t.pRoot] /\ m \in sub[t.pRoot]
  BY <1>6
<1>8. Before(z, m, n)
  BY <1>4 DEF Shape, Sided
<1>9. e \in Nat /\ y \in Nat /\ n \in Nat /\ m \in Nat
  BY <1>2, <1>5, Nodes
<1>10. (n = e \/ n < e \/ y < n) /\ (m = e \/ m < e \/ y < m)
  BY <1>7, <1>9
<1>11. CASE n = e
  <2>1. w[m] = m /\ w[n] = y
    BY <1>3, <1>5, <1>7, <1>11
  <2>2. Before(z, m, y)
    BY <1>8, <1>9, <1>10, <1>5, <1>11 DEF Before
  <2>3. QED
    BY <2>1, <2>2
<1>12. CASE m = e
  <2>1. w[n] = n /\ w[m] = y
    BY <1>3, <1>5, <1>7, <1>12
  <2>2. Before(z, y, n)
    BY <1>8, <1>9, <1>10, <1>5, <1>12 DEF Before
  <2>3. QED
    BY <2>1, <2>2
<1>13. CASE n # e /\ m # e
  BY <1>3, <1>5, <1>7, <1>8, <1>13
<1>14. QED
  BY <1>11, <1>12, <1>13

(* A removal up to its loop.                                               *)
LEMMA RemovalStep ==
    ASSUME NEW t \in Tree, NEW sub, NEW bh, Balanced(t, sub, bh), NEW e \in sub[t.pRoot],
           NEW y, y = Unlinked(t, e), NEW x, x = OnlyChild(t, y),
           NEW r, r = Released(Delete(t, e), {e})
    PROVE  /\ r \in Tree /\ r.count = t.count /\ x \in Node
           /\ \E new, nbh : /\ new[r.pRoot] = sub[t.pRoot] \ {e}
                            /\ IF t.color[y] = "red" THEN Balanced(r, new, nbh)
                                                     ELSE TooLight(r, new, nbh, x)
<1>1. Shape(t, sub)
  BY DEF Balanced
<1>2. e \in Elem /\ e \in Node
  BY <1>1, ShapeFacts, TreeTypes, Nodes
<1>3. CASE Nil \in {t.kid["left"][e], t.kid["right"][e]}
  <2>1. y = e /\ r = Released(Unlink(t, e), {e}) /\ x = OnlyChild(t, e)
    BY <1>3 DEF Unlinked, Delete
  <2>2. Without(t, r, e, x)
    BY <1>1, <1>3, <2>1, WithoutIs
  <2>3. PICK new : new = Pruned(sub, e)
    OBVIOUS
  <2>4. new[r.pRoot] = sub[t.pRoot] \ {e}
    BY <1>1, <1>3, <2>1, <2>2, <2>3, WithoutShape
  <2>5. \E nbh : IF t.color[e] = "red" THEN Balanced(r, new, nbh) ELSE TooLight(r, new, nbh, x)
    BY <1>3, <2>1, <2>2, <2>3, WithoutStep
  <2>6. x \in Node
    BY <1>1, <1>3, <2>1, OnlyChildIs
  <2>7. r \in Tree /\ r.count = t.count
    BY <2>2 DEF Without
  <2>8. QED
    BY Zenon, <2>1, <2>4, <2>5, <2>6, <2>7
<1>4. CASE Nil \notin {t.kid["left"][e], t.kid["right"][e]}
  <2>1. y = Successor(t, e)
    BY <1>4 DEF Unlinked
  <2>2. /\ y \in sub[t.pRoot] /\ e < y /\ \A m \in sub[t.pRoot] : m <= e \/ y <= m
        /\ y \in sub[t.kid["right"][e]] /\ t.kid["left"][y] = Nil
    <3>1. LET z == Successor(t, e)
          IN  /\ z = Nil \/ z \in sub[t.pRoot]
              /\ z # Nil => e < z /\ \A m \in sub[t.pRoot] : m <= e \/ z <= m
              /\ t.kid["right"][e] # Nil =>
                    z \in sub[t.kid["right"][e]] /\ t.kid["left"][z] = Nil
      BY <1>1, SuccessorIs
    <3>2. t.kid["right"][e] # Nil /\ t.kid["right"][e] \in Node
      BY <1>2, <1>4, TreeTypes DEF Side
    <3>3. sub[t.kid["right"][e]] \subseteq Elem
      BY <1>1, <3>2, ShapeFacts
    <3>4. y \in sub[t.kid["right"][e]]
      BY <2>1, <3>1, <3>2
    <3>5. y # Nil
      BY <3>3, <3>4, Nodes
    <3>6. QED
      BY <2>1, <3>1, <3>2, <3>4, <3>5
  <2>3. y # e
    <3>1. e \in Nat /\ y \in Nat
      BY Zenon, <1>1, <1>2, <2>2, ShapeFacts, TreeTypes, Nodes
    <3>2. QED
      BY <2>2, <3>1
  <2>4. PICK w, v : w = Swap(e, y) /\ v = Released(Unlink(t, y), {y})
    OBVIOUS
  <2>5. r = Released(TakePlace(Unlink(t, y), e, y), {e})
    BY <2>3 DEF Delete
  <2>6. Moved(t, e, y, x, w, v, r)
    BY <2>4, <2>5 DEF Moved
  <2>7. /\ x \in Node /\ x # e /\ x # y /\ Without(t, v, y, x) /\ Renamed(v, r, w)
        /\ r.up[x] = w[v.up[x]]
    BY <1>1, <1>4, <2>2, <2>6, PlaceRenamed
  <2>8. PICK mid : mid = Pruned(sub, y)
    OBVIOUS
  <2>9. Shape(v, mid) /\ mid[v.pRoot] = sub[t.pRoot] \ {y}
    BY <1>1, <2>2, <2>7, <2>8, WithoutShape
  <2>10. PICK mbh : IF t.color[y] = "red" THEN Balanced(v, mid, mbh) ELSE TooLight(v, mid, mbh, x)
    BY <2>2, <2>7, <2>8, WithoutStep
  <2>11. /\ v \in Tree /\ v.count = t.count /\ r \in Tree /\ r.count = v.count
    BY <2>7 DEF Without, Renamed
  <2>12. KeepsOrder(v, mid, w)
    BY Zenon, <1>1, <2>2, <2>4, <2>7, <2>9, SwapOrder
  <2>13. y \in Elem
    BY <1>1, <2>2, ShapeFacts, TreeTypes
  <2>14. Renaming(w) /\ w[e] = y /\ w[y] = e /\ \A k \in Node : k \notin {e, y} => w[k] = k
    BY <1>2, <2>3, <2>4, <2>13, SwapIs
  <2>15. w[x] = x
    BY <2>7, <2>14
  <2>16. PICK new : new = RenamedSubs(mid, w)
    OBVIOUS
  <2>17. /\ Balanced(v, mid, mbh) => \E nbh : Balanced(r, new, nbh)
         /\ TooLight(v, mid, mbh, x) => \E nbh : TooLight(r, new, nbh, x)
    <3>1. Renames(v, r, w, mid, new, x)
      BY <2>7, <2>11, <2>12, <2>14, <2>15, <2>16 DEF Renames
    <3>2. QED
      BY <3>1, RenamedStep
  <2>18. Shape(r, new) /\ \A m \in Elem : m \in new[r.pRoot] <=> w[m] \in mid[v.pRoot]
    BY <2>7, <2>9, <2>11, <2>12, <2>14, <2>16, RenamedShape
  <2>19. new[r.pRoot] = sub[t.pRoot] \ {e}
    <3>1. new[r.pRoot] \subseteq Elem /\ sub[t.pRoot] \subseteq Elem
      BY <1>1, <2>11, <2>18, ShapeFacts, TreeTypes
    <3>2. \A m \in Elem : w[m] \in sub[t.pRoot] \ {y} <=> m \in sub[t.pRoot] \ {e}
      BY <1>2, <2>2, <2>13, <2>14, Nodes
    <3>3. QED
      BY Zenon, <2>9, <2>18, <3>1, <3>2
  <2>20. QED
    BY Zenon, <2>7, <2>10, <2>11, <2>17, <2>19
<1>5. QED
  BY <1>3, <1>4

(* All ways down from a node have the same number of black nodes.          *)
LEMMA BlackHeightsAre ==
    ASSUME NEW sub, NEW bh, tree \in Tree, Balanced(tree, sub, bh)
    PROVE  \A n \in Node : BlackHeights(n) = {bh[n]}
<1> DEFINE wt(m) == IF tree.color[m] = "black" THEN 1 ELSE 0
           Is(H) == H = [m \in Node |->
                IF m = Nil THEN {0}
                ELSE {h + (IF tree.color[m] = "black" THEN 1 ELSE 0) :
                         h \in H[tree.kid["left"][m]] \union H[tree.kid["right"][m]]}]
           C == CHOOSE H : Is(H)
<1>1. /\ Shape(tree, sub) /\ Heights(bh)
      /\ \A n \in Elem : Even(tree, bh, n)
  BY DEF Balanced
<1>2. \A m \in Elem : /\ m \in Node /\ m # Nil
                      /\ tree.kid["left"][m] \in Node /\ tree.kid["right"][m] \in Node
                      /\ bh[m] = bh[tree.kid["left"][m]] + wt(m)
                      /\ bh[m] = bh[tree.kid["right"][m]] + wt(m)
  BY Zenon, <1>1, Nodes, TreeTypes DEF Even, Weight, Side
<1>3. ASSUME NEW G, NEW m \in Elem,
             G[tree.kid["left"][m]] = {bh[tree.kid["left"][m]]},
             G[tree.kid["right"][m]] = {bh[tree.kid["right"][m]]}
      PROVE  {h + (IF tree.color[m] = "black" THEN 1 ELSE 0) :
                 h \in G[tree.kid["left"][m]] \union G[tree.kid["right"][m]]} = {bh[m]}
  BY <1>2, <1>3
<1>4. Is([m \in Node |-> {bh[m]}])
  <2>1. PICK G : G = [m \in Node |-> {bh[m]}]
    BY Zenon
  <2>2. \A m \in Node : G[m] = {bh[m]}
    BY <2>1
  <2>3. ASSUME NEW m \in Node
        PROVE  G[m] = IF m = Nil THEN {0}
                      ELSE {h + (IF tree.color[m] = "black" THEN 1 ELSE 0) :
                               h \in G[tree.kid["left"][m]] \union G[tree.kid["right"][m]]}
    <3>1. CASE m = Nil
      BY <1>1, <2>2, <3>1 DEF Heights
    <3>2. CASE m # Nil
      <4>1. m \in Elem
        BY <3>2, Nodes
      <4>2. /\ G[tree.kid["left"][m]] = {bh[tree.kid["left"][m]]}
            /\ G[tree.kid["right"][m]] = {bh[tree.kid["right"][m]]}
        BY <1>2, <2>2, <4>1
      <4>3. {h + (IF tree.color[m] = "black" THEN 1 ELSE 0) :
                 h \in G[tree.kid["left"][m]] \union G[tree.kid["right"][m]]} = {bh[m]}
        BY <1>3, <4>1, <4>2
      <4>4. QED
        BY <2>2, <3>2, <4>3
    <3>3. QED
      BY <3>1, <3>2
  <2>4. Is(G)
    <3>1. G = [m \in Node |-> G[m]]
      BY <2>1
    <3>2. QED
      BY <2>3, <3>1
  <2>5. QED
    BY Zenon, <2>1, <2>4
<1>5. Is(C)
  BY Zenon, <1>4
<1> DEFINE T == {m \in Node : C[m] = {bh[m]}}
<1>6. \A m \in Node : C[m] = IF m = Nil THEN {0}
                      ELSE {h + (IF tree.color[m] = "black" THEN 1 ELSE 0) :
                               h \in C[tree.kid["left"][m]] \union C[tree.kid["right"][m]]}
  BY Zenon, <1>5
<1> HIDE DEF C, Is, wt
<1>7. Nil \in T
  BY Zenon, <1>1, <1>6, Nodes DEF Heights
<1>8. ASSUME NEW m \in Elem, \A s \in Side : tree.kid[s][m] \in T PROVE m \in T
  <2>1. /\ C[tree.kid["left"][m]] = {bh[tree.kid["left"][m]]}
        /\ C[tree.kid["right"][m]] = {bh[tree.kid["right"][m]]}
    BY <1>8 DEF Side
  <2>2. {h + (IF tree.color[m] = "black" THEN 1 ELSE 0) :
             h \in C[tree.kid["left"][m]] \union C[tree.kid["right"][m]]} = {bh[m]}
    BY Zenon, <1>3, <2>1
  <2>3. m \in Node /\ m # Nil
    BY Nodes
  <2>4. QED
    BY Zenon, <1>6, <2>2, <2>3
<1> HIDE DEF T
<1>9. \A m \in Node : m \in T
  BY Zenon, <1>1, <1>7, <1>8, TreeInduction
<1>10. ASSUME NEW n \in Node PROVE BlackHeights(n) = {bh[n]}
  <2>1. BlackHeights(n) = C[n]
    BY DEF BlackHeights, C, Is
  <2>2. QED
    BY <1>9, <2>1 DEF T
<1>11. QED
  BY <1>10

(* A tree without elements, as rb_tree_init makes it.                      *)
Bare(t) ==
    /\ t \in Tree /\ t.pRoot = Nil
    /\ \A z \in Side, n \in Node : n # Nil \/ z = "left" => t.kid[z][n] = Nil
    /\ \A n \in Elem : t.up[n] = Nil /\ t.color[n] = "black"
    /\ t.color[Nil] = "black"

(* A tree without elements is balanced.                                    *)
LEMMA BareBalanced ==
    ASSUME NEW t, Bare(t)
    PROVE  \E sub, bh : Balanced(t, sub, bh) /\ sub[t.pRoot] = {}
<1>1. PICK sub, bh : /\ sub = [n \in Node |-> IF n = Nil THEN {} ELSE {n}]
                     /\ bh = [n \in Node |-> IF n = Nil THEN 0 ELSE 1]
  BY Zenon
<1>2. /\ t \in Tree /\ t.pRoot = Nil
      /\ \A z \in Side, n \in Node : n # Nil \/ z = "left" => t.kid[z][n] = Nil
      /\ \A n \in Elem : t.up[n] = Nil /\ t.color[n] = "black"
      /\ t.color[Nil] = "black"
  BY DEF Bare
<1>3. /\ Nil \in Node /\ Nil \notin Elem /\ \A n \in Elem : n \in Node /\ n # Nil
      /\ \A n \in Node : n # Nil => n \in Elem
  BY Nodes
<1>4. /\ sub \in [Node -> SUBSET Elem] /\ sub[Nil] = {}
      /\ \A n \in Elem : sub[n] = {n} /\ bh[n] = 1
      /\ bh \in [Node -> Nat] /\ bh[Nil] = 0
  BY <1>1, <1>3
<1>5. \A n \in Elem, z \in Side : t.kid[z][n] = Nil
  BY <1>2, <1>3
<1>6. Subtrees(t, sub)
  <2>1. \A n \in Elem : IsFiniteSet(sub[n])
    BY Zenon, <1>4, FS_Singleton
  <2>2. \A n, m \in Elem : m \in sub[n] <=> m = n \/ \E s \in Side : m \in sub[t.kid[s][n]]
    BY <1>4, <1>5
  <2>3. QED
    BY <1>4, <2>1, <2>2 DEF Subtrees
<1>7. Shape(t, sub)
  BY <1>2, <1>3, <1>4, <1>5, <1>6 DEF Shape, Sided, UpLinks, Hangs, Outside, Side
<1>8. Balanced(t, sub, bh)
  <2>1. Heights(bh)
    BY <1>4 DEF Heights
  <2>2. \A n \in Elem : Even(t, bh, n)
    BY <1>2, <1>4, <1>5 DEF Even, Weight
  <2>3. \A n \in Elem, d \in Side : ~ RedPair(t, n, d)
    BY <1>2 DEF RedPair
  <2>4. QED
    BY <1>2, <1>7, <2>1, <2>2, <2>3 DEF Balanced
<1>9. QED
  BY <1>2, <1>4, <1>8

(* rb_tree_init makes such a tree.                                         *)
LEMMA EmptyIsBare == Bare(EmptyTree) /\ EmptyTree.count = 0
<1>1. EmptyTree \in Tree
  BY Nodes DEF EmptyTree, Tree, Colour
<1>2. QED
  BY <1>1, Nodes DEF EmptyTree, Bare

(* rb_tree_flush leaves such a tree.                                       *)
LEMMA FlushedIsBare ==
    ASSUME NEW t \in Tree, NEW sub, NEW bh, Balanced(t, sub, bh), NEW r, r = Flushed(t)
    PROVE  Bare(r) /\ r.count = 0
<1> DEFINE held == sub[t.pRoot]
           k == [d \in Side |-> [n \in Node |-> IF n \in held THEN Nil ELSE t.kid[d][n]]]
           u == [n \in Node |-> IF n \in held THEN Nil ELSE t.up[n]]
           c == [n \in Node |-> IF n \in held THEN "black" ELSE t.color[n]]
<1>1. Shape(t, sub) /\ t.color[Nil] = "black"
  BY DEF Balanced
<1>2. Elements(t) = held
  BY <1>1, BelowIs
<1>3. PICK q : q = [t EXCEPT !.kid = k, !.up = u, !.color = c]
  BY Zenon
<1>3a. r = [q EXCEPT !.count = 0, !.pRoot = Nil]
  BY <1>2, <1>3 DEF Flushed, Released
<1>4. /\ held \subseteq Elem /\ Nil \in Node /\ Nil \notin Elem
      /\ \A n \in Elem : n \in Node
      /\ \A n \in Node : n # Nil => n \in Elem
  BY Zenon, <1>1, ShapeFacts, TreeTypes, Nodes
<1>5. /\ k \in [Side -> [Node -> Node]] /\ u \in [Node -> Node] /\ c \in [Node -> Colour]
      /\ \A n \in Node, z \in Side : k[z][n] = IF n \in held THEN Nil ELSE t.kid[z][n]
      /\ \A n \in Node : u[n] = IF n \in held THEN Nil ELSE t.up[n]
      /\ \A n \in Node : c[n] = IF n \in held THEN "black" ELSE t.color[n]
  BY Nodes, TreeTypes DEF Colour
<1>6. \A n \in Elem \ held : /\ \A z \in Side : t.kid[z][n] = Nil
                          /\ t.up[n] = Nil /\ t.color[n] = "black"
  BY Zenon, <1>1 DEF Shape, Outside
<1>7. t.kid["left"][Nil] = Nil
  BY <1>1 DEF Shape, UpLinks
<1> HIDE DEF k, u, c, held
<1>8. /\ r \in Tree /\ r.kid = k /\ r.up = u /\ r.color = c /\ r.count = 0 /\ r.pRoot = Nil
  <2>1. q \in Tree /\ q.kid = k /\ q.up = u /\ q.color = c
    BY Zenon, <1>3, <1>5 DEF Tree
  <2>2. QED
    <3>1. PICK v : v = [q EXCEPT !.count = 0, !.pRoot = Nil]
      OBVIOUS
    <3>2. /\ v \in Tree /\ v.kid = q.kid /\ v.up = q.up /\ v.color = q.color
          /\ v.count = 0 /\ v.pRoot = Nil
      BY Zenon, <1>4, <2>1, <3>1 DEF Tree
    <3>3. v = r
      BY <1>3a, <3>1
    <3>4. QED
      BY <2>1, <3>2, <3>3
<1>9. \A z \in Side, n \in Node : n # Nil \/ z = "left" => r.kid[z][n] = Nil
  BY <1>4, <1>5, <1>6, <1>7, <1>8
<1>10. \A n \in Elem : r.up[n] = Nil /\ r.color[n] = "black"
  BY Zenon, <1>4, <1>5, <1>6, <1>8
<1>11. r.color[Nil] = "black"
  BY <1>1, <1>4, <1>5, <1>8
<1>12. QED
  BY <1>8, <1>9, <1>10, <1>11 DEF Bare

-----------------------------------------------------------------------------
(* The steps.  The tree t holds the elements E; f is the repair under way: *)
(* t is balanced, or it is too red or too light at one node, and its count *)
(* lacks what that call has still to add.                                  *)
Held(t, f, sub, bh, E) ==
    /\ sub[t.pRoot] = E
    /\ \/ f.loop = "none" /\ Balanced(t, sub, bh) /\ t.count = Cardinality(E)
       \/ f.loop = "insert" /\ TooRed(t, sub, bh, f.at) /\ t.count + 1 = Cardinality(E)
       \/ f.loop = "delete" /\ TooLight(t, sub, bh, f.at) /\ t.count = Cardinality(E) + 1

(* For some numbers of black nodes, t holds E.                             *)
Holds(t, f, E) == \E sub, bh : Held(t, f, sub, bh, E)

(* The inductive invariant: the tree holds some set of elements.           *)
IInv == TypeOK /\ \E E : Holds(tree, fix, E)

(* Whatever is under way, the shape is right and Elements is what the tree *)
(* holds.                                                                  *)
LEMMA HoldsShape ==
    ASSUME NEW t \in Tree, NEW f, NEW E, Holds(t, f, E)
    PROVE  /\ \E sub : Shape(t, sub) /\ sub[t.pRoot] = E
           /\ E \subseteq Elem /\ IsFiniteSet(E) /\ Cardinality(E) \in Nat
           /\ Elements(t) = E
<1>1. PICK sub, bh : Held(t, f, sub, bh, E)
  BY DEF Holds
<1>2. Shape(t, sub) /\ sub[t.pRoot] = E
  BY <1>1 DEF Held, Balanced, TooRed, TooLight
<1>3. E \subseteq Elem /\ IsFiniteSet(E) /\ Cardinality(E) \in Nat
  BY <1>2, ShapeFacts, Sizes, TreeTypes
<1>4. Elements(t) = E
  BY <1>2, BelowIs
<1>5. QED
  BY <1>2, <1>3, <1>4

(* Between two calls.                                                      *)
LEMMA HoldsIdle ==
    ASSUME NEW t \in Tree, NEW f, NEW E
    PROVE  f.loop = "none" =>
              (Holds(t, f, E) <=> /\ t.count = Cardinality(E)
                                  /\ \E sub, bh : Balanced(t, sub, bh) /\ sub[t.pRoot] = E)
BY DEF Holds, Held

(* In the loop of an insertion.                                            *)
LEMMA HoldsInsert ==
    ASSUME NEW t \in Tree, NEW f, NEW E
    PROVE  f.loop = "insert" =>
              (Holds(t, f, E) <=> /\ t.count + 1 = Cardinality(E)
                                  /\ \E sub, bh : TooRed(t, sub, bh, f.at) /\ sub[t.pRoot] = E)
BY DEF Holds, Held

(* In the loop of a removal.                                               *)
LEMMA HoldsDelete ==
    ASSUME NEW t \in Tree, NEW f, NEW E
    PROVE  f.loop = "delete" =>
              (Holds(t, f, E) <=> /\ t.count = Cardinality(E) + 1
                                  /\ \E sub, bh : TooLight(t, sub, bh, f.at) /\ sub[t.pRoot] = E)
BY DEF Holds, Held

(* The search finds what is there.                                         *)
LEMMA FindIs ==
    ASSUME NEW t \in Tree, NEW sub, Shape(t, sub), NEW k \in Elem
    PROVE  Find(t, k).node = IF k \in sub[t.pRoot] THEN k ELSE Nil
<1>1. t.pRoot \in Node /\ Nil \in Node
  BY TreeTypes, Nodes
<1>2. PICK w : w = Descend(t, k, t.pRoot, Nil)
  OBVIOUS
<1>3. /\ k \in sub[t.pRoot] => w.node = k
      /\ k \notin sub[t.pRoot] => w.node = Nil
  BY <1>1, <1>2, DescendIs
<1>4. QED
  BY <1>2, <1>3 DEF Find

(* Only the count changes.                                                 *)
LEMMA Recount ==
    ASSUME NEW t \in Tree, NEW c \in Nat, NEW r, r = [t EXCEPT !.count = c]
    PROVE  /\ r \in Tree /\ r.count = c /\ r.pRoot = t.pRoot
           /\ \A sub, bh : Balanced(t, sub, bh) => Balanced(r, sub, bh)
<1>1. /\ r \in Tree /\ r.count = c /\ r.pRoot = t.pRoot /\ r.kid = t.kid /\ r.up = t.up
      /\ r.color = t.color
  BY DEF Tree
<1>2. ASSUME NEW sub, NEW bh, Balanced(t, sub, bh) PROVE Balanced(r, sub, bh)
  <2>1. Shape(r, sub)
    BY <1>1, <1>2 DEF Balanced, Shape, Subtrees, Sided, UpLinks, Hangs, Outside
  <2>2. \A n \in Elem : Even(r, bh, n)
    BY <1>1, <1>2 DEF Balanced, Even, Weight
  <2>3. \A n \in Elem, d \in Side : ~ RedPair(r, n, d)
    BY <1>1, <1>2 DEF Balanced, RedPair
  <2>4. QED
    BY <1>1, <1>2, <2>1, <2>2, <2>3 DEF Balanced
<1>3. QED
  BY <1>1, <1>2

(* What a step does to the set, and what the count says of it.             *)
Full == tree.count + Uncounted

(* A step leaves the set and the count, empties it, adds an element or     *)
(* takes one.                                                              *)
SetStep(E, F) ==
    \/ F = E /\ Full' = Full
    \/ F = {} /\ Full' = 0
    \/ \E e \in Elem : e \notin E /\ F = E \union {e} /\ Full' = Full + 1
    \/ \E e \in Elem : e \in E /\ F = E \ {e} /\ Full' = Full - 1

(* What RepairClimbs says of a step.                                       *)
Climbs == ~ Idle /\ ~ Idle' => LoopOver' \/ GoesUp

(* rb_tree_add up to its loop adds one element or changes nothing.         *)
LEMMA AddStep ==
    ASSUME TypeOK, NEW E, Holds(tree, fix, E), NEW e \in Elem, rb_tree_add(e)
    PROVE  TypeOK' /\ Climbs /\ \E F : Holds(tree', fix', F) /\ SetStep(E, F)
<1>1. tree \in Tree /\ fix \in [loop : Loops, at : Node] /\ fix.loop = "none" /\ Idle
  BY DEF TypeOK, rb_tree_add, Idle
<1>2. Climbs
  BY <1>1 DEF Climbs
<1>3. CASE UNCHANGED vars
  <2>1. tree' = tree /\ fix' = fix
    BY <1>3 DEF vars
  <2>2. TypeOK' /\ Full' = Full
    BY <1>1, <2>1 DEF TypeOK, Full, Uncounted
  <2>3. Holds(tree', fix', E)
    BY <2>1
  <2>4. QED
    BY <1>2, <2>2, <2>3 DEF SetStep
<1>4. CASE Find(tree, e).node = Nil
  <2>1. PICK y, r : /\ y = Find(tree, e).last /\ r = Attach(tree, e, y)
    OBVIOUS
  <2>2. tree' = r /\ fix' = [loop |-> "insert", at |-> e]
    BY <1>4, <2>1 DEF rb_tree_add
  <2>3. tree.count = Cardinality(E) /\ \E sub, bh : Balanced(tree, sub, bh) /\ sub[tree.pRoot] = E
    BY <1>1, HoldsIdle
  <2>4. PICK sub, bh : Balanced(tree, sub, bh) /\ sub[tree.pRoot] = E
    BY <2>3
  <2>5. e \notin E /\ e \in Node
    <3>1. Shape(tree, sub)
      BY <2>4 DEF Balanced
    <3>2. Find(tree, e).node = IF e \in sub[tree.pRoot] THEN e ELSE Nil
      BY <1>1, <3>1, FindIs
    <3>3. QED
      BY <1>4, <2>4, <3>2, Nodes
  <2>6. /\ r \in Tree /\ r.count = tree.count
        /\ \E new, nbh : TooRed(r, new, nbh, e) /\ new[r.pRoot] = sub[tree.pRoot] \union {e}
    BY <1>1, <2>1, <2>4, <2>5, AttachStep
  <2>7. PICK F : F = E \union {e}
    BY Zenon
  <2>8. Cardinality(F) = Cardinality(E) + 1
    BY Zenon, <1>1, <2>5, <2>7, HoldsShape, FS_AddElement
  <2>9. Holds(r, fix', F)
    BY <2>2, <2>3, <2>4, <2>6, <2>7, <2>8, HoldsInsert
  <2>10. TypeOK'
    BY <2>2, <2>5, <2>6 DEF TypeOK, Loops
  <2>11. Full' = Full + 1
    <3>1. Uncounted = 0 /\ Uncounted' = 1
      BY <1>1, <2>2 DEF Uncounted
    <3>2. tree'.count = tree.count /\ tree.count \in Nat
      BY <1>1, <2>2, <2>6, TreeTypes
    <3>3. QED
      BY <3>1, <3>2 DEF Full
  <2>12. QED
    BY <1>2, <2>2, <2>5, <2>7, <2>9, <2>10, <2>11 DEF SetStep
<1>5. QED
  BY <1>3, <1>4 DEF rb_tree_add

(* A turn of the loop of an insertion keeps the elements and goes up.      *)
LEMMA AddTurnStep ==
    ASSUME TypeOK, NEW E, Holds(tree, fix, E), AddTurn
    PROVE  TypeOK' /\ Climbs /\ Holds(tree', fix', E) /\ Full' = Full
<1>1. PICK x, r, z : /\ x = fix.at /\ r = InsertTurn(tree, x).tree /\ z = InsertTurn(tree, x).at
  OBVIOUS
<1>2. /\ tree \in Tree /\ fix \in [loop : Loops, at : Node] /\ fix.loop = "insert"
      /\ ~ InsertOver(tree, x)
      /\ tree' = r /\ fix' = [fix EXCEPT !.at = z]
  BY <1>1 DEF TypeOK, AddTurn
<1>3. fix'.loop = "insert" /\ fix'.at = z
  BY <1>2
<1>4. tree.count + 1 = Cardinality(E) /\ \E sub, bh : TooRed(tree, sub, bh, x) /\ sub[tree.pRoot] = E
  BY <1>1, <1>2, HoldsInsert
<1>5. PICK sub, bh : TooRed(tree, sub, bh, x) /\ sub[tree.pRoot] = E
  BY <1>4
<1>6. /\ r \in Tree /\ r.count = tree.count /\ z \in Node
      /\ \E new, nbh : /\ TooRed(r, new, nbh, z) /\ new[r.pRoot] = sub[tree.pRoot]
                       /\ \/ InsertOver(r, z)
                          \/ z \notin sub[x] /\ sub[x] \subseteq new[z]
  BY <1>1, <1>2, <1>5, InsertTurnStep
<1>7. PICK new, nbh : /\ TooRed(r, new, nbh, z) /\ new[r.pRoot] = sub[tree.pRoot]
                      /\ \/ InsertOver(r, z)
                         \/ z \notin sub[x] /\ sub[x] \subseteq new[z]
  BY <1>6
<1>8. Holds(tree', fix', E)
  BY <1>2, <1>3, <1>4, <1>5, <1>6, <1>7, HoldsInsert
<1>9. TypeOK'
  BY <1>2, <1>6 DEF TypeOK
<1>10. Climbs
  <2>1. Below(tree, x) = sub[x] /\ Below(r, z) = new[z]
    <3>1. Shape(tree, sub) /\ Shape(r, new)
      BY <1>5, <1>7 DEF TooRed
    <3>2. QED
      BY <1>1, <1>2, <1>6, <3>1, BelowIs
  <2>2. CASE InsertOver(r, z)
    BY <1>2, <1>3, <2>2 DEF Climbs, LoopOver
  <2>3. CASE z \notin sub[x] /\ sub[x] \subseteq new[z]
    <3>1. Shape(tree, sub) /\ z \in sub[tree.pRoot]
      BY <1>5, <1>7 DEF TooRed
    <3>2. sub[tree.pRoot] \subseteq Elem
      BY <1>2, <3>1, ShapeFacts, TreeTypes
    <3>3. z # Nil
      BY <3>1, <3>2, Nodes
    <3>4. QED
      BY <1>1, <1>2, <1>3, <2>1, <2>3, <3>3 DEF Climbs, GoesUp
  <2>4. QED
    BY <1>7, <2>2, <2>3
<1>11. Full' = Full
  <2>1. Uncounted = 1 /\ Uncounted' = 1
    BY <1>2, <1>3 DEF Uncounted
  <2>2. QED
    BY <1>2, <1>6, <2>1 DEF Full
<1>12. QED
  BY <1>8, <1>9, <1>10, <1>11

(* After the loop of an insertion the tree is balanced and its count right.*)
LEMMA AddReturnStep ==
    ASSUME TypeOK, NEW E, Holds(tree, fix, E), AddReturn
    PROVE  TypeOK' /\ Climbs /\ Holds(tree', fix', E) /\ Full' = Full
<1>1. PICK x, r : x = fix.at /\ r = InsertEnd(tree)
  OBVIOUS
<1>2. /\ tree \in Tree /\ fix \in [loop : Loops, at : Node] /\ fix.loop = "insert"
      /\ InsertOver(tree, x)
      /\ tree' = [r EXCEPT !.count = @ + 1] /\ fix' = NoFix
  BY <1>1 DEF TypeOK, AddReturn
<1>3. fix'.loop = "none" /\ Idle'
  BY <1>2 DEF NoFix, Idle
<1>4. tree.count + 1 = Cardinality(E) /\ \E sub, bh : TooRed(tree, sub, bh, x) /\ sub[tree.pRoot] = E
  BY <1>1, <1>2, HoldsInsert
<1>5. PICK sub, bh : TooRed(tree, sub, bh, x) /\ sub[tree.pRoot] = E
  BY <1>4
<1>6. r \in Tree /\ SameLinks(tree, r) /\ \E nbh : Balanced(r, sub, nbh)
  BY <1>1, <1>2, <1>5, InsertEndStep
<1>7. r.count = tree.count /\ r.pRoot = tree.pRoot /\ tree.count \in Nat /\ r.count + 1 \in Nat
  BY <1>2, <1>6, TreeTypes DEF SameLinks
<1>8. tree' = [r EXCEPT !.count = r.count + 1]
  BY <1>2
<1>9. /\ tree' \in Tree /\ tree'.count = tree.count + 1 /\ tree'.pRoot = tree.pRoot
      /\ \E nbh : Balanced(tree', sub, nbh)
  BY <1>6, <1>7, <1>8, Recount
<1>10. Holds(tree', fix', E)
  BY <1>3, <1>4, <1>5, <1>9, HoldsIdle
<1>11. TypeOK'
  BY <1>2, <1>9, Nodes DEF TypeOK, NoFix, Loops
<1>12. Full' = Full
  <2>1. Uncounted = 1 /\ Uncounted' = 0
    BY <1>2, <1>3 DEF Uncounted
  <2>2. QED
    BY <1>7, <1>9, <2>1 DEF Full
<1>13. QED
  BY <1>3, <1>10, <1>11, <1>12 DEF Climbs

(* rb_tree_remove up to its loop takes one element or changes nothing.     *)
LEMMA RemoveStep ==
    ASSUME TypeOK, NEW E, Holds(tree, fix, E), NEW e \in Elem, rb_tree_remove(e)
    PROVE  TypeOK' /\ Climbs /\ \E F : Holds(tree', fix', F) /\ SetStep(E, F)
<1>1. tree \in Tree /\ fix \in [loop : Loops, at : Node] /\ fix.loop = "none" /\ Idle
  BY DEF TypeOK, rb_tree_remove, Idle
<1>2. Climbs
  BY <1>1 DEF Climbs
<1>3. CASE UNCHANGED vars
  <2>1. tree' = tree /\ fix' = fix
    BY <1>3 DEF vars
  <2>2. TypeOK' /\ Full' = Full
    BY <1>1, <2>1 DEF TypeOK, Full, Uncounted
  <2>3. Holds(tree', fix', E)
    BY <2>1
  <2>4. QED
    BY <1>2, <2>2, <2>3 DEF SetStep
<1>4. PICK y, x, r : /\ y = Unlinked(tree, e) /\ x = OnlyChild(tree, y)
                     /\ r = Released(Delete(tree, e), {e})
  OBVIOUS
<1>5. tree.count = Cardinality(E) /\ \E sub, bh : Balanced(tree, sub, bh) /\ sub[tree.pRoot] = E
  BY <1>1, HoldsIdle
<1>6. PICK sub, bh : Balanced(tree, sub, bh) /\ sub[tree.pRoot] = E
  BY <1>5
<1>7. PICK F : F = E \ {e}
  BY Zenon
<1>8. ASSUME Find(tree, e).node # Nil
      PROVE  /\ e \in E /\ r \in Tree /\ r.count = tree.count /\ x \in Node
             /\ \E new, nbh : /\ new[r.pRoot] = F
                              /\ IF tree.color[y] = "red" THEN Balanced(r, new, nbh)
                                                          ELSE TooLight(r, new, nbh, x)
             /\ tree.count \in Nat /\ tree.count # 0 /\ Cardinality(F) = tree.count - 1
  <2>1. e \in E
    <3>1. Shape(tree, sub)
      BY <1>6 DEF Balanced
    <3>2. Find(tree, e).node = IF e \in sub[tree.pRoot] THEN e ELSE Nil
      BY <1>1, <3>1, FindIs
    <3>3. QED
      BY <1>6, <1>8, <3>2, Nodes
  <2>2. /\ r \in Tree /\ r.count = tree.count /\ x \in Node
        /\ \E new, nbh : /\ new[r.pRoot] = sub[tree.pRoot] \ {e}
                         /\ IF tree.color[y] = "red" THEN Balanced(r, new, nbh)
                                                     ELSE TooLight(r, new, nbh, x)
    BY <1>1, <1>4, <1>6, <2>1, RemovalStep
  <2>3. IsFiniteSet(E) /\ Cardinality(E) \in Nat
    BY <1>1, HoldsShape
  <2>4. Cardinality(F) = Cardinality(E) - 1 /\ Cardinality(E) # 0
    BY <1>7, <2>1, <2>3, FS_RemoveElement, FS_EmptySet
  <2>5. QED
    BY <1>5, <1>6, <1>7, <2>1, <2>2, <2>3, <2>4
<1>9. CASE Find(tree, e).node # Nil /\ tree.color[y] = "red" /\ tree' = [r EXCEPT !.count = @ - 1]
           /\ fix' = fix
  <2>1. PICK new, nbh : new[r.pRoot] = F /\ Balanced(r, new, nbh)
    BY <1>8, <1>9
  <2>2. /\ r \in Tree /\ r.count = tree.count /\ tree.count \in Nat /\ r.count - 1 \in Nat
        /\ tree' = [r EXCEPT !.count = r.count - 1] /\ Cardinality(F) = tree.count - 1
        /\ e \in E
    BY <1>8, <1>9
  <2>3. /\ tree' \in Tree /\ tree'.count = tree.count - 1 /\ tree'.pRoot = r.pRoot
        /\ Balanced(tree', new, nbh)
    BY <2>1, <2>2, Recount
  <2>4. Holds(tree', fix', F)
    BY Zenon, <1>1, <1>9, <2>1, <2>2, <2>3, HoldsIdle
  <2>5. TypeOK'
    BY <1>1, <1>9, <2>3 DEF TypeOK
  <2>6. Full' = Full - 1
    <3>1. Uncounted = 0 /\ Uncounted' = 0
      BY <1>1, <1>9 DEF Uncounted
    <3>2. QED
      BY <2>2, <2>3, <3>1 DEF Full
  <2>7. QED
    BY <1>2, <1>7, <2>2, <2>4, <2>5, <2>6 DEF SetStep
<1>10. CASE Find(tree, e).node # Nil /\ tree.color[y] = "black" /\ tree' = r
            /\ fix' = [loop |-> "delete", at |-> x]
  <2>1. PICK new, nbh : new[r.pRoot] = F /\ TooLight(r, new, nbh, x)
    BY <1>8, <1>10
  <2>2. /\ r \in Tree /\ r.count = tree.count /\ tree.count \in Nat /\ x \in Node
        /\ tree.count = Cardinality(F) + 1 /\ e \in E
    <3>1. Cardinality(F) = tree.count - 1 /\ tree.count \in Nat
      BY <1>8, <1>10
    <3>2. QED
      BY <1>8, <1>10, <3>1
  <2>3. fix'.loop = "delete" /\ fix'.at = x
    BY <1>10
  <2>4. Holds(tree', fix', F)
    BY <1>10, <2>1, <2>2, <2>3, HoldsDelete
  <2>5. TypeOK'
    BY <1>10, <2>2 DEF TypeOK, Loops
  <2>6. Full' = Full - 1
    <3>1. Uncounted = 0 /\ Uncounted' = -1
      BY <1>1, <2>3 DEF Uncounted
    <3>2. QED
      BY <1>10, <2>2, <3>1 DEF Full
  <2>7. QED
    BY <1>2, <1>7, <2>2, <2>4, <2>5, <2>6 DEF SetStep
<1>11. QED
  BY <1>3, <1>4, <1>9, <1>10 DEF rb_tree_remove

(* A turn of the loop of a removal keeps the elements and goes up.         *)
LEMMA RemoveTurnStep ==
    ASSUME TypeOK, NEW E, Holds(tree, fix, E), RemoveTurn
    PROVE  TypeOK' /\ Climbs /\ Holds(tree', fix', E) /\ Full' = Full
<1>1. PICK x, turn, r, z : x = fix.at /\ turn = DeleteTurn(tree, x) /\ r = turn.tree /\ z = turn.at
  OBVIOUS
<1>2. /\ tree \in Tree /\ fix \in [loop : Loops, at : Node] /\ fix.loop = "delete"
      /\ ~ DeleteOver(tree, x)
      /\ tree' = r /\ fix' = [fix EXCEPT !.at = z]
  BY <1>1 DEF TypeOK, RemoveTurn
<1>3. fix'.loop = "delete" /\ fix'.at = z
  BY <1>2
<1>4. tree.count = Cardinality(E) + 1 /\ \E sub, bh : TooLight(tree, sub, bh, x) /\ sub[tree.pRoot] = E
  BY <1>1, <1>2, HoldsDelete
<1>5. PICK sub, bh : TooLight(tree, sub, bh, x) /\ sub[tree.pRoot] = E
  BY <1>4
<1>6. /\ r \in Tree /\ r.count = tree.count
      /\ \E new, nbh : /\ TooLight(r, new, nbh, z) /\ new[r.pRoot] = sub[tree.pRoot]
                       /\ \/ DeleteOver(r, z)
                          \/ z # Nil /\ z \notin sub[x] /\ sub[x] \subseteq new[z]
  BY <1>1, <1>2, <1>5, DeleteTurnStep
<1>7. PICK new, nbh : /\ TooLight(r, new, nbh, z) /\ new[r.pRoot] = sub[tree.pRoot]
                      /\ \/ DeleteOver(r, z)
                         \/ z # Nil /\ z \notin sub[x] /\ sub[x] \subseteq new[z]
  BY <1>6
<1>8. Holds(tree', fix', E)
  <2>1. r.count = Cardinality(E) + 1 /\ TooLight(r, new, nbh, fix'.at) /\ new[r.pRoot] = E
    BY <1>3, <1>4, <1>5, <1>6, <1>7
  <2>2. Holds(r, fix', E)
    BY <1>3, <1>6, <2>1, HoldsDelete
  <2>3. QED
    BY <1>2, <2>2
<1>9. Shape(tree, sub) /\ Shape(r, new) /\ z \in new[r.pRoot] \union {Nil}
  BY <1>5, <1>7 DEF TooLight
<1>10. x \in Node /\ z \in Node
  <2>1. new[r.pRoot] \subseteq Elem
    BY <1>6, <1>9, ShapeFacts, TreeTypes
  <2>2. QED
    BY <1>1, <1>2, <1>9, <2>1, Nodes
<1>11. TypeOK'
  BY <1>2, <1>6, <1>10 DEF TypeOK
<1>12. Climbs
  <2>1. Below(tree, x) = sub[x] /\ Below(r, z) = new[z]
    BY <1>2, <1>6, <1>9, <1>10, BelowIs
  <2>2. CASE DeleteOver(r, z)
    BY <1>2, <1>3, <2>2 DEF Climbs, LoopOver
  <2>3. CASE z # Nil /\ z \notin sub[x] /\ sub[x] \subseteq new[z]
    BY <1>1, <1>2, <1>3, <2>1, <2>3 DEF Climbs, GoesUp
  <2>4. QED
    BY <1>7, <2>2, <2>3
<1>13. Full' = Full
  <2>1. Uncounted = -1 /\ Uncounted' = -1
    BY <1>2, <1>3 DEF Uncounted
  <2>2. QED
    BY <1>2, <1>6, <2>1 DEF Full
<1>14. QED
  BY <1>8, <1>11, <1>12, <1>13

(* After the loop of a removal the tree is balanced and its count right.   *)
LEMMA RemoveReturnStep ==
    ASSUME TypeOK, NEW E, Holds(tree, fix, E), RemoveReturn
    PROVE  TypeOK' /\ Climbs /\ Holds(tree', fix', E) /\ Full' = Full
<1>1. PICK x, r : x = fix.at /\ r = DeleteEnd(tree, x)
  OBVIOUS
<1>2. /\ tree \in Tree /\ fix \in [loop : Loops, at : Node] /\ fix.loop = "delete"
      /\ DeleteOver(tree, x)
      /\ tree' = [r EXCEPT !.count = @ - 1] /\ fix' = NoFix
  BY <1>1 DEF TypeOK, RemoveReturn
<1>3. fix'.loop = "none" /\ Idle'
  BY <1>2 DEF NoFix, Idle
<1>4. tree.count = Cardinality(E) + 1 /\ \E sub, bh : TooLight(tree, sub, bh, x) /\ sub[tree.pRoot] = E
  BY <1>1, <1>2, HoldsDelete
<1>5. PICK sub, bh : TooLight(tree, sub, bh, x) /\ sub[tree.pRoot] = E
  BY <1>4
<1>6. r \in Tree /\ SameLinks(tree, r) /\ \E nbh : Balanced(r, sub, nbh)
  BY <1>1, <1>2, <1>5, DeleteEndStep
<1>7. Cardinality(E) \in Nat
  BY <1>2, HoldsShape
<1>8. r.count = tree.count /\ r.pRoot = tree.pRoot /\ r.count - 1 = Cardinality(E)
  BY <1>4, <1>6, <1>7 DEF SameLinks
<1>9. tree' = [r EXCEPT !.count = r.count - 1]
  BY <1>2
<1>10. /\ tree' \in Tree /\ tree'.count = Cardinality(E) /\ tree'.pRoot = tree.pRoot
       /\ \E nbh : Balanced(tree', sub, nbh)
  BY <1>6, <1>7, <1>8, <1>9, Recount
<1>11. Holds(tree', fix', E)
  BY <1>3, <1>5, <1>10, HoldsIdle
<1>12. TypeOK'
  BY <1>2, <1>10, Nodes DEF TypeOK, NoFix, Loops
<1>13. Full' = Full
  <2>1. Uncounted = -1 /\ Uncounted' = 0
    BY <1>2, <1>3 DEF Uncounted
  <2>2. QED
    BY <1>4, <1>7, <1>10, <2>1 DEF Full
<1>14. QED
  BY <1>3, <1>11, <1>12, <1>13 DEF Climbs

(* A tree without elements holds the empty set.                            *)
LEMMA BareHolds ==
    ASSUME NEW t, Bare(t), t.count = 0, NEW f, f.loop = "none"
    PROVE  t \in Tree /\ Holds(t, f, {})
<1>1. t \in Tree
  BY DEF Bare
<1>2. \E sub, bh : Balanced(t, sub, bh) /\ sub[t.pRoot] = {}
  BY BareBalanced
<1>3. QED
  BY Zenon, <1>1, <1>2, HoldsIdle, FS_EmptySet

(* Emptying the tree.                                                      *)
LEMMA ClearStep ==
    ASSUME TypeOK, Idle, fix' = fix, Bare(tree'), tree'.count = 0
    PROVE  TypeOK' /\ Climbs /\ Holds(tree', fix', {}) /\ Full' = 0
<1>1. fix \in [loop : Loops, at : Node] /\ fix.loop = "none" /\ fix'.loop = "none"
  BY DEF TypeOK, Idle
<1>2. tree' \in Tree /\ Holds(tree', fix', {})
  BY <1>1, BareHolds
<1>3. QED
  BY <1>1, <1>2 DEF TypeOK, Climbs, Full, Uncounted

(* Nothing changes.                                                        *)
LEMMA StutterStep ==
    ASSUME TypeOK, NEW E, Holds(tree, fix, E), UNCHANGED vars
    PROVE  TypeOK' /\ Holds(tree', fix', E) /\ Full' = Full
<1>1. tree' = tree /\ fix' = fix
  BY DEF vars
<1>2. QED
  BY <1>1 DEF TypeOK, Full, Uncounted

(* Every step of every call.                                               *)
LEMMA NextStep ==
    ASSUME TypeOK, NEW E, Holds(tree, fix, E), Next
    PROVE  TypeOK' /\ Climbs /\ \E F : Holds(tree', fix', F) /\ SetStep(E, F)
<1>1. CASE \E e \in Elem : rb_tree_add(e)
  BY <1>1, AddStep
<1>2. CASE \E e \in Elem : rb_tree_remove(e)
  BY <1>2, RemoveStep
<1>3. CASE AddTurn \/ AddReturn \/ RemoveTurn \/ RemoveReturn
  BY <1>3, AddTurnStep, AddReturnStep, RemoveTurnStep, RemoveReturnStep DEF SetStep
<1>4. CASE \E fFreeCB \in BOOLEAN : rb_tree_flush(fFreeCB)
  <2>1. Idle /\ fix' = fix /\ fix.loop = "none" /\ tree \in Tree
    BY <1>4 DEF rb_tree_flush, Idle, TypeOK
  <2>2. CASE tree' = tree
    <3>1. UNCHANGED vars
      BY <2>1, <2>2 DEF vars
    <3>2. TypeOK' /\ Holds(tree', fix', E) /\ Full' = Full
      BY <3>1, StutterStep
    <3>3. QED
      BY <2>1, <3>2 DEF SetStep, Climbs
  <2>3. CASE tree' = Flushed(tree)
    <3>1. PICK sub, bh : Balanced(tree, sub, bh)
      BY <2>1, HoldsIdle
    <3>2. Bare(tree') /\ tree'.count = 0
      BY <2>1, <2>3, <3>1, FlushedIsBare
    <3>3. TypeOK' /\ Climbs /\ Holds(tree', fix', {}) /\ Full' = 0
      BY <2>1, <3>2, ClearStep
    <3>4. QED
      BY <3>3 DEF SetStep
  <2>4. QED
    BY <1>4, <2>2, <2>3 DEF rb_tree_flush
<1>5. CASE Recreate
  <2>1. Idle /\ fix' = fix /\ Bare(tree') /\ tree'.count = 0
    BY <1>5, EmptyIsBare DEF Recreate
  <2>2. TypeOK' /\ Climbs /\ Holds(tree', fix', {}) /\ Full' = 0
    BY <2>1, ClearStep
  <2>3. QED
    BY <2>2 DEF SetStep
<1>6. QED
  BY <1>1, <1>2, <1>3, <1>4, <1>5 DEF Next

(* The tree is empty at first.                                             *)
LEMMA InitHolds ==
    ASSUME Init
    PROVE  TypeOK /\ Holds(tree, fix, {}) /\ Full = 0
<1>1. tree = EmptyTree /\ fix = NoFix /\ fix.loop = "none"
  BY DEF Init, NoFix
<1>2. Bare(tree) /\ tree.count = 0
  BY <1>1, EmptyIsBare
<1>3. tree \in Tree /\ Holds(tree, fix, {})
  BY <1>1, <1>2, BareHolds
<1>4. QED
  BY <1>1, <1>2, <1>3, Nodes DEF TypeOK, NoFix, Loops, Full, Uncounted

(* IInv: there is a set of elements that the tree holds, with the links,   *)
(* colours and count that the repair under way leaves.                     *)
THEOREM TreeHolds == Spec => []IInv
<1>1. Init => IInv
  BY InitHolds DEF IInv
<1>2. IInv /\ [Next]_vars => IInv'
  <2>1. SUFFICES ASSUME TypeOK, NEW E, Holds(tree, fix, E), [Next]_vars PROVE IInv'
    BY DEF IInv
  <2>2. CASE Next
    BY <2>1, <2>2, NextStep DEF IInv
  <2>3. CASE UNCHANGED vars
    BY <2>1, <2>3, StutterStep DEF IInv
  <2>4. QED
    BY <2>1, <2>2, <2>3
<1>3. QED
  BY <1>1, <1>2, PTL DEF Spec

(* The inductive invariant implies IsRedBlack.                             *)
LEMMA HeldIsRedBlack ==
    ASSUME IInv PROVE IsRedBlack
<1>1. TypeOK /\ tree \in Tree
  BY DEF IInv, TypeOK
<1>2. PICK E : Holds(tree, fix, E)
  BY DEF IInv
<1>3. PICK sub : Shape(tree, sub) /\ sub[tree.pRoot] = E
  BY <1>1, <1>2, HoldsShape
<1>4. /\ \A n \in Node : Below(tree, n) = sub[n]
      /\ Elements(tree) = E
  BY <1>1, <1>3, BelowIs
<1>5. E \subseteq Elem
  BY <1>1, <1>2, HoldsShape
<1>6. Linked
  BY <1>3, <1>4, <1>5 DEF Linked, Shape, UpLinks
<1>7. Ordered
  <2>1. ASSUME NEW n \in E, NEW d \in Side, NEW m \in Below(tree, tree.kid[d][n])
        PROVE  Before(d, m, n) /\ m \in Nat /\ n \in Nat
    <3>1. n \in Elem /\ n \in Node /\ tree.kid[d][n] \in Node
      BY Zenon, <1>1, <1>5, TreeTypes, Nodes
    <3>2. m \in sub[tree.kid[d][n]]
      BY <1>4, <3>1
    <3>3. m \in Elem /\ Before(d, m, n)
      BY <1>1, <1>3, <3>1, <3>2, ShapeFacts DEF Shape, Sided
    <3>4. QED
      BY <3>1, <3>3, Nodes
  <2>2. ASSUME NEW n \in E, NEW m \in Below(tree, tree.kid["left"][n]) PROVE m < n
    BY <2>1 DEF Side, Before
  <2>3. ASSUME NEW n \in E, NEW m \in Below(tree, tree.kid["right"][n]) PROVE m > n
    BY <2>1 DEF Side, Before
  <2>4. QED
    BY <1>4, <2>2, <2>3 DEF Ordered
<1>8. ASSUME Idle PROVE Coloured /\ Counted
  <2>1. tree.count = Cardinality(E) /\ \E s, bh : Balanced(tree, s, bh) /\ s[tree.pRoot] = E
    BY <1>1, <1>2, <1>8, HoldsIdle DEF Idle
  <2>2. PICK s, bh : Balanced(tree, s, bh)
    BY <2>1
  <2>3. BlackHeights(tree.pRoot) = {bh[tree.pRoot]}
    BY <1>1, <2>2, BlackHeightsAre, TreeTypes
  <2>4. /\ \A n \in Elem, d \in Side : ~ RedPair(tree, n, d)
        /\ tree.color[Nil] = "black" /\ tree.color[tree.pRoot] = "black"
    BY <2>2 DEF Balanced
  <2>5. \A n \in Elem, d \in Side : tree.color[n] = "red" => tree.color[tree.kid[d][n]] = "black"
    BY Zenon, <1>1, <2>4, TreeTypes, Nodes DEF RedPair, Colour
  <2>6. Coloured
    BY <1>4, <1>5, <2>3, <2>4, <2>5 DEF Coloured
  <2>7. QED
    BY <1>4, <2>1, <2>6 DEF Counted
<1>9. QED
  BY <1>1, <1>6, <1>7, <1>8 DEF IsRedBlack

(* Every step of every call keeps links and order, and every call leaves a  *)
(* red-black tree with the right count: IsRedBlack.                        *)
THEOREM RedBlackAlways == Spec => []IsRedBlack
BY TreeHolds, HeldIsRedBlack, PTL

(* A turn of a repair loop goes up or is the last: RepairClimbs.           *)
THEOREM LoopsClimb == Spec => RepairClimbs
<1>1. IInv /\ Next => Climbs
  <2>1. SUFFICES ASSUME TypeOK, NEW E, Holds(tree, fix, E), Next PROVE Climbs
    BY DEF IInv
  <2>2. QED
    BY <2>1, NextStep
<1>2. IInv /\ [Next]_vars => [~ Idle /\ ~ Idle' => LoopOver' \/ GoesUp]_vars
  BY <1>1 DEF Climbs
<1>3. QED
  BY <1>2, TreeHolds, PTL DEF Spec, RepairClimbs

(* The calls implement a sorted set and its count: ImplementsSet.          *)
THEOREM TreeIsSet == Spec => ImplementsSet
<1>1. Init => S!Init
  <2>1. SUFFICES ASSUME Init PROVE S!Init
    OBVIOUS
  <2>2. TypeOK /\ Holds(tree, fix, {}) /\ Full = 0
    BY <2>1, InitHolds
  <2>3. Elements(tree) = {}
    BY <2>2, HoldsShape DEF TypeOK
  <2>4. QED
    BY <2>2, <2>3 DEF S!Init, Full
<1>2. IInv /\ [Next]_vars => [S!Next]_(S!vars)
  <2>1. SUFFICES ASSUME TypeOK, NEW E, Holds(tree, fix, E), [Next]_vars
                 PROVE  [S!Next]_(S!vars)
    BY DEF IInv
  <2>2. Elements(tree) = E
    BY <2>1, HoldsShape DEF TypeOK
  <2>3. ASSUME TypeOK', NEW F, Holds(tree', fix', F) PROVE Elements(tree)' = F
    <3>1. tree' \in Tree
      BY <2>3 DEF TypeOK
    <3>2. Elements(tree') = F
      BY <2>3, <3>1, HoldsShape
    <3>3. QED
      BY <3>2
  <2>4. CASE Next
    <3>1. PICK F : TypeOK' /\ Holds(tree', fix', F) /\ SetStep(E, F)
      BY <2>1, <2>4, NextStep
    <3>2. Elements(tree)' = F
      BY <2>3, <3>1
    <3>3. CASE F = E /\ Full' = Full
      BY <2>2, <3>2, <3>3 DEF S!vars, Full
    <3>4. CASE F = {} /\ Full' = 0
      BY <3>2, <3>4 DEF S!Next, S!Clear, Full
    <3>5. CASE \E e \in Elem : e \notin E /\ F = E \union {e} /\ Full' = Full + 1
      BY <2>2, <3>2, <3>5 DEF S!Next, S!Put, Full
    <3>6. CASE \E e \in Elem : e \in E /\ F = E \ {e} /\ Full' = Full - 1
      BY <2>2, <3>2, <3>6 DEF S!Next, S!Take, Full
    <3>7. QED
      BY <3>1, <3>3, <3>4, <3>5, <3>6 DEF SetStep
  <2>5. CASE UNCHANGED vars
    <3>1. TypeOK' /\ Holds(tree', fix', E) /\ Full' = Full
      BY <2>1, <2>5, StutterStep
    <3>2. Elements(tree)' = E
      BY <2>3, <3>1
    <3>3. QED
      BY <2>2, <3>1, <3>2 DEF S!vars, Full
  <2>6. QED
    BY <2>1, <2>4, <2>5
<1>3. QED
  BY <1>1, <1>2, TreeHolds, PTL DEF Spec, ImplementsSet, S!Spec

-----------------------------------------------------------------------------
(* The searches.                                                           *)

(* The least element of a set is the one that is not above another.        *)
LEMMA LeastIs ==
    ASSUME NEW X, X \subseteq Nat, NEW e \in X, \A f \in X : e <= f
    PROVE  S!Least(X) = e
<1>1. S!Least(X) = CHOOSE c \in X : \A f \in X : c <= f
  BY DEF S!Least
<1>2. PICK c : c = S!Least(X)
  OBVIOUS
<1>3. c \in X /\ \A f \in X : c <= f
  BY Zenon, <1>1, <1>2
<1>4. c <= e /\ e <= c /\ c \in Nat /\ e \in Nat
  BY <1>3
<1>5. QED
  BY <1>2, <1>4

(* The empty set has none.                                                 *)
LEMMA NoLeast == S!Least({}) = Nil
BY DEF S!Least, Nil

(* The elements above k, and the least of them.                            *)
LEMMA AboveIs ==
    ASSUME Elements(tree) \subseteq Nat, NEW k \in Nat, NEW z,
           z = Nil => \A m \in Elements(tree) : ~ m > k,
           z # Nil => z \in Elements(tree) /\ z > k /\ \A m \in Elements(tree) : m > k => z <= m
    PROVE  S!Above(k) = z
<1>1. PICK X : X = {m \in Elements(tree) : m > k}
  BY Zenon
<1>2. S!Above(k) = S!Least(X)
  BY <1>1 DEF S!Above
<1>3. CASE z = Nil
  <2>1. X = {}
    BY <1>1, <1>3
  <2>2. QED
    BY <1>2, <1>3, <2>1, NoLeast
<1>4. CASE z # Nil
  <2>1. X \subseteq Nat /\ z \in X /\ \A f \in X : z <= f
    BY <1>1, <1>4
  <2>2. QED
    BY Zenon, <1>2, <2>1, LeastIs
<1>5. QED
  BY <1>3, <1>4

(* The answers of the searches, from the shape alone.                      *)
LEMMA SearchesAre ==
    ASSUME tree \in Tree, NEW sub, Shape(tree, sub)
    PROVE  /\ GetFirst(tree) = S!First
           /\ GetNextFromNode(tree, Nil) = S!First
           /\ \A k \in Elem :
                 /\ Get(tree, k) = IF k \in Elements(tree) THEN k ELSE Nil
                 /\ GetNext(tree, k) = S!Above(k)
           /\ Step(tree, Nil, 0) = tree.pRoot
           /\ \A n \in Elements(tree) :
                 /\ GetNextFromNode(tree, n) = S!Above(n)
                 /\ Step(tree, n, -1) < n
                 /\ Step(tree, n, 1) \notin 1..n
<1>1. PICK E, root : E = sub[tree.pRoot] /\ root = tree.pRoot
  OBVIOUS
<1>2. Elements(tree) = E
  BY <1>1, BelowIs
<1>3. /\ E \subseteq Elem /\ E \subseteq Nat /\ Nil \notin E /\ root \in Node
      /\ root = Nil => E = {}
      /\ root # Nil => root \in Elem /\ sub[root] = E
  <2>1. root \in Node /\ E \subseteq Elem
    BY <1>1, ShapeFacts, TreeTypes
  <2>2. root = Nil => E = {}
    BY <1>1 DEF Shape, Subtrees
  <2>3. Nil \notin Elem /\ Elem \subseteq Nat /\ (root # Nil => root \in Elem)
    BY Zenon, <2>1, Nodes
  <2>4. QED
    BY Zenon, <1>1, <2>1, <2>2, <2>3
<1>4. GetFirst(tree) = S!First
  <2>1. CASE root = Nil
    BY <1>1, <1>2, <1>3, <2>1, NoLeast DEF GetFirst, S!First
  <2>2. CASE root # Nil
    <3>1. PICK z : z = Leftmost(tree, root)
      OBVIOUS
    <3>2. z \in sub[root] /\ \A m \in sub[root] : m = z \/ z < m
      BY Zenon, <1>3, <2>2, <3>1, LeftmostIs
    <3>3. z \in E /\ \A m \in E : z <= m
      BY <1>3, <2>2, <3>2
    <3>4. S!Least(E) = z
      BY <1>3, <3>3, LeastIs
    <3>5. QED
      BY <1>1, <1>2, <2>2, <3>1, <3>4 DEF GetFirst, S!First
  <2>3. QED
    BY <2>1, <2>2
<1>5. GetNextFromNode(tree, Nil) = S!First
  BY <1>4 DEF GetNextFromNode
<1>6. ASSUME NEW n \in E PROVE Successor(tree, n) = S!Above(n)
  <2>1. PICK z : z = Successor(tree, n)
    OBVIOUS
  <2>2. /\ z = Nil \/ z \in E
        /\ z = Nil => \A m \in E : m <= n
        /\ z # Nil => n < z /\ \A m \in E : m <= n \/ z <= m
    BY <1>1, <2>1, SuccessorIs
  <2>3. /\ z = Nil => \A m \in E : ~ m > n
        /\ z # Nil => z \in E /\ z > n /\ \A m \in E : m > n => z <= m
    BY <1>3, <2>2
  <2>4. S!Above(n) = z
    BY <1>2, <1>3, <2>3, AboveIs
  <2>5. QED
    BY <2>1, <2>4
<1>7. ASSUME NEW k \in Elem
      PROVE  Get(tree, k) = IF k \in E THEN k ELSE Nil
  <2>1. Find(tree, k).node = IF k \in E THEN k ELSE Nil
    BY <1>1, FindIs
  <2>2. QED
    BY <1>1, <1>3, <2>1 DEF Get
<1>8. ASSUME NEW k \in Elem PROVE GetNext(tree, k) = S!Above(k)
  <2>0. k \in Nat /\ k # Nil
    BY Zenon, Nodes
  <2>1. CASE root = Nil
    <3>1. GetNext(tree, k) = Nil
      BY <1>1, <2>1 DEF GetNext
    <3>2. S!Above(k) = Nil
      BY Zenon, <1>2, <1>3, <2>0, <2>1, AboveIs
    <3>3. QED
      BY <3>1, <3>2
  <2>2. CASE root # Nil
    <3>1. PICK w, n : w = Find(tree, k) /\ n = w.last
      OBVIOUS
    <3>2. GetNext(tree, k) = IF w.node # Nil \/ k > n THEN Successor(tree, n) ELSE n
      BY <1>1, <2>2, <3>1 DEF GetNext
    <3>3. /\ k \in E => w.node = k /\ n = k
          /\ k \notin E => /\ w.node = Nil /\ n \in E
                           /\ \A m \in E : m # n => (m < k <=> m < n)
      <4>1. w = Descend(tree, k, root, Nil)
        BY <1>1, <3>1 DEF Find
      <4>2. /\ k \in sub[root] => w.node = k /\ w.last = k
            /\ k \notin sub[root] => w.node = Nil
            /\ k \notin sub[root] /\ root # Nil =>
                  /\ w.last \in sub[root]
                  /\ \A m \in sub[root] : m # w.last => (m < k <=> m < w.last)
        BY <1>3, <4>1, DescendIs, Nodes
      <4>3. QED
        BY <1>3, <2>2, <3>1, <4>2
    <3>4. CASE k \in E
      BY <1>6, <2>0, <3>2, <3>3, <3>4
    <3>5. CASE k \notin E /\ k > n
      <4>1. n \in E /\ n \in Nat /\ GetNext(tree, k) = S!Above(n)
        BY <1>3, <1>6, <3>2, <3>3, <3>5
      <4>2. \A m \in E : m > k <=> m > n
        BY <1>3, <2>0, <3>3, <3>5, <4>1
      <4>3. {m \in E : m > k} = {m \in E : m > n}
        BY <4>2
      <4>4. QED
        BY <1>2, <4>1, <4>3 DEF S!Above
    <3>6. CASE k \notin E /\ ~ k > n
      <4>1. n \in E /\ n \in Nat /\ n > k /\ n # Nil /\ GetNext(tree, k) = n
        <5>1. n \in E /\ w.node = Nil /\ n # k
          BY <3>3, <3>6
        <5>2. n \in Nat /\ n # Nil
          BY <1>3, <5>1
        <5>3. n > k
          BY <2>0, <3>6, <5>1, <5>2
        <5>4. GetNext(tree, k) = n
          BY <3>2, <3>6, <5>1
        <5>5. QED
          BY <5>1, <5>2, <5>3, <5>4
      <4>2. \A m \in E : m > k => n <= m
        BY <1>3, <2>0, <3>3, <3>6, <4>1
      <4>3. S!Above(k) = n
        BY Zenon, <1>2, <1>3, <2>0, <4>1, <4>2, AboveIs
      <4>4. QED
        BY <4>1, <4>3
    <3>7. QED
      BY <3>4, <3>5, <3>6
  <2>3. QED
    BY <2>1, <2>2
<1>9. ASSUME NEW n \in E
      PROVE  Step(tree, n, -1) < n /\ Step(tree, n, 1) \notin 1..n
  <2>1. n \in Elem /\ n \in Nat /\ n # Nil /\ n # 0 /\ n \in Node
    BY <1>3, Nodes DEF Nil
  <2>2. Step(tree, n, -1) = tree.kid["left"][n] /\ Step(tree, n, 1) = tree.kid["right"][n]
    BY <2>1 DEF Step
  <2>3. ASSUME NEW d \in Side, tree.kid[d][n] # Nil
        PROVE  tree.kid[d][n] \in Nat /\ Before(d, tree.kid[d][n], n)
    <3>1. tree.kid[d][n] \in Elem
      BY Zenon, <2>1, <2>3, TreeTypes, Nodes
    <3>2. tree.kid[d][n] \in sub[tree.kid[d][n]]
      BY <3>1, ShapeFacts
    <3>3. QED
      BY Zenon, <2>1, <3>1, <3>2, Nodes DEF Shape, Sided
  <2>4. tree.kid["left"][n] < n
    BY <2>1, <2>3 DEF Side, Before, Nil
  <2>5. tree.kid["right"][n] \notin 1..n
    BY <2>1, <2>3 DEF Side, Before, Nil
  <2>6. QED
    BY <2>2, <2>4, <2>5
<1>10. Step(tree, Nil, 0) = tree.pRoot
  BY DEF Step
<1>11. ASSUME NEW n \in E PROVE GetNextFromNode(tree, n) = S!Above(n)
  BY <1>3, <1>6, <1>11 DEF GetNextFromNode
<1>12. QED
  BY <1>2, <1>4, <1>5, <1>7, <1>8, <1>9, <1>10, <1>11

(* Every search answers as the set would: SearchesExact.                   *)
THEOREM SearchesAlwaysExact == Spec => []SearchesExact
<1>1. IInv => SearchesExact
  <2>1. SUFFICES ASSUME tree \in Tree, NEW E, Holds(tree, fix, E) PROVE SearchesExact
    BY DEF IInv, TypeOK
  <2>2. PICK sub : Shape(tree, sub)
    BY <2>1, HoldsShape
  <2>3. QED
    BY <2>1, <2>2, SearchesAre DEF SearchesExact
<1>2. QED
  BY <1>1, TreeHolds, PTL

-----------------------------------------------------------------------------
(* Flushing and destroying.                                                *)

(* The recursion of rb_destroy describes something.                        *)
LEMMA FreeCallsExist ==
    ASSUME NEW t \in Tree, NEW sub, Shape(t, sub)
    PROVE  \E F : F = [m \in Node |->
                          IF m = Nil THEN <<>>
                          ELSE F[t.kid["left"][m]] \o F[t.kid["right"][m]] \o <<m>>]
<1> DEFINE rank(m) == Cardinality(sub[m])
           Val(F, m) == IF m = Nil THEN <<>>
                        ELSE F[t.kid["left"][m]] \o F[t.kid["right"][m]] \o <<m>>
           P == {n \in Nat : \E F : \A m \in Node : rank(m) < n => F[m] = Val(F, m)}
<1>1. PICK N \in Nat : \A m \in Node : Cardinality(sub[m]) <= N
  BY SizesBounded
<1>2. /\ \A m \in Node : rank(m) \in Nat /\ rank(m) < N + 1
      /\ \A m \in Elem, s \in Side : rank(t.kid[s][m]) < rank(m)
  BY <1>1, Sizes
<1>3. \A m \in Node, s \in Side : t.kid[s][m] \in Node
  BY TreeTypes
<1>4. "left" \in Side /\ "right" \in Side
  BY DEF Side
<1> HIDE DEF rank
<1>5. 0 \in P
  <2>1. ASSUME NEW m \in Node PROVE ~ (rank(m) < 0)
    <3>1. PICK i : i = rank(m)
      OBVIOUS
    <3>2. i \in Nat
      BY <1>2, <3>1
    <3>3. QED
      BY <3>1, <3>2
  <2> HIDE DEF Val
  <2>2. QED
    BY <2>1
<1>6. ASSUME NEW n \in Nat, n \in P PROVE n + 1 \in P
  <2>1. PICK F : \A m \in Node : rank(m) < n => F[m] = Val(F, m)
    BY <1>6
  <2>2. PICK G : G = [m \in Node |-> Val(F, m)]
    BY Zenon
  <2>3. \A m \in Node : G[m] = Val(F, m)
    BY <2>2
  <2>4. ASSUME NEW m \in Node, rank(m) < n + 1 PROVE G[m] = Val(G, m)
    <3>1. CASE m = Nil
      BY Zenon, <2>3, <3>1
    <3>2. CASE m # Nil
      <4>1. ASSUME NEW s \in Side PROVE G[t.kid[s][m]] = F[t.kid[s][m]]
        <5>1. m \in Elem /\ t.kid[s][m] \in Node
          BY <1>3, <3>2, Nodes
        <5>2. rank(t.kid[s][m]) < n
          BY <1>2, <2>4, <5>1
        <5>3. F[t.kid[s][m]] = Val(F, t.kid[s][m])
          BY <2>1, <5>1, <5>2
        <5>4. G[t.kid[s][m]] = Val(F, t.kid[s][m])
          BY <2>3, <5>1, Zenon
        <5> HIDE DEF Val
        <5>5. QED
          BY <5>3, <5>4, Zenon
      <4>2. Val(F, m) = Val(G, m)
        BY Zenon, <1>4, <3>2, <4>1
      <4>3. QED
        BY <2>3, <4>2
    <3>3. QED
      BY <3>1, <3>2
  <2> HIDE DEF Val
  <2>5. QED
    BY <2>4
<1> HIDE DEF P
<1>7. \A n \in Nat : n \in P
  BY <1>5, <1>6, NaturalsIn
<1>8. N + 1 \in P
  BY <1>7
<1>9. PICK F : \A m \in Node : rank(m) < N + 1 => F[m] = Val(F, m)
  BY <1>8 DEF P
<1>10. PICK G : G = [m \in Node |-> F[m]]
  BY Zenon
<1>11. ASSUME NEW m \in Node PROVE G[m] = Val(G, m)
  <2>1. G[m] = F[m] /\ G[t.kid["left"][m]] = F[t.kid["left"][m]]
        /\ G[t.kid["right"][m]] = F[t.kid["right"][m]]
    BY <1>3, <1>4, <1>10
  <2>2. F[m] = Val(F, m)
    BY <1>2, <1>9
  <2>3. QED
    BY <2>1, <2>2
<1>12. G = [m \in Node |-> Val(G, m)]
  <2>1. G = [m \in Node |-> G[m]]
    BY <1>10
  <2> HIDE DEF Val
  <2>2. QED
    BY <1>11, <2>1
<1>13. QED
  BY Zenon, <1>12

(* The elements of E, none above one that comes later.                     *)
BottomUp(s, sub, E) ==
    /\ s \in Seq(Elem)
    /\ \A e \in Elem : e \in E <=> \E i \in 1..Len(s) : s[i] = e
    /\ \A i, j \in 1..Len(s) : i < j => s[j] \notin sub[s[i]]

(* What is freed below the two children, and then the node.                *)
LEMMA JoinBottomUp ==
    ASSUME NEW t \in Tree, NEW sub, Shape(t, sub), NEW m \in Elem,
           NEW a, BottomUp(a, sub, sub[t.kid["left"][m]]),
           NEW b, BottomUp(b, sub, sub[t.kid["right"][m]])
    PROVE  BottomUp(a \o b \o <<m>>, sub, sub[m])
<1>1. PICK l, r : l = t.kid["left"][m] /\ r = t.kid["right"][m]
  BY Zenon
<1>2. /\ l \in Node /\ r \in Node /\ m \in Node
      /\ sub[l] \subseteq Elem /\ sub[r] \subseteq Elem
  BY Zenon, <1>1, TreeTypes, Nodes, ShapeFacts DEF Side
<1>3. /\ a \in Seq(Elem) /\ b \in Seq(Elem)
      /\ \A e \in Elem : e \in sub[l] <=> \E i \in 1..Len(a) : a[i] = e
      /\ \A i, j \in 1..Len(a) : i < j => a[j] \notin sub[a[i]]
      /\ \A e \in Elem : e \in sub[r] <=> \E i \in 1..Len(b) : b[i] = e
      /\ \A i, j \in 1..Len(b) : i < j => b[j] \notin sub[b[i]]
  BY <1>1 DEF BottomUp
<1>4. /\ \A e \in Elem : e \in sub[m] <=> e = m \/ e \in sub[l] \/ e \in sub[r]
      /\ m \notin sub[l] /\ m \notin sub[r]
      /\ \A e \in sub[l] : e \notin sub[r]
  <2>1. \A e \in Elem : e \in sub[m] <=> e = m \/ e \in sub[l] \/ e \in sub[r]
    BY <1>1 DEF Shape, Subtrees, Side
  <2>2. m \notin sub[l] /\ m \notin sub[r]
    BY <1>1, ShapeFacts DEF Side
  <2>3. ASSUME NEW e \in sub[l], e \in sub[r] PROVE FALSE
    <3>1. Before("left", e, m) /\ Before("right", e, m)
      BY <1>1, <2>3 DEF Shape, Sided, Side
    <3>2. e \in Nat /\ m \in Nat
      BY Zenon, <1>2, Nodes
    <3>3. QED
      BY <3>1, <3>2 DEF Before
  <2>4. QED
    BY <2>1, <2>2, <2>3
<1>5. /\ \A e \in sub[l] : sub[e] \subseteq sub[l]
      /\ \A e \in sub[r] : sub[e] \subseteq sub[r]
  BY <1>2, Nested
<1>6. PICK c, k, n : c = a \o b \o <<m>> /\ k = Len(a) /\ n = Len(b)
  BY Zenon
<1>7. /\ k \in Nat /\ n \in Nat /\ c \in Seq(Elem) /\ Len(c) = k + n + 1
      /\ \A i \in 1..k : c[i] = a[i]
      /\ \A i \in 1..n : c[k + i] = b[i]
      /\ c[k + n + 1] = m
  <2>1. PICK d : d = a \o b
    BY Zenon
  <2>2. /\ d \in Seq(Elem) /\ Len(d) = k + n /\ k \in Nat /\ n \in Nat
        /\ \A i \in 1..k : d[i] = a[i]
        /\ \A i \in 1..n : d[k + i] = b[i]
    BY <1>3, <1>6, <2>1
  <2>3. /\ c \in Seq(Elem) /\ Len(c) = Len(d) + 1
        /\ \A i \in 1..Len(d) : c[i] = d[i]
        /\ c[Len(d) + 1] = m
    <3>1. c = Append(d, m)
      BY <1>6, <2>1, <2>2, AppendIsConcat
    <3>2. QED
      BY <2>2, <3>1, AppendProperties
  <2>4. \A i \in 1..n : k + i \in 1..Len(d)
    BY <2>2
  <2>5. QED
    BY <2>2, <2>3, <2>4
<1>8. \A i \in 1..k : c[i] \in sub[l] /\ c[i] \in Elem
  BY <1>3, <1>6, <1>7
<1>9. \A i \in 1..n : c[k + i] \in sub[r] /\ c[k + i] \in Elem
  BY <1>3, <1>6, <1>7
<1>10. \A i \in 1..Len(c) : i \in 1..k \/ i = k + n + 1 \/ \E q \in 1..n : i = k + q
  <2>1. ASSUME NEW i \in 1..Len(c), i \notin 1..k, i # k + n + 1
        PROVE  i - k \in 1..n /\ i = k + (i - k)
    BY <1>7, <2>1
  <2>2. QED
    BY <2>1
<1>11. \A e \in Elem : e \in sub[m] <=> \E i \in 1..Len(c) : c[i] = e
  <2>1. ASSUME NEW e \in Elem, e \in sub[m] PROVE \E i \in 1..Len(c) : c[i] = e
    <3>1. CASE e = m
      BY <1>7, <3>1
    <3>2. CASE e \in sub[l]
      <4>1. PICK i \in 1..Len(a) : a[i] = e
        BY <1>3, <3>2
      <4>2. i \in 1..Len(c) /\ c[i] = e
        BY <1>6, <1>7, <4>1
      <4>3. QED
        BY <4>2
    <3>3. CASE e \in sub[r]
      <4>1. PICK i \in 1..Len(b) : b[i] = e
        BY <1>3, <3>3
      <4>2. k + i \in 1..Len(c) /\ c[k + i] = e
        BY <1>6, <1>7, <4>1
      <4>3. QED
        BY <4>2
    <3>4. QED
      BY <1>4, <2>1, <3>1, <3>2, <3>3
  <2>2. ASSUME NEW i \in 1..Len(c) PROVE c[i] \in sub[m]
    BY Zenon, <1>4, <1>7, <1>8, <1>9, <1>10
  <2>3. QED
    BY Zenon, <2>1, <2>2
<1>12. ASSUME NEW i \in 1..Len(c), NEW j \in 1..Len(c), i < j PROVE c[j] \notin sub[c[i]]
  <2>1. CASE i \in 1..k
    <3>1. c[i] \in sub[l] /\ sub[c[i]] \subseteq sub[l] /\ c[i] = a[i]
      BY <1>5, <1>7, <1>8, <2>1
    <3>2. CASE j \in 1..k
      BY <1>3, <1>6, <1>7, <1>12, <2>1, <3>2
    <3>3. CASE j = k + n + 1
      BY <1>4, <1>7, <3>1, <3>3
    <3>4. CASE \E q \in 1..n : j = k + q
      BY <1>4, <1>9, <3>1, <3>4
    <3>5. QED
      BY <1>10, <3>2, <3>3, <3>4
  <2>2. CASE \E q \in 1..n : i = k + q
    <3>1. PICK q \in 1..n : i = k + q
      BY <2>2
    <3>2. c[i] \in sub[r] /\ sub[c[i]] \subseteq sub[r] /\ c[i] = b[q]
      BY <1>5, <1>7, <1>9, <3>1
    <3>3. CASE j = k + n + 1
      BY <1>4, <1>7, <3>2, <3>3
    <3>4. CASE j # k + n + 1
      <4>1. PICK p \in 1..n : j = k + p
        BY <1>7, <1>10, <1>12, <3>1, <3>4
      <4>2. q < p /\ c[j] = b[p]
        BY <1>7, <1>12, <3>1, <4>1
      <4>3. b[p] \notin sub[b[q]]
        BY <1>3, <1>6, <4>1, <4>2
      <4>4. QED
        BY <3>2, <4>2, <4>3
    <3>5. QED
      BY <3>3, <3>4
  <2>3. CASE i = k + n + 1
    BY <1>7, <1>12, <2>3
  <2>4. QED
    BY <1>10, <2>1, <2>2, <2>3
<1>13. QED
  BY ZenonT(30), <1>6, <1>7, <1>11, <1>12 DEF BottomUp

(* The calls rb_destroy makes are in such an order.                        *)
LEMMA FreeCallsAre ==
    ASSUME NEW t \in Tree, NEW sub, Shape(t, sub), NEW n \in Node
    PROVE  BottomUp(FreeCalls(t, n), sub, sub[n])
<1> DEFINE Is(F) == F = [m \in Node |->
                            IF m = Nil THEN <<>>
                            ELSE F[t.kid["left"][m]] \o F[t.kid["right"][m]] \o <<m>>]
           C == CHOOSE F : Is(F)
           T == {m \in Node : BottomUp(C[m], sub, sub[m])}
<1>1. Is(C)
  BY Zenon, FreeCallsExist
<1>2. \A m \in Node : C[m] = IF m = Nil THEN <<>>
                             ELSE C[t.kid["left"][m]] \o C[t.kid["right"][m]] \o <<m>>
  BY Zenon, <1>1
<1> HIDE DEF C, Is
<1>3. Nil \in T
  <2>1. C[Nil] = <<>> /\ sub[Nil] = {}
    BY Zenon, <1>2, Nodes DEF Shape, Subtrees
  <2>2. PICK w : w = C[Nil]
    OBVIOUS
  <2>3. w \in Seq(Elem) /\ Len(w) = 0
    BY <2>1, <2>2
  <2>4. \A i \in 1..Len(w) : FALSE
    BY <2>3
  <2>5. BottomUp(w, sub, {})
    BY <2>3, <2>4 DEF BottomUp
  <2>6. QED
    BY Zenon, <2>1, <2>2, <2>5, Nodes
<1>4. ASSUME NEW m \in Elem, \A s \in Side : t.kid[s][m] \in T PROVE m \in T
  <2>1. /\ BottomUp(C[t.kid["left"][m]], sub, sub[t.kid["left"][m]])
        /\ BottomUp(C[t.kid["right"][m]], sub, sub[t.kid["right"][m]])
    BY <1>4 DEF Side
  <2>2. m \in Node /\ m # Nil
    BY Nodes
  <2>3. C[m] = C[t.kid["left"][m]] \o C[t.kid["right"][m]] \o <<m>>
    BY Zenon, <1>2, <2>2
  <2>4. QED
    BY Zenon, <2>1, <2>2, <2>3, JoinBottomUp
<1> HIDE DEF T
<1>5. \A m \in Node : m \in T
  BY Zenon, <1>3, <1>4, TreeInduction
<1>6. FreeCalls(t, n) = C[n]
  BY DEF FreeCalls, C, Is
<1>7. QED
  BY <1>5, <1>6 DEF T

(* Every element is handed out once, and after those below it:             *)
(* FreedBottomUp.                                                          *)
THEOREM AlwaysFreedBottomUp == Spec => []FreedBottomUp
<1>1. IInv => FreedBottomUp
  <2>1. SUFFICES ASSUME tree \in Tree, NEW E, Holds(tree, fix, E) PROVE FreedBottomUp
    BY DEF IInv, TypeOK
  <2>2. PICK sub : Shape(tree, sub) /\ sub[tree.pRoot] = E
    BY <2>1, HoldsShape
  <2>3. PICK calls : calls = FreeCalls(tree, tree.pRoot)
    OBVIOUS
  <2>4. BottomUp(calls, sub, E)
    BY <2>1, <2>2, <2>3, FreeCallsAre, TreeTypes
  <2>5. Elements(tree) = E /\ E \subseteq Elem /\ \A n \in Node : Below(tree, n) = sub[n]
    BY <2>1, <2>2, BelowIs, HoldsShape
  <2>6. /\ calls \in Seq(Elem) /\ DOMAIN calls = 1..Len(calls)
        /\ \A e \in Elem : e \in E <=> \E i \in 1..Len(calls) : calls[i] = e
        /\ \A i, j \in 1..Len(calls) : i < j => calls[j] \notin sub[calls[i]]
    BY <2>4 DEF BottomUp
  <2>7. \A i \in 1..Len(calls) : calls[i] \in Elem /\ calls[i] \in Node
    BY <2>6, Nodes
  <2>8. ToSet(calls) = Elements(tree)
    BY <2>5, <2>6, <2>7 DEF ToSet
  <2>9. \A i, j \in DOMAIN calls : i < j => calls[j] \notin Below(tree, calls[i])
    BY <2>5, <2>6, <2>7
  <2>10. QED
    BY <2>3, <2>8, <2>9 DEF FreedBottomUp
<1>2. QED
  BY <1>1, TreeHolds, PTL
=============================================================================
