------------------------------ MODULE SortedSet ------------------------------
(***************************************************************************)
(* What the red-black tree of redblack.c promises its user: a set of       *)
(* elements and how many they are.                                         *)
(***************************************************************************)
EXTENDS Naturals, FiniteSets

CONSTANTS Elem       \* the elements an application adds

VARIABLES set,       \* the elements held
          size       \* the count kept with them

vars == <<set, size>>

Init == set = {} /\ size = 0

Put(e) == /\ e \notin set
          /\ set' = set \union {e}
          /\ size' = size + 1

Take(e) == /\ e \in set
           /\ set' = set \ {e}
           /\ size' = size - 1

Clear == set' = {} /\ size' = 0

Next == Clear \/ \E e \in Elem : Put(e) \/ Take(e)

Spec == Init /\ [][Next]_vars

(***************************************************************************)
(* The answers a user may rely on, 0 standing for NULL.                    *)
(***************************************************************************)
Least(E) == IF E = {} THEN 0 ELSE CHOOSE e \in E : \A f \in E : e <= f
First    == Least(set)
Above(k) == Least({e \in set : e > k})
=============================================================================
