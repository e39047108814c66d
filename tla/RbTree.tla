------------------------------- MODULE RbTree --------------------------------
(***************************************************************************)
(* A tree of redblack.c in use.  rb_tree_add and rb_tree_remove hold the   *)
(* mutex of the tree, and the functions without one (the __ functions,     *)
(* rb_tree_flush, rb_tree_destroy) are for a caller that is alone: while a *)
(* call is under way there is no other.  The two repair loops take a step  *)
(* for each turn and one for their end; what comes before them is one step.*)
(***************************************************************************)
EXTENDS RedBlack, FiniteSets, SequencesExt

VARIABLES
    tree,
    fix         \* the repair loop under way, and the node it is at

vars == <<tree, fix>>

Loops == {"none", "insert", "delete"}

TypeOK == tree \in Tree /\ fix \in [loop : Loops, at : Node]

NoFix == [loop |-> "none", at |-> Nil]

\* Nobody is inside the tree.
Idle == fix.loop = "none"

Init == tree = EmptyTree /\ fix = NoFix

\* Fault: a refused element is counted.
rb_tree_add_counted(e) ==
    LET way == Find(tree, e)
    IN  /\ Idle
        /\ \/ way.node # Nil /\ tree' = [tree EXCEPT !.count = @ + 1] /\ fix' = fix
           \/ /\ way.node = Nil
              /\ tree' = Attach(tree, e, way.last)
              /\ fix' = [loop |-> "insert", at |-> e]

\* An element whose key is there already is refused.
rb_tree_add(e) ==
    LET way == Find(tree, e)
    IN  /\ Idle
        /\ \/ way.node # Nil /\ UNCHANGED vars
           \/ /\ way.node = Nil
              /\ tree' = Attach(tree, e, way.last)
              /\ fix' = [loop |-> "insert", at |-> e]

AddTurn ==
    LET turn == InsertTurn(tree, fix.at)
    IN  /\ fix.loop = "insert" /\ ~InsertOver(tree, fix.at)
        /\ tree' = turn.tree
        /\ fix' = [fix EXCEPT !.at = turn.at]

AddReturn ==
    /\ fix.loop = "insert" /\ InsertOver(tree, fix.at)
    /\ tree' = [InsertEnd(tree) EXCEPT !.count = @ + 1]
    /\ fix' = NoFix

\* Nothing reads e once it is unlinked.
rb_tree_remove(e) ==
    LET y == Unlinked(tree, e)
        t == Released(Delete(tree, e), {e})
    IN  /\ Idle
        /\ \/ Find(tree, e).node = Nil /\ UNCHANGED vars
           \/ /\ Find(tree, e).node # Nil /\ tree.color[y] = "red"
              /\ tree' = [t EXCEPT !.count = @ - 1]
              /\ fix' = fix
           \/ /\ Find(tree, e).node # Nil /\ tree.color[y] = "black"
              /\ tree' = t
              /\ fix' = [loop |-> "delete", at |-> OnlyChild(tree, y)]

RemoveTurn ==
    LET turn == DeleteTurn(tree, fix.at)
    IN  /\ fix.loop = "delete" /\ ~DeleteOver(tree, fix.at)
        /\ tree' = turn.tree
        /\ fix' = [fix EXCEPT !.at = turn.at]

RemoveReturn ==
    /\ fix.loop = "delete" /\ DeleteOver(tree, fix.at)
    /\ tree' = [DeleteEnd(tree, fix.at) EXCEPT !.count = @ - 1]
    /\ fix' = NoFix

\* Without a callback rb_tree_flush does nothing.
rb_tree_flush(fFreeCB) ==
    /\ Idle
    /\ tree' = IF fFreeCB THEN Flushed(tree) ELSE tree
    /\ fix' = fix

\* rb_tree_delete or rb_tree_destroy, and rb_tree_create.
Recreate == Idle /\ tree' = EmptyTree /\ fix' = fix

Next ==
    \/ \E e \in Elem : rb_tree_add(e) \/ rb_tree_remove(e)
    \/ AddTurn \/ AddReturn
    \/ RemoveTurn \/ RemoveReturn
    \/ \E fFreeCB \in BOOLEAN : rb_tree_flush(fFreeCB)
    \/ Recreate

Spec == Init /\ [][Next]_vars

\* What a call can find of an earlier one (the VIEW of the run).  The links of
\* pTree->root are left out, but for its parent while rb_delete_fix reads it:
\* rb_delete sets that first, and nothing reads the children.
LiveFields ==
    <<fix, tree.pRoot, tree.count, tree.color, IF Idle THEN Nil ELSE tree.up[Nil],
      [n \in Elem |-> <<tree.up[n], tree.kid["left"][n], tree.kid["right"][n]>>]>>

-----------------------------------------------------------------------------
(* Properties                                                              *)

\* Links down and links up agree, and nothing hangs twice.
Linked ==
    /\ tree.up[tree.pRoot] = Nil \/ tree.pRoot = Nil
    /\ \A n \in Elements(tree), d \in Side :
          tree.kid[d][n] = Nil \/ tree.up[tree.kid[d][n]] = n

\* What is left of an element is smaller, what is right of it greater.
Ordered ==
    \A n \in Elements(tree) :
        /\ \A m \in Below(tree, tree.kid["left"][n]) : m < n
        /\ \A m \in Below(tree, tree.kid["right"][n]) : m > n

\* The numbers of black nodes on the ways down from n.
BlackHeights(n) ==
    LET H[m \in Node] ==
            IF m = Nil THEN {0}
            ELSE {h + (IF tree.color[m] = "black" THEN 1 ELSE 0) :
                     h \in H[tree.kid["left"][m]] \union H[tree.kid["right"][m]]}
    IN  H[n]

\* The colours: the top and the ends are black, a red node has black children,
\* all ways down have as many black nodes.
Coloured ==
    /\ tree.color[tree.pRoot] = "black"
    /\ tree.color[Nil] = "black"
    /\ \A n \in Elements(tree), d \in Side :
          tree.color[n] = "red" => tree.color[tree.kid[d][n]] = "black"
    /\ \A g, h \in BlackHeights(tree.pRoot) : g = h

Counted == tree.count = Cardinality(Elements(tree))

\* Every step keeps the links and the order, and after every call the tree is a
\* red-black tree and its count right: the rotations of an insertion and of a
\* removal (redblack.c:886-954, 1072-1135) restore colours and balance, though
\* rb_delete lends pTree->root a parent and a right child and nothing takes
\* them back.
IsRedBlack ==
    /\ TypeOK /\ Linked /\ Ordered
    /\ Idle => Coloured /\ Counted

LoopOver ==
    \/ fix.loop = "insert" /\ InsertOver(tree, fix.at)
    \/ fix.loop = "delete" /\ DeleteOver(tree, fix.at)

GoesUp ==
    /\ fix'.at # Nil /\ fix'.at \notin Below(tree, fix.at)
    /\ Below(tree, fix.at) \subseteq Below(tree', fix'.at)

\* A turn of a repair loop goes up in the tree, or it is the last: the loops
\* end (redblack.c:893-944, 1076-1132).
RepairClimbs == [][~Idle /\ ~Idle' => LoopOver' \/ GoesUp]_vars

\* What a call under way has still to add to the count.
Uncounted == CASE fix.loop = "none"   -> 0
               [] fix.loop = "insert" -> 1
               [] fix.loop = "delete" -> -1

S == INSTANCE SortedSet WITH set <- Elements(tree), size <- tree.count + Uncounted

\* The calls implement a set and its count: an element is added once, removed
\* with nothing else, and pTree->count is the number of elements
\* (redblack.c:267-281, 324-340, 244-252).
ImplementsSet == S!Spec

\* Every search answers as the set would: a key is found when it is there,
\* get_first is the least element, get_next the least one above a key, in the
\* tree or not, and above a node; a step to the left leads to a smaller element
\* or to none, one to the right to a greater (redblack.c:382-399, 441-458,
\* 500-544, 588-626, 766-786).  A loop over get_next therefore skips nothing
\* that stays in the tree and meets nothing twice, whatever other threads add
\* and remove between its calls.
SearchesExact ==
    Idle =>
        /\ GetFirst(tree) = S!First
        /\ GetNextFromNode(tree, Nil) = S!First
        /\ \A k \in Elem :
              /\ Get(tree, k) = IF k \in Elements(tree) THEN k ELSE Nil
              /\ GetNext(tree, k) = S!Above(k)
        /\ Step(tree, Nil, 0) = tree.pRoot
        /\ \A n \in Elements(tree) :
              /\ GetNextFromNode(tree, n) = S!Above(n)
              /\ Step(tree, n, -1) < n
              /\ Step(tree, n, 1) \notin 1..n

Ascending(s) == \A i, j \in DOMAIN s : i < j => s[i] < s[j]

\* The elements of the calls of a walk that are visits of the given kinds.
Visited(calls, visits) ==
    LET made == SelectSeq(calls, LAMBDA c : c.visit \in visits)
    IN  [i \in DOMAIN made |-> made[i].elem]

\* Both walks meet every element once, in order (rb_walk at its middle visit),
\* and go no deeper than twice the logarithm of their number: the stack a
\* recursive walk needs is bounded (redblack.c:1151-1253).
WalksExact ==
    LET calls   == Walk(tree, tree.pRoot)
        middle  == Visited(calls, {"postorder", "leaf"})
        inorder == Visited(WalkInorder(tree, tree.pRoot), {"inorder"})
    IN  Idle =>
        /\ Ascending(inorder) /\ ToSet(inorder) = Elements(tree)
        /\ middle = inorder
        /\ ToSet(Visited(calls, {"preorder"})) = ToSet(Visited(calls, {"endorder"}))
        /\ \A i \in DOMAIN calls :
              2 ^ (calls[i].level + 1) <= (tree.count + 1) ^ 2

\* Whoever flushes or destroys the tree is handed every element once, and never
\* an element above one still to come: rb_destroy reads the links of a node
\* before the callback frees it (redblack.c:969-986).
FreedBottomUp ==
    LET calls == FreeCalls(tree, tree.pRoot)
    IN  Idle =>
        /\ ToSet(calls) = Elements(tree)
        /\ \A i, j \in DOMAIN calls :
              i < j => calls[j] \notin Below(tree, calls[i])
=============================================================================
