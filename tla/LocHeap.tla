------------------------------ MODULE LocHeap ------------------------------
(* The heap of the timer service, gps/utils/LocHeap.cpp: a binary tree of   *)
(* nodes in which a parent never ranks lower than its children.  Data move  *)
(* between nodes, nodes do not; remove searches the tree by address.        *)
(*                                                                          *)
(* An operation on a node calls itself on a child: here it takes as its     *)
(* first parameter the operations on smaller trees, and Heaps builds those  *)
(* for trees of n levels from those for trees of n - 1.                     *)
EXTENDS Naturals

CONSTANTS
    HeapItems,  \* objects that are pushed, each once at a time
    HeapRank,   \* what outRanks compares, the soonest first
    HeapSteps   \* bound: operations in a row

ASSUME HeapAssumption ==
    /\ HeapRank \in [HeapItems -> Nat]
    /\ HeapSteps \in Nat

outRanks(a, b) == HeapRank[a] < HeapRank[b]

(* No node, and a node.                                                     *)
NIL == [mSize |-> 0]
Node(data, size, left, right) ==
    [mData |-> data, mSize |-> size, mLeft |-> left, mRight |-> right]
Leaf(data) == Node(data, 1, NIL, NIL)

----------------------------------------------------------------------------
(* Faulty variant: the new data goes down without being compared.           *)
PushBelow(sub, tree, data) ==
    IF tree = NIL THEN Leaf(data)
    ELSE IF tree.mLeft = NIL \/ (tree.mRight # NIL /\ tree.mLeft.mSize <= tree.mRight.mSize)
         THEN [tree EXCEPT !.mLeft = sub.push[@][data], !.mSize = @ + 1]
         ELSE [tree EXCEPT !.mRight = sub.push[@][data], !.mSize = @ + 1]

(* LocHeapNode::push keeps the higher of the two here and sends the other   *)
(* down the smaller subtree.                                                *)
PushNode(sub, tree, data) ==
    IF tree = NIL THEN Leaf(data)
    ELSE LET up == outRanks(data, tree.mData)
             above == IF up THEN data ELSE tree.mData
             below == IF up THEN tree.mData ELSE data
             toLeft == \/ tree.mLeft = NIL
                       \/ tree.mRight # NIL /\ tree.mLeft.mSize <= tree.mRight.mSize
         IN IF toLeft
            THEN Node(above, tree.mSize + 1, sub.push[tree.mLeft][below], tree.mRight)
            ELSE Node(above, tree.mSize + 1, tree.mLeft, sub.push[tree.mRight][below])

(* LocHeapNode::pop, what is left: the higher child moves up, all the way   *)
(* down to a leaf, which is detached.                                       *)
PopNode(sub, tree) ==
    IF tree = NIL \/ (tree.mLeft = NIL /\ tree.mRight = NIL) THEN NIL
    ELSE LET fromLeft == /\ tree.mLeft # NIL
                         /\ \/ tree.mRight = NIL
                            \/ outRanks(tree.mLeft.mData, tree.mRight.mData)
         IN IF fromLeft
            THEN Node(tree.mLeft.mData, tree.mSize - 1, sub.pop[tree.mLeft], tree.mRight)
            ELSE Node(tree.mRight.mData, tree.mSize - 1, tree.mLeft, sub.pop[tree.mRight])

(* LocHeapNode::remove, what is left: the data is searched where nothing    *)
(* above it ranks lower, on the left first.                                 *)
RemoveNode(sub, tree, data) ==
    IF tree = NIL THEN NIL
    ELSE IF tree.mData = data THEN PopNode(sub, tree)
    ELSE IF outRanks(data, tree.mData) THEN tree
    ELSE LET left == sub.remove[tree.mLeft][data]
             right == sub.remove[tree.mRight][data]
         IN IF left # tree.mLeft THEN Node(tree.mData, tree.mSize - 1, left, tree.mRight)
            ELSE IF right # tree.mRight THEN Node(tree.mData, tree.mSize - 1, tree.mLeft, right)
            ELSE tree

----------------------------------------------------------------------------
ItemsIn(sub, tree) ==
    IF tree = NIL THEN {}
    ELSE {tree.mData} \cup sub.items[tree.mLeft] \cup sub.items[tree.mRight]

(* checkNodes: a node has the size of its subtrees and itself, and neither  *)
(* child outranks it; and no object is in the tree twice.                   *)
checkNodes(sub, tree) ==
    /\ tree.mLeft \in sub.checked /\ tree.mRight \in sub.checked
    /\ tree.mSize = tree.mLeft.mSize + tree.mRight.mSize + 1
    /\ \A child \in {tree.mLeft, tree.mRight} \ {NIL} : ~outRanks(child.mData, tree.mData)
    /\ tree.mData \notin sub.items[tree.mLeft] \cup sub.items[tree.mRight]
    /\ sub.items[tree.mLeft] \cap sub.items[tree.mRight] = {}

NodesOver(trees) ==
    [mData : HeapItems, mSize : Nat \ {0}, mLeft : trees, mRight : trees]

(* The trees one operation later.                                           *)
OneStep(heap) ==
    LET after(t) == {heap.pop[t]}
                    \cup {heap.push[t][d] : d \in HeapItems \ heap.items[t]}
                    \cup {heap.remove[t][d] : d \in HeapItems}
    IN heap.built \cup UNION {after(t) : t \in heap.built}

(* Trees of some number of levels, those of them that are heaps, what they  *)
(* contain, the operations on them; and the trees that as many operations   *)
(* on the empty heap may lead to.                                           *)
HeapOf(sub, nodes, built) ==
    LET trees == {NIL} \cup nodes IN
    [trees   |-> trees,
     items   |-> [t \in trees |-> ItemsIn(sub, t)],
     checked |-> {NIL} \cup {t \in nodes : checkNodes(sub, t)},
     push    |-> [t \in trees |-> [d \in HeapItems |-> PushNode(sub, t, d)]],
     pop     |-> [t \in trees |-> PopNode(sub, t)],
     remove  |-> [t \in trees |-> [d \in HeapItems |-> RemoveNode(sub, t, d)]],
     built   |-> built]

(* A heap is empty at first, and grows by no more than a level at a time.   *)
Lowest == HeapOf(NIL, {}, {NIL})
Above(heap) == HeapOf(heap, NodesOver(heap.trees), OneStep(heap))

Heaps[n \in 0 .. HeapSteps] == IF n = 0 THEN Lowest ELSE Above(Heaps[n - 1])

(* After any pushes, pops and removals the heap is sorted and its sizes are *)
(* right; its top, which is what pop takes, is outranked by nothing, and    *)
(* each operation adds or takes that one object: what LocTimer assumes of   *)
(* its set of timers.                                                       *)
Sorts(t, heap, higher) ==
    /\ t \in heap.checked
    /\ t # NIL => /\ t.mData \in heap.items[t]
                  /\ \A d \in heap.items[t] : ~outRanks(d, t.mData)
                  /\ heap.items[heap.pop[t]] = heap.items[t] \ {t.mData}
    /\ \A d \in HeapItems :
          /\ heap.items[heap.remove[t][d]] = heap.items[t] \ {d}
          /\ d \notin heap.items[t] =>
                higher.items[heap.push[t][d]] = heap.items[t] \cup {d}

HeapSorts ==
    LET heap == Heaps[HeapSteps]
        higher == Above(heap)
    IN \A t \in heap.built : Sorts(t, heap, higher)
=============================================================================
