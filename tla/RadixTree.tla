------------------------------ MODULE RadixTree ------------------------------
(***************************************************************************)
(* ngx_radix_tree.c: a binary tree of prefixes of addresses, its nodes cut *)
(* from pages and reused from a list of deleted ones.                      *)
(*                                                                         *)
(* Nodes are numbered in the order of their addresses, 0 is NULL.  A key   *)
(* with its mask is the sequence of the bits of the key that the mask      *)
(* covers, the first one the highest: the code looks at no others.         *)
(***************************************************************************)
EXTENDS Integers, FiniteSets, Sequences, SequencesExt

CONSTANTS
    Bits,          \* width of a key, 32 in the code
    PageNodes,     \* nodes in a page
    MaxPages,      \* bound on pages of the pool
    Preallocated   \* values of preallocate

ASSUME RadixAssumption ==
    /\ Bits \in Nat \ {0} /\ PageNodes \in Nat \ {0} /\ MaxPages \in Nat \ {0}
    /\ Preallocated \subseteq 0 .. Bits

VARIABLES
    tree,     \* left, right, parent, value of the nodes; free_list, start, size
    routes,   \* history: the prefixes that were inserted and not deleted
    crashed   \* the process has dereferenced NULL

radixVars == <<tree, routes, crashed>>

NoNode == 0
Root == 1
Nodes == 1 .. PageNodes * MaxPages

Keys == [1 .. Bits -> {0, 1}]
Nets == UNION {[1 .. len -> {0, 1}] : len \in 0 .. Bits}
NoValue == <<-1>>   \* NGX_RADIX_NO_VALUE

ASSUME PreallocationFits ==
    \A b \in Preallocated :
        Cardinality({p \in Nets : Len(p) <= b}) <= PageNodes * MaxPages

Child(t, n, bit) == IF bit = 1 THEN t.right[n] ELSE t.left[n]
SetChild(t, n, bit, c) ==
    IF bit = 1 THEN [t EXCEPT !.right[n] = c] ELSE [t EXCEPT !.left[n] = c]

(* The nodes on the way of key from the root: at depth 0, 1 ...; none where *)
(* there are no more.                                                       *)
Way(t, key) ==
    LET node[d \in 0 .. Len(key)] ==
            IF d = 0 THEN Root
            ELSE IF node[d - 1] = NoNode THEN NoNode
            ELSE Child(t, node[d - 1], key[d])
    IN  node

-----------------------------------------------------------------------------
(* ngx_radix_alloc: a deleted node, or the next one of the page, or of a    *)
(* new page of the pool, of which there are t.pages more.                   *)
CanAlloc(t) == t.free_list # NoNode \/ t.size # 0 \/ t.pages # 0
ngx_radix_alloc(t) ==
    IF t.free_list # NoNode
    THEN [node |-> t.free_list, tree |-> [t EXCEPT !.free_list = t.right[t.free_list]]]
    ELSE LET u == IF t.size # 0 THEN t
                  ELSE [t EXCEPT !.size = PageNodes, !.pages = @ - 1]
         IN  [node |-> u.start, tree |-> [u EXCEPT !.start = @ + 1, !.size = @ - 1]]

(* A new node under the last one.                                           *)
Cleared(t, n, parent) ==
    [t EXCEPT !.right[n] = NoNode, !.left[n] = NoNode, !.parent[n] = parent,
              !.value[n] = NoValue]

(* Mutant of Grow: the links of a node that is reused are not reset.        *)
GrowUncleared(acc, bit) ==
    IF ~acc.ok \/ ~CanAlloc(acc.tree) THEN [acc EXCEPT !.ok = FALSE]
    ELSE LET a == ngx_radix_alloc(acc.tree)
             u == [a.tree EXCEPT !.parent[a.node] = acc.node, !.value[a.node] = NoValue]
         IN  [acc EXCEPT !.tree = SetChild(u, acc.node, bit, a.node), !.node = a.node]

Grow(acc, bit) ==
    IF ~acc.ok \/ ~CanAlloc(acc.tree) THEN [acc EXCEPT !.ok = FALSE]
    ELSE LET a == ngx_radix_alloc(acc.tree)
             u == Cleared(a.tree, a.node, acc.node)
         IN  [acc EXCEPT !.tree = SetChild(u, acc.node, bit, a.node), !.node = a.node]

(* ngx_radix32tree_insert: down the tree as far as it goes; then either the *)
(* node is there, or those missing are made, which may end half-way.        *)
ngx_radix32tree_insert(t, p, value) ==
    LET way == Way(t, p)
        deepest == Max({d \in 0 .. Len(p) : way[d] # NoNode})
        turn[d \in deepest .. Len(p)] ==
            IF d = deepest THEN [ok |-> TRUE, tree |-> t, node |-> way[d]]
            ELSE Grow(turn[d - 1], p[d])
        grown == turn[Len(p)]
    IN  IF deepest = Len(p) /\ t.value[grown.node] # NoValue
        THEN [rc |-> "NGX_BUSY", tree |-> t]
        ELSE IF grown.ok
        THEN [rc |-> "NGX_OK", tree |-> [grown.tree EXCEPT !.value[grown.node] = value]]
        ELSE [rc |-> "NGX_ERROR", tree |-> grown.tree]

(* ngx_radix32tree_delete: a node with children only loses its value; a     *)
(* leaf goes to the list of free nodes, and with it the nodes above that    *)
(* have no other child and no value.  The root as a leaf has no parent.     *)
Leaf(t, n) == t.left[n] = NoNode /\ t.right[n] = NoNode

(* Mutant of Stays: a node with a value goes with its last child.           *)
StaysNoValue(t, way, p, d) == d = 0 \/ Child(t, way[d], 1 - p[d + 1]) # NoNode

(* The node at depth d of the way stays when the one below it is taken out. *)
Stays(t, way, p, d) ==
    \/ d = 0 \/ Child(t, way[d], 1 - p[d + 1]) # NoNode
    \/ t.value[way[d]] # NoValue

TakeOut(t, way, p, d) ==
    [SetChild(t, way[d - 1], p[d], NoNode) EXCEPT
        !.right[way[d]] = t.free_list, !.free_list = way[d]]

Prune(t, p) ==
    LET way == Way(t, p)
        top == Max({d \in 0 .. Len(p) - 1 : Stays(t, way, p, d)})
        turn[k \in 0 .. Len(p) - top] ==
            IF k = 0 THEN t ELSE TakeOut(turn[k - 1], way, p, Len(p) + 1 - k)
    IN  turn[Len(p) - top]

ngx_radix32tree_delete(t, p) ==
    LET n == Way(t, p)[Len(p)]
    IN  IF n = NoNode \/ (~Leaf(t, n) /\ t.value[n] = NoValue)
        THEN [rc |-> "NGX_ERROR", tree |-> t]
        ELSE IF ~Leaf(t, n)
        THEN [rc |-> "NGX_OK", tree |-> [t EXCEPT !.value[n] = NoValue]]
        ELSE [rc |-> "NGX_OK", tree |-> Prune(t, p)]

(* ngx_radix32tree_find: the value farthest down the way of the key.        *)
ngx_radix32tree_find(t, key) ==
    LET way == Way(t, key)
        found == {d \in 0 .. Len(key) : way[d] # NoNode /\ t.value[way[d]] # NoValue}
    IN  IF found = {} THEN NoValue ELSE t.value[way[Max(found)]]

-----------------------------------------------------------------------------
(* Calls.  The value of a prefix is its own, so that each can be told.      *)
Insert(p, pages) ==
    /\ ~crashed
    /\ LET r == ngx_radix32tree_insert([tree EXCEPT !.pages = pages], p, p)
       IN  /\ tree' = [r.tree EXCEPT !.pages = tree.pages - (pages - @)]
           /\ routes' = IF r.rc = "NGX_OK" THEN routes \cup {p} ELSE routes
    /\ UNCHANGED crashed

Delete(p) ==
    /\ ~crashed
    /\ IF Len(p) = 0 /\ Leaf(tree, Root)
       THEN crashed' = TRUE /\ UNCHANGED <<tree, routes>>
       ELSE LET r == ngx_radix32tree_delete(tree, p)
            IN  /\ tree' = r.tree
                /\ routes' = IF r.rc = "NGX_OK" THEN routes \ {p} ELSE routes
                /\ UNCHANGED crashed

(* ngx_radix_tree_create, with the nodes of all short prefixes, the shorter *)
(* ones first, those of one length in the order of their keys.              *)
Bare ==
    LET none == [n \in Nodes |-> NoNode]
    IN  [left |-> none, right |-> none, parent |-> none,
         value |-> [n \in Nodes |-> NoValue], free_list |-> NoNode,
         start |-> Root + 1, size |-> PageNodes - 1, pages |-> MaxPages - 1]
Level(len) ==
    LET level[d \in 0 .. len] ==
            IF d = 0 THEN <<<<>>>>
            ELSE [i \in 1 .. 2 * Len(level[d - 1]) |->
                     Append(level[d - 1][(i + 1) \div 2], (i + 1) % 2)]
    IN  level[len]
InsertAll(t, nets) ==
    LET turn[k \in 0 .. Len(nets)] ==
            IF k = 0 THEN t ELSE ngx_radix32tree_insert(turn[k - 1], nets[k], NoValue).tree
    IN  turn[Len(nets)]
ngx_radix_tree_create(preallocate) ==
    LET turn[d \in 0 .. preallocate] ==
            IF d = 0 THEN Bare ELSE InsertAll(turn[d - 1], Level(d))
    IN  turn[preallocate]

RadixInit == tree \in {ngx_radix_tree_create(b) : b \in Preallocated}
             /\ routes = {} /\ crashed = FALSE
RadixNext == \E p \in Nets : Delete(p) \/ \E k \in 0 .. tree.pages : Insert(p, k)
RadixSpec == RadixInit /\ [][RadixNext]_radixVars

-----------------------------------------------------------------------------
(* A search finds the longest of the prefixes that were inserted and not    *)
(* deleted, whatever was made, pruned and reused for others meanwhile, and  *)
(* if nodes could not be had.                                               *)
Covers(p, key) == \A d \in DOMAIN p : p[d] = key[d]
FindsLongest ==
    \A key \in Keys :
        LET covering == {p \in routes : Covers(p, key)}
            found == ngx_radix32tree_find(tree, key)
        IN  IF covering = {} THEN found = NoValue
            ELSE found \in covering /\ \A p \in covering : Len(p) <= Len(found)

(* Every node that was cut from a page is in the tree, where its parent     *)
(* knows it, or in the list of free nodes, once.                            *)
FreeNodes ==
    LET node[k \in 0 .. Cardinality(Nodes)] ==
            IF k = 0 THEN tree.free_list
            ELSE IF node[k - 1] = NoNode THEN NoNode ELSE tree.right[node[k - 1]]
    IN  node
InTree == (UNION {{Way(tree, key)[d] : d \in 0 .. Bits} : key \in Keys}) \ {NoNode}
NodesAccounted ==
    LET free == {FreeNodes[k] : k \in DOMAIN FreeNodes} \ {NoNode}
    IN  /\ FreeNodes[Cardinality(Nodes)] = NoNode
        /\ InTree \cap free = {} /\ InTree \cup free = 1 .. tree.start - 1
        /\ \A n \in InTree \ {Root} :
              /\ tree.parent[n] \in InTree
              /\ n \in {tree.left[tree.parent[n]], tree.right[tree.parent[n]]}
=============================================================================
