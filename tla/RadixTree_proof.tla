-------------------------- MODULE RadixTree_proof --------------------------
(***************************************************************************)
(* Theorems about RadixTree, for any width of keys, size of pages and      *)
(* number of pages: a search finds the longest prefix, and every node is   *)
(* in the tree or free.                                                    *)
(***************************************************************************)
EXTENDS RadixTree, Sums, SequenceTheorems

(* What is in a tree: net[n] is the prefix that node n stands for, for the  *)
(* nodes in the tree; the k free ones are free[1], free[2] ... .  R are the *)
(* prefixes that have a value.                                              *)
Links == Nodes \cup {NoNode}
Trees == [left : [Nodes -> Links], right : [Nodes -> Links], parent : [Nodes -> Links],
          value : [Nodes -> Nets \cup {NoValue}],
          free_list : Links, start : Nat, size : Nat, pages : Nat]

Placed(t, net) ==
    /\ net \in [DOMAIN net -> Nets] /\ DOMAIN net \subseteq Nodes
    /\ Root \in DOMAIN net /\ net[Root] = <<>>
    /\ \A n, m \in DOMAIN net : net[n] = net[m] => n = m
    /\ \A n \in DOMAIN net, b \in {0, 1} :
          Child(t, n, b) # NoNode => /\ Child(t, n, b) \in DOMAIN net
                                     /\ net[Child(t, n, b)] = Append(net[n], b)
    /\ \A n \in DOMAIN net \ {Root} :
          t.parent[n] \in DOMAIN net /\ \E b \in {0, 1} : Child(t, t.parent[n], b) = n

Valued(t, R, net) ==
    /\ \A n \in DOMAIN net : t.value[n] = IF net[n] \in R THEN net[n] ELSE NoValue
    /\ \A p \in R : \E n \in DOMAIN net : net[n] = p

Listed(t, T, k, free) ==
    /\ k \in Nat /\ free \in [1 .. k -> Nodes]
    /\ \A i, j \in 1 .. k : free[i] = free[j] => i = j
    /\ t.free_list = IF k = 0 THEN NoNode ELSE free[1]
    /\ \A i \in 1 .. k : t.right[free[i]] = IF i = k THEN NoNode ELSE free[i + 1]
    /\ \A i \in 1 .. k : free[i] \notin T
    /\ \A n \in Nodes : n < t.start <=> n \in T \/ \E i \in 1 .. k : free[i] = n

(* Nodes are still to be cut from the page in use and from those to come.   *)
Amount(t) == t.start + t.size + t.pages * PageNodes
Room(t) == t.start > Root /\ Amount(t) <= PageNodes * MaxPages + 1

Sound(t, R, net, k, free) ==
    /\ t \in Trees /\ Placed(t, net) /\ Valued(t, R, net) /\ Listed(t, DOMAIN net, k, free)
    /\ Room(t)

Intact(t, R) == \E net, k, free : Sound(t, R, net, k, free)
RadixInv == routes \subseteq Nets /\ Intact(tree, routes)

-----------------------------------------------------------------------------
(* Numbers: the greatest of some, and induction up to a bound.              *)
LEMMA GreatestIn ==
    ASSUME NEW n \in Nat, NEW S \in SUBSET (0 .. n), S # {}
    PROVE  Max(S) \in S /\ \A y \in S : y <= Max(S)
<1> DEFINE T == {n - x : x \in S}
<1>1. T \in SUBSET Nat /\ T # {}
  <2>1. PICK x \in S : TRUE
    OBVIOUS
  <2>2. n - x \in T
    OBVIOUS
  <2>3. T \in SUBSET Nat
    OBVIOUS
  <2> QED BY <2>2, <2>3
<1>2. PICK m \in T : \A k \in T : m <= k
  <2> HIDE DEF T
  <2> QED BY <1>1, SmallestNumber
<1>3. PICK x \in S : m = n - x
  OBVIOUS
<1>4. ASSUME NEW y \in S PROVE x >= y /\ y <= x
  <2>1. n - y \in T
    OBVIOUS
  <2>2. m <= n - y
    BY <1>2, <2>1
  <2> QED BY <1>3, <2>2
<1> QED BY <1>4 DEF Max

LEMMA UpTo ==
    ASSUME NEW n \in Nat, NEW Good \in SUBSET (0 .. n), 0 \in Good,
           \A d \in 1 .. n : d - 1 \in Good => d \in Good
    PROVE  \A d \in 0 .. n : d \in Good
<1> SUFFICES ASSUME (0 .. n) \ Good # {} PROVE FALSE
  OBVIOUS
<1> DEFINE Bad == (0 .. n) \ Good
<1>1. PICK m \in Bad : \A k \in Bad : m <= k
  <2>1. Bad \in SUBSET Nat /\ Bad # {}
    OBVIOUS
  <2> HIDE DEF Bad
  <2> QED BY <2>1, SmallestNumber
<1>2. m \in 1 .. n /\ m - 1 \in 0 .. n /\ ~(m <= m - 1)
  OBVIOUS
<1> QED BY <1>1, <1>2

-----------------------------------------------------------------------------
(* Prefixes.                                                                *)
Prefix(p, d) == [i \in 1 .. d |-> p[i]]

LEMMA NetMade ==
    ASSUME NEW len \in 0 .. Bits, NEW p \in [1 .. len -> {0, 1}]
    PROVE  p \in Nets /\ Len(p) = len /\ p \in Seq({0, 1})
<1>1. len \in Nat
  BY RadixAssumption
<1>2. p \in Seq({0, 1})
  BY <1>1, SeqDef
<1> QED BY <1>1, <1>2, LenProperties DEF Nets

LEMMA NetFacts ==
    ASSUME NEW p \in Nets
    PROVE  /\ Len(p) \in 0 .. Bits /\ Len(p) \in Nat /\ Bits \in Nat
           /\ p \in [1 .. Len(p) -> {0, 1}] /\ p \in Seq({0, 1})
<1>1. PICK len \in 0 .. Bits : p \in [1 .. len -> {0, 1}]
  BY DEF Nets
<1> QED BY <1>1, NetMade, RadixAssumption

LEMMA NoNet == NoValue \notin Nets
<1> SUFFICES ASSUME NoValue \in Nets PROVE FALSE
  OBVIOUS
<1>1. NoValue \in [1 .. Len(NoValue) -> {0, 1}] /\ Len(NoValue) = 1
  BY NetFacts DEF NoValue
<1>2. NoValue[1] \in {0, 1}
  BY <1>1
<1> QED BY <1>2 DEF NoValue

LEMMA NetAppend ==
    ASSUME NEW p \in Nets, NEW b \in {0, 1}
    PROVE  /\ Len(Append(p, b)) = Len(p) + 1
           /\ Append(p, b)[Len(p) + 1] = b
           /\ \A i \in 1 .. Len(p) : Append(p, b)[i] = p[i]
           /\ Append(p, b) # <<>>
           /\ Len(p) < Bits => Append(p, b) \in Nets
<1>1. p \in Seq({0, 1}) /\ Len(p) \in Nat /\ Bits \in Nat
  BY NetFacts
<1>2. /\ Len(Append(p, b)) = Len(p) + 1 /\ Append(p, b)[Len(p) + 1] = b
      /\ \A i \in 1 .. Len(p) : Append(p, b)[i] = p[i]
      /\ Append(p, b) \in Seq({0, 1}) /\ Append(p, b) # <<>>
  BY <1>1, AppendProperties
<1>3. Append(p, b) \in [1 .. Len(p) + 1 -> {0, 1}]
  <2> DEFINE q == Append(p, b)
  <2> HIDE DEF q
  <2>1. q \in Seq({0, 1}) => q \in [1 .. Len(q) -> {0, 1}]
    BY LenProperties
  <2> QED BY <1>2, <2>1 DEF q
<1>4. ASSUME Len(p) < Bits PROVE Append(p, b) \in Nets
  <2>1. Len(p) + 1 \in 0 .. Bits
    BY <1>1, <1>4
  <2> QED BY <1>3, <2>1, NetMade
<1> QED BY <1>2, <1>4

LEMMA AppendSame ==
    ASSUME NEW p \in Nets, NEW q \in Nets, NEW b \in {0, 1}, NEW c \in {0, 1},
           Append(p, b) = Append(q, c)
    PROVE  p = q /\ b = c
<1>1. Len(p) = Len(q) /\ Len(p) \in Nat /\ Len(q) \in Nat
  BY NetAppend, NetFacts
<1>2. b = c /\ \A i \in 1 .. Len(p) : p[i] = q[i]
  BY <1>1, NetAppend
<1>3. p \in [1 .. Len(p) -> {0, 1}] /\ q \in [1 .. Len(p) -> {0, 1}]
  BY <1>1, NetFacts
<1> QED BY <1>2, <1>3

LEMMA PrefixFacts ==
    ASSUME NEW p \in Nets
    PROVE  /\ Prefix(p, 0) = <<>> /\ Prefix(p, Len(p)) = p
           /\ \A d \in 0 .. Len(p) : Prefix(p, d) \in Nets /\ Len(Prefix(p, d)) = d
           /\ \A d \in 1 .. Len(p) : /\ Prefix(p, d) = Append(Prefix(p, d - 1), p[d])
                                     /\ p[d] \in {0, 1}
<1>1. Len(p) \in 0 .. Bits /\ p \in [1 .. Len(p) -> {0, 1}] /\ Bits \in Nat
  BY NetFacts
<1>2. Prefix(p, 0) = <<>> /\ Prefix(p, Len(p)) = p
  BY <1>1 DEF Prefix
<1>3. ASSUME NEW d \in 0 .. Len(p) PROVE Prefix(p, d) \in Nets /\ Len(Prefix(p, d)) = d
  <2>1. Prefix(p, d) \in [1 .. d -> {0, 1}] /\ d \in 0 .. Bits
    BY <1>1 DEF Prefix
  <2> QED BY <2>1, NetMade
<1>4. ASSUME NEW d \in 1 .. Len(p)
      PROVE  Prefix(p, d) = Append(Prefix(p, d - 1), p[d]) /\ p[d] \in {0, 1}
  <2>1. p[d] \in {0, 1} /\ d - 1 \in 0 .. Len(p) /\ d \in 0 .. Len(p)
    BY <1>1
  <2>2. /\ Prefix(p, d - 1) \in Nets /\ Len(Prefix(p, d - 1)) = d - 1
        /\ Prefix(p, d) \in Nets /\ Len(Prefix(p, d)) = d
    BY <1>3, <2>1
  <2> DEFINE q == Append(Prefix(p, d - 1), p[d])
  <2>3. Len(q) = d /\ q[d] = p[d] /\ \A i \in 1 .. d - 1 : q[i] = Prefix(p, d - 1)[i]
    <3>1. d - 1 + 1 = d
      OBVIOUS
    <3> QED BY <2>1, <2>2, <3>1, NetAppend
  <2>4. q \in Nets
    BY <1>1, <2>1, <2>2, NetAppend
  <2> HIDE DEF q
  <2>5. q \in [1 .. d -> {0, 1}]
    BY <2>3, <2>4, NetFacts
  <2>6. \A i \in 1 .. d : q[i] = p[i]
    BY <2>3 DEF Prefix
  <2>7. q = Prefix(p, d)
    BY <2>5, <2>6 DEF Prefix
  <2> QED BY <2>1, <2>7 DEF q
<1> QED BY <1>2, <1>3, <1>4

-----------------------------------------------------------------------------
(* The way of a key through a tree: at depth d the node that stands for its *)
(* first d bits, if there is one.                                           *)
At(net, p) == IF \E n \in DOMAIN net : net[n] = p
              THEN CHOOSE n \in DOMAIN net : net[n] = p ELSE NoNode

LEMMA NodeFacts ==
    /\ NoNode \notin Nodes /\ Root \in Nodes /\ NoNode = 0 /\ Root = 1
    /\ PageNodes * MaxPages \in Nat /\ PageNodes * MaxPages > 0
<1>1. PageNodes \in Nat /\ MaxPages \in Nat /\ PageNodes > 0 /\ MaxPages > 0
  BY RadixAssumption
<1>2. PageNodes * MaxPages \in Nat /\ PageNodes * MaxPages > 0
  BY <1>1
<1> QED BY <1>2 DEF NoNode, Root, Nodes

LEMMA AtNode ==
    ASSUME NEW t, NEW net, Placed(t, net), NEW n \in DOMAIN net
    PROVE  At(net, net[n]) = n /\ n # NoNode /\ n \in Nodes
BY NodeFacts DEF At, Placed

LEMMA AtFound ==
    ASSUME NEW t, NEW net, Placed(t, net), NEW p, At(net, p) # NoNode
    PROVE  At(net, p) \in DOMAIN net /\ net[At(net, p)] = p
BY DEF At

LEMMA AtChild ==
    ASSUME NEW t, NEW net, Placed(t, net), NEW n \in DOMAIN net, NEW b \in {0, 1}
    PROVE  At(net, Append(net[n], b)) = Child(t, n, b)
<1> DEFINE q == Append(net[n], b)
<1>1. CASE Child(t, n, b) # NoNode
  <2>1. Child(t, n, b) \in DOMAIN net /\ net[Child(t, n, b)] = q
    BY <1>1 DEF Placed
  <2> QED BY <2>1, AtNode
<1>2. CASE Child(t, n, b) = NoNode
  <2> SUFFICES ASSUME NEW m \in DOMAIN net, net[m] = q PROVE FALSE
    BY <1>2 DEF At
  <2>1. net[n] \in Nets /\ q # <<>>
    BY NetAppend DEF Placed
  <2>2. m # Root
    BY <2>1 DEF Placed
  <2>3. PICK c \in {0, 1} : t.parent[m] \in DOMAIN net /\ Child(t, t.parent[m], c) = m
    BY <2>2 DEF Placed
  <2>4. m # NoNode
    BY AtNode
  <2>5. net[m] = Append(net[t.parent[m]], c) /\ net[t.parent[m]] \in Nets
    BY <2>3, <2>4 DEF Placed
  <2>6. net[t.parent[m]] = net[n] /\ c = b
    <3>1. PICK x \in Nets : x = net[t.parent[m]]
      BY <2>5
    <3>2. PICK y \in Nets : y = net[n]
      BY <2>1
    <3>3. Append(x, c) = Append(y, b)
      BY <2>5, <3>1, <3>2
    <3> HIDE DEF q
    <3>4. x = y /\ c = b
      BY <3>3, AppendSame
    <3> QED BY <3>1, <3>2, <3>4
  <2>7. t.parent[m] = n
    BY <2>3, <2>6 DEF Placed
  <2> QED BY <1>2, <2>3, <2>4, <2>6, <2>7
<1> QED BY <1>1, <1>2

LEMMA AtNone ==
    ASSUME NEW t, NEW net, Placed(t, net), NEW p \in Nets, NEW b \in {0, 1},
           At(net, p) = NoNode
    PROVE  At(net, Append(p, b)) = NoNode
<1> SUFFICES ASSUME NEW m \in DOMAIN net, net[m] = Append(p, b) PROVE FALSE
  BY DEF At
<1>1. m # Root /\ m # NoNode
  <2>1. net[Root] = <<>>
    BY DEF Placed
  <2> QED BY <2>1, NetAppend, AtNode
<1>2. PICK c \in {0, 1} : t.parent[m] \in DOMAIN net /\ Child(t, t.parent[m], c) = m
  BY <1>1 DEF Placed
<1>3. net[m] = Append(net[t.parent[m]], c) /\ net[t.parent[m]] \in Nets
  BY <1>1, <1>2 DEF Placed
<1>4. net[t.parent[m]] = p
  BY <1>3, AppendSame
<1> QED BY <1>2, <1>4, AtNode

Going(t, key, node) ==
    node = [d \in 0 .. Len(key) |->
               IF d = 0 THEN Root
               ELSE IF node[d - 1] = NoNode THEN NoNode
               ELSE Child(t, node[d - 1], key[d])]

LEMMA WaySound ==
    ASSUME NEW t, NEW net, Placed(t, net), NEW key \in Nets
    PROVE  /\ Way(t, key) = [d \in 0 .. Len(key) |-> At(net, Prefix(key, d))]
           /\ \A d \in 0 .. Len(key) : Way(t, key)[d] = At(net, Prefix(key, d))
<1> DEFINE w == [d \in 0 .. Len(key) |-> At(net, Prefix(key, d))]
<1>1. Len(key) \in Nat
  BY NetFacts
<1>2. w[0] = Root
  <2>1. Root \in DOMAIN net /\ net[Root] = <<>>
    BY DEF Placed
  <2>2. At(net, net[Root]) = Root
    BY <2>1, AtNode
  <2> QED BY <1>1, <2>1, <2>2, PrefixFacts
<1>3. ASSUME NEW d \in 1 .. Len(key)
      PROVE  w[d] = IF w[d - 1] = NoNode THEN NoNode ELSE Child(t, w[d - 1], key[d])
  <2>1. d - 1 \in 0 .. Len(key) /\ d \in 0 .. Len(key)
    BY <1>1
  <2>2. /\ Prefix(key, d - 1) \in Nets /\ key[d] \in {0, 1}
        /\ Prefix(key, d) = Append(Prefix(key, d - 1), key[d])
    BY <2>1, PrefixFacts
  <2>3. w[d - 1] = At(net, Prefix(key, d - 1)) /\ w[d] = At(net, Prefix(key, d))
    BY <2>1
  <2>4. CASE w[d - 1] = NoNode
    BY <2>2, <2>3, <2>4, AtNone
  <2>5. CASE w[d - 1] # NoNode
    <3>1. w[d - 1] \in DOMAIN net /\ net[w[d - 1]] = Prefix(key, d - 1)
      BY <2>3, <2>5, AtFound
    <3> HIDE DEF w
    <3> QED BY <2>2, <2>3, <2>5, <3>1, AtChild
  <2> QED BY <2>4, <2>5
<1>4. Going(t, key, w)
  <2>1. ASSUME NEW d \in 0 .. Len(key)
        PROVE  w[d] = IF d = 0 THEN Root
                      ELSE IF w[d - 1] = NoNode THEN NoNode
                      ELSE Child(t, w[d - 1], key[d])
    <3>1. d = 0 \/ d \in 1 .. Len(key)
      BY <1>1
    <3> HIDE DEF w
    <3> QED BY <1>2, <1>3, <3>1
  <2>2. w = [d \in 0 .. Len(key) |-> w[d]]
    OBVIOUS
  <2> HIDE DEF w
  <2> QED BY <2>1, <2>2 DEF Going
<1>5. Way(t, key) = CHOOSE node : Going(t, key, node)
  BY DEF Way, Going
<1>6. Going(t, key, Way(t, key))
  <2> HIDE DEF w
  <2> QED BY <1>4, <1>5
<1>7. \A d \in 0 .. Len(key) : Way(t, key)[d] = w[d]
  <2> DEFINE v == Way(t, key)
             Good == {d \in 0 .. Len(key) : v[d] = w[d]}
  <2>1. v = [d \in 0 .. Len(key) |->
               IF d = 0 THEN Root
               ELSE IF v[d - 1] = NoNode THEN NoNode
               ELSE Child(t, v[d - 1], key[d])]
    BY <1>6 DEF Going
  <2> HIDE DEF v, w
  <2>2. 0 \in Good
    BY <1>1, <1>2, <2>1
  <2>3. ASSUME NEW d \in 1 .. Len(key), d - 1 \in Good PROVE d \in Good
    <3>1. d \in 0 .. Len(key) /\ d # 0
      BY <1>1
    <3>2. v[d] = IF v[d - 1] = NoNode THEN NoNode ELSE Child(t, v[d - 1], key[d])
      BY <2>1, <3>1
    <3> QED BY <1>3, <2>3, <3>1, <3>2
  <2>4. Good \in SUBSET (0 .. Len(key))
    OBVIOUS
  <2> HIDE DEF Good
  <2>5. \A d \in 0 .. Len(key) : d \in Good
    BY <1>1, <2>2, <2>3, <2>4, UpTo
  <2> USE DEF Good
  <2> QED BY <2>5 DEF v
<1>8. Way(t, key) = [d \in 0 .. Len(key) |-> Way(t, key)[d]]
  BY <1>6 DEF Going
<1>9. Way(t, key) = w
  <2>1. \A d \in 0 .. Len(key) : Way(t, key)[d] = At(net, Prefix(key, d))
    BY <1>7
  <2> HIDE DEF w
  <2> QED BY <1>8, <2>1 DEF w
<1> QED BY <1>9

-----------------------------------------------------------------------------
(* What the assignments to fields of a node change.                         *)
LEMMA ChildSet ==
    ASSUME NEW t \in Trees, NEW n \in Nodes, NEW b \in {0, 1}, NEW c \in Links,
           NEW u, u = SetChild(t, n, b, c)
    PROVE  /\ u \in Trees
           /\ \A x \in Nodes, y \in {0, 1} :
                 Child(u, x, y) = IF x = n /\ y = b THEN c ELSE Child(t, x, y)
           /\ \A x \in Nodes \ {n} : u.left[x] = t.left[x] /\ u.right[x] = t.right[x]
           /\ u.parent = t.parent /\ u.value = t.value /\ u.free_list = t.free_list
           /\ u.start = t.start /\ u.size = t.size /\ u.pages = t.pages
<1>1. CASE b = 1
  <2>1. u = [t EXCEPT !.right = [t.right EXCEPT ![n] = c]]
    BY <1>1 DEF SetChild
  <2>2. [t.right EXCEPT ![n] = c] \in [Nodes -> Links]
    BY DEF Trees
  <2>3. /\ u \in Trees /\ u.right = [t.right EXCEPT ![n] = c] /\ u.left = t.left
        /\ u.parent = t.parent /\ u.value = t.value /\ u.free_list = t.free_list
        /\ u.start = t.start /\ u.size = t.size /\ u.pages = t.pages
    BY <2>1, <2>2 DEF Trees
  <2>4. u.right[n] = c /\ \A x \in Nodes \ {n} : u.right[x] = t.right[x]
    BY <2>3 DEF Trees
  <2> QED BY <1>1, <2>3, <2>4 DEF Child
<1>2. CASE b = 0
  <2>1. u = [t EXCEPT !.left = [t.left EXCEPT ![n] = c]]
    BY <1>2 DEF SetChild
  <2>2. [t.left EXCEPT ![n] = c] \in [Nodes -> Links]
    BY DEF Trees
  <2>3. /\ u \in Trees /\ u.left = [t.left EXCEPT ![n] = c] /\ u.right = t.right
        /\ u.parent = t.parent /\ u.value = t.value /\ u.free_list = t.free_list
        /\ u.start = t.start /\ u.size = t.size /\ u.pages = t.pages
    BY <2>1, <2>2 DEF Trees
  <2>4. u.left[n] = c /\ \A x \in Nodes \ {n} : u.left[x] = t.left[x]
    BY <2>3 DEF Trees
  <2> QED BY <1>2, <2>3, <2>4 DEF Child
<1> QED BY <1>1, <1>2

LEMMA PlacedSame ==
    ASSUME NEW t, NEW u, NEW net, Placed(t, net),
           \A n \in DOMAIN net : /\ u.left[n] = t.left[n] /\ u.right[n] = t.right[n]
                                 /\ u.parent[n] = t.parent[n]
    PROVE  Placed(u, net)
<1>1. \A n \in DOMAIN net, b \in {0, 1} : Child(u, n, b) = Child(t, n, b)
  BY DEF Child
<1> QED BY <1>1 DEF Placed

LEMMA ListedSame ==
    ASSUME NEW t, NEW u, NEW T, NEW k, NEW free, Listed(t, T, k, free),
           u.free_list = t.free_list, u.start = t.start,
           \A n \in Nodes \ T : u.right[n] = t.right[n]
    PROVE  Listed(u, T, k, free)
BY DEF Listed

WithValue(t, R, net, k, free, n, v, u) ==
    /\ Sound(u, IF v = NoValue THEN R \ {net[n]} ELSE R \cup {net[n]}, net, k, free)
    /\ Amount(u) = Amount(t) /\ u.pages = t.pages

LEMMA ValueSet ==
    ASSUME NEW t, NEW R, NEW net, NEW k, NEW free, Sound(t, R, net, k, free),
           NEW n, n \in DOMAIN net, NEW v, v = net[n] \/ v = NoValue,
           NEW u, u = [t EXCEPT !.value[n] = v]
    PROVE  WithValue(t, R, net, k, free, n, v, u)
<1> DEFINE S == IF v = NoValue THEN R \ {net[n]} ELSE R \cup {net[n]}
<1>1. t \in Trees /\ n \in Nodes /\ net[n] \in Nets /\ v \in Nets \cup {NoValue}
  BY DEF Sound, Placed
<1>2. u = [t EXCEPT !.value = [t.value EXCEPT ![n] = v]]
  OBVIOUS
<1>3. [t.value EXCEPT ![n] = v] \in [Nodes -> Nets \cup {NoValue}]
  BY <1>1 DEF Trees
<1>4. /\ u \in Trees /\ u.value = [t.value EXCEPT ![n] = v] /\ u.left = t.left
      /\ u.right = t.right /\ u.parent = t.parent /\ u.free_list = t.free_list
      /\ u.start = t.start /\ u.size = t.size /\ u.pages = t.pages
  BY <1>1, <1>2, <1>3 DEF Trees
<1>5. u.value[n] = v /\ \A x \in Nodes \ {n} : u.value[x] = t.value[x]
  BY <1>1, <1>4 DEF Trees
<1>6. Placed(t, net) /\ Valued(t, R, net) /\ Listed(t, DOMAIN net, k, free) /\ Room(t)
  BY DEF Sound
<1> HIDE DEF S
<1>7. Placed(u, net) /\ Listed(u, DOMAIN net, k, free)
  BY <1>4, <1>6, PlacedSame, ListedSame
<1>8. Amount(u) = Amount(t) /\ Room(u)
  BY <1>4, <1>6 DEF Amount, Room
<1>9. \A x \in DOMAIN net \ {n} : net[x] # net[n] /\ x \in Nodes
  BY <1>6 DEF Placed
<1>10. v # NoValue => v = net[n]
  OBVIOUS
<1>11. net[n] # NoValue
  BY <1>1, NoNet
<1>12. \A x \in DOMAIN net : u.value[x] = IF net[x] \in S THEN net[x] ELSE NoValue
  <2> SUFFICES ASSUME NEW x \in DOMAIN net
               PROVE  u.value[x] = IF net[x] \in S THEN net[x] ELSE NoValue
    OBVIOUS
  <2>1. CASE x = n
    BY <1>5, <1>10, <1>11, <2>1 DEF S
  <2>2. CASE x # n
    <3>1. u.value[x] = t.value[x] /\ net[x] # net[n]
      BY <1>5, <1>9, <2>2
    <3>2. t.value[x] = IF net[x] \in R THEN net[x] ELSE NoValue
      BY <1>6 DEF Valued
    <3>3. net[x] \in S <=> net[x] \in R
      BY <3>1 DEF S
    <3> QED BY <3>1, <3>2, <3>3
  <2> QED BY <2>1, <2>2
<1>13. \A p \in S : \E x \in DOMAIN net : net[x] = p
  BY <1>6 DEF Valued, S
<1>14. Valued(u, S, net)
  BY <1>12, <1>13 DEF Valued
<1> QED BY <1>4, <1>7, <1>8, <1>14 DEF Sound, S, WithValue

-----------------------------------------------------------------------------
(* ngx_radix_alloc gives a node that is not in the tree, and takes it from  *)
(* the list or from the pages.                                              *)
Taken(t, T, x, u) ==
    /\ x \in Nodes \ T /\ u \in Trees
    /\ u.left = t.left /\ u.right = t.right /\ u.parent = t.parent /\ u.value = t.value
    /\ Room(u) /\ Amount(u) = Amount(t) /\ u.pages <= t.pages
    /\ \E l, list : Listed(u, T \cup {x}, l, list)

LEMMA AllocSound ==
    ASSUME NEW t \in Trees, NEW T, T \subseteq Nodes, NEW k, NEW free,
           Listed(t, T, k, free), Room(t), CanAlloc(t),
           NEW x, NEW u, x = ngx_radix_alloc(t).node, u = ngx_radix_alloc(t).tree
    PROVE  Taken(t, T, x, u)
<1>1. PageNodes \in Nat /\ PageNodes > 0 /\ MaxPages \in Nat /\ NoNode = 0 /\ Root = 1
      /\ PageNodes * MaxPages \in Nat
  BY RadixAssumption DEF NoNode, Root
<1>2. t.start \in Nat /\ t.size \in Nat /\ t.pages \in Nat /\ t.free_list \in Links
  BY DEF Trees
<1>3. CASE t.free_list # NoNode
  <2>1. k \in Nat /\ k # 0 /\ t.free_list = free[1] /\ 1 \in 1 .. k
    BY <1>3 DEF Listed
  <2>2. x = t.free_list /\ u = [t EXCEPT !.free_list = t.right[t.free_list]]
    BY <1>3 DEF ngx_radix_alloc
  <2>3. x \in Nodes \ T /\ x = free[1]
    BY <2>1, <2>2 DEF Listed
  <2>4. t.right[x] \in Links
    BY <2>3 DEF Trees
  <2>5. /\ u \in Trees /\ u.left = t.left /\ u.right = t.right /\ u.parent = t.parent
        /\ u.value = t.value /\ u.free_list = t.right[x]
        /\ u.start = t.start /\ u.size = t.size /\ u.pages = t.pages
    BY <2>2, <2>4 DEF Trees
  <2>6. Room(u) /\ Amount(u) = Amount(t) /\ u.pages <= t.pages
    BY <1>2, <2>5 DEF Room, Amount
  <2> DEFINE l == k - 1
             list == [i \in 1 .. l |-> free[i + 1]]
  <2>7. l \in Nat /\ \A i \in 1 .. l : i + 1 \in 1 .. k /\ list[i] = free[i + 1]
    BY <2>1
  <2>8. list \in [1 .. l -> Nodes] /\ \A i \in 1 .. l : list[i] \notin T \cup {x}
    BY <2>1, <2>3, <2>7 DEF Listed
  <2>9. \A i, j \in 1 .. l : list[i] = list[j] => i = j
    <3> SUFFICES ASSUME NEW i \in 1 .. l, NEW j \in 1 .. l, list[i] = list[j]
                 PROVE  i = j
      OBVIOUS
    <3>1. i + 1 = j + 1
      BY <2>7 DEF Listed
    <3> QED BY <3>1
  <2>10. u.free_list = IF l = 0 THEN NoNode ELSE list[1]
    <3>1. t.right[x] = IF 1 = k THEN NoNode ELSE free[2]
      BY <2>1, <2>3 DEF Listed
    <3>2. CASE k = 1
      BY <2>5, <3>1, <3>2
    <3>3. CASE k # 1
      <4>1. 1 \in 1 .. l /\ l # 0
        BY <2>1, <3>3
      <4> QED BY <2>5, <2>7, <3>1, <3>3, <4>1
    <3> QED BY <3>2, <3>3
  <2>11. \A i \in 1 .. l : u.right[list[i]] = IF i = l THEN NoNode ELSE list[i + 1]
    <3> SUFFICES ASSUME NEW i \in 1 .. l
                 PROVE  u.right[list[i]] = IF i = l THEN NoNode ELSE list[i + 1]
      OBVIOUS
    <3>1. t.right[free[i + 1]] = IF i + 1 = k THEN NoNode ELSE free[i + 1 + 1]
      BY <2>7 DEF Listed
    <3>2. i # l => i + 1 \in 1 .. l
      BY <2>7
    <3> QED BY <2>1, <2>5, <2>7, <3>1, <3>2
  <2>12. ASSUME NEW n \in Nodes
         PROVE  n < u.start <=> n \in T \cup {x} \/ \E i \in 1 .. l : list[i] = n
    <3>1. n < t.start <=> n \in T \/ \E i \in 1 .. k : free[i] = n
      BY DEF Listed
    <3>2. (\E i \in 1 .. k : free[i] = n) <=> n = x \/ \E i \in 1 .. l : list[i] = n
      <4>1. ASSUME NEW i \in 1 .. k, free[i] = n
            PROVE  n = x \/ \E j \in 1 .. l : list[j] = n
        <5>1. CASE i = 1
          BY <2>3, <4>1, <5>1
        <5>2. CASE i # 1
          <6>1. i - 1 \in 1 .. l /\ i - 1 + 1 = i
            BY <2>1, <5>2
          <6> QED BY <2>7, <4>1, <6>1
        <5> QED BY <5>1, <5>2
      <4> QED BY <2>1, <2>3, <2>7, <4>1
    <3> HIDE DEF l, list
    <3> QED BY <2>5, <3>1, <3>2
  <2> HIDE DEF l, list
  <2>13. Listed(u, T \cup {x}, l, list)
    BY <2>7, <2>8, <2>9, <2>10, <2>11, <2>12 DEF Listed
  <2> QED BY <2>3, <2>5, <2>6, <2>13 DEF Taken
<1>4. CASE t.free_list = NoNode
  <2>1. k = 0
    <3>1. k # 0 => free[1] \in Nodes /\ t.free_list = free[1]
      BY DEF Listed
    <3> QED BY <1>4, <3>1, NodeFacts
  <2> DEFINE v == IF t.size # 0 THEN t
                  ELSE [t EXCEPT !.size = PageNodes, !.pages = @ - 1]
  <2>2. x = v.start /\ u = [v EXCEPT !.start = @ + 1, !.size = @ - 1]
    BY <1>4 DEF ngx_radix_alloc
  <2>3. /\ v \in Trees /\ v.left = t.left /\ v.right = t.right /\ v.parent = t.parent
        /\ v.value = t.value /\ v.free_list = t.free_list /\ v.start = t.start
        /\ v.size \in Nat /\ v.size > 0 /\ v.pages \in Nat /\ v.pages <= t.pages
        /\ Amount(v) = Amount(t)
    <3>1. CASE t.size # 0
      BY <1>2, <3>1
    <3>2. CASE t.size = 0
      <4>1. t.pages # 0
        BY <1>4, <3>2 DEF CanAlloc
      <4>2. t.pages - 1 \in Nat
        BY <1>2, <4>1
      <4>3. v = [t EXCEPT !.size = PageNodes, !.pages = t.pages - 1]
        BY <3>2
      <4>4. /\ v \in Trees /\ v.left = t.left /\ v.right = t.right /\ v.parent = t.parent
            /\ v.value = t.value /\ v.free_list = t.free_list /\ v.start = t.start
            /\ v.size = PageNodes /\ v.pages = t.pages - 1
        <5> HIDE DEF v
        <5> QED BY <1>1, <4>2, <4>3 DEF Trees
      <4>5. PageNodes + (t.pages - 1) * PageNodes = t.pages * PageNodes
        BY <1>1, <1>2
      <4> HIDE DEF v
      <4>6. t.pages * PageNodes \in Nat /\ (t.pages - 1) * PageNodes \in Nat
        BY <1>1, <1>2, <4>2
      <4>7. Amount(v) = Amount(t)
        BY <1>1, <1>2, <3>2, <4>4, <4>5, <4>6 DEF Amount
      <4> QED BY <1>1, <1>2, <4>1, <4>4, <4>7
    <3> QED BY <3>1, <3>2
  <2> HIDE DEF v
  <2>4. /\ u \in Trees /\ u.left = v.left /\ u.right = v.right /\ u.parent = v.parent
        /\ u.value = v.value /\ u.free_list = v.free_list /\ u.start = v.start + 1
        /\ u.size = v.size - 1 /\ u.pages = v.pages
    <3>1. v.start + 1 \in Nat /\ v.size - 1 \in Nat
      BY <1>2, <2>3
    <3>2. u = [v EXCEPT !.start = v.start + 1, !.size = v.size - 1]
      BY <2>2
    <3> QED BY <2>3, <3>1, <3>2 DEF Trees
  <2>5. v.pages * PageNodes \in Nat
    BY <1>1, <2>3
  <2>6. Amount(u) = Amount(v)
    BY <1>2, <2>3, <2>4, <2>5 DEF Amount
  <2>7. Room(u)
    BY <1>1, <1>2, <2>3, <2>4, <2>6 DEF Room
  <2>8. x \in Nodes
    <3>1. t.start > Root /\ Amount(v) <= PageNodes * MaxPages + 1
      BY <2>3 DEF Room
    <3>2. v.start + v.size + v.pages * PageNodes <= PageNodes * MaxPages + 1
      BY <3>1 DEF Amount
    <3>3. x >= 1 /\ x <= PageNodes * MaxPages /\ x \in Nat
      BY <1>1, <1>2, <2>2, <2>3, <2>5, <3>1, <3>2
    <3> QED BY <1>1, <3>3 DEF Nodes
  <2>9. x \notin T /\ x = t.start
    <3>1. x < t.start <=> x \in T \/ \E i \in 1 .. k : free[i] = x
      BY <2>8 DEF Listed
    <3>2. x = t.start /\ ~(x < t.start)
      BY <1>2, <2>2, <2>3
    <3> QED BY <3>1, <3>2
  <2>10. Listed(u, T \cup {x}, k, free)
    <3>1. ASSUME NEW n \in Nodes
          PROVE  n < u.start <=> n \in T \cup {x} \/ \E i \in 1 .. k : free[i] = n
      <4>1. n < t.start <=> n \in T \/ \E i \in 1 .. k : free[i] = n
        BY DEF Listed
      <4>2. n \in Nat
        BY <1>1 DEF Nodes
      <4>3. n < t.start + 1 <=> n < t.start \/ n = t.start
        BY <1>2, <4>2
      <4> QED BY <2>3, <2>4, <2>9, <4>1, <4>3
    <3>2. free \in [1 .. k -> Nodes] /\ ~\E i \in 1 .. k : TRUE
      BY <2>1 DEF Listed
    <3> QED BY <1>4, <2>1, <2>3, <2>4, <3>1, <3>2 DEF Listed
  <2> QED BY <2>3, <2>4, <2>6, <2>7, <2>8, <2>9, <2>10 DEF Taken
<1> QED BY <1>3, <1>4

-----------------------------------------------------------------------------
(* A new node under n, where n has no child yet.                            *)
LEMMA ClearedFacts ==
    ASSUME NEW t \in Trees, NEW x \in Nodes, NEW n \in Links,
           NEW u, u = Cleared(t, x, n)
    PROVE  /\ u \in Trees
           /\ u.left[x] = NoNode /\ u.right[x] = NoNode /\ u.parent[x] = n
           /\ u.value[x] = NoValue
           /\ \A y \in Nodes \ {x} : /\ u.left[y] = t.left[y] /\ u.right[y] = t.right[y]
                                     /\ u.parent[y] = t.parent[y] /\ u.value[y] = t.value[y]
           /\ u.free_list = t.free_list
           /\ u.start = t.start /\ u.size = t.size /\ u.pages = t.pages
<1> DEFINE right == [t.right EXCEPT ![x] = NoNode]
           left == [t.left EXCEPT ![x] = NoNode]
           parent == [t.parent EXCEPT ![x] = n]
           value == [t.value EXCEPT ![x] = NoValue]
<1>1. u = [t EXCEPT !.right = right, !.left = left, !.parent = parent, !.value = value]
  BY Zenon DEF Cleared
<1>2. /\ right \in [Nodes -> Links] /\ left \in [Nodes -> Links]
      /\ parent \in [Nodes -> Links] /\ value \in [Nodes -> Nets \cup {NoValue}]
      /\ right[x] = NoNode /\ left[x] = NoNode /\ parent[x] = n /\ value[x] = NoValue
      /\ \A y \in Nodes \ {x} : /\ left[y] = t.left[y] /\ right[y] = t.right[y]
                                /\ parent[y] = t.parent[y] /\ value[y] = t.value[y]
  BY DEF Trees, Links
<1> HIDE DEF right, left, parent, value
<1>3. /\ u \in Trees /\ u.right = right /\ u.left = left /\ u.parent = parent
      /\ u.value = value /\ u.free_list = t.free_list
      /\ u.start = t.start /\ u.size = t.size /\ u.pages = t.pages
  BY <1>1, <1>2 DEF Trees
<1> QED BY <1>2, <1>3

LEMMA GrowSound ==
    ASSUME NEW t, NEW R, NEW net, NEW k, NEW free,
           Sound(t, R, net, k, free),
           NEW n \in DOMAIN net, NEW bit \in {0, 1}, Child(t, n, bit) = NoNode,
           Len(net[n]) < Bits, CanAlloc(t),
           NEW x, NEW w, x = ngx_radix_alloc(t).node, w = ngx_radix_alloc(t).tree,
           NEW u, u = Cleared(w, x, n), NEW v, v = SetChild(u, n, bit, x)
    PROVE  /\ \E net2, l, list :
                 /\ Sound(v, R, net2, l, list)
                 /\ x \in DOMAIN net2 /\ net2[x] = Append(net[n], bit)
           /\ Child(v, x, 0) = NoNode /\ Child(v, x, 1) = NoNode
           /\ Amount(v) = Amount(t) /\ v.pages <= t.pages
<1> DEFINE q == Append(net[n], bit)
           T == DOMAIN net
<1>1. /\ t \in Trees /\ Placed(t, net) /\ Valued(t, R, net) /\ Listed(t, T, k, free)
      /\ Room(t) /\ T \subseteq Nodes /\ n \in Nodes /\ n \in Links
  BY DEF Sound, Placed, Links
<1>2. /\ x \in Nodes \ T /\ w \in Trees /\ w.left = t.left /\ w.right = t.right
      /\ w.parent = t.parent /\ w.value = t.value
      /\ Room(w) /\ Amount(w) = Amount(t) /\ w.pages <= t.pages
      /\ \E l, list : Listed(w, T \cup {x}, l, list)
  <2> HIDE DEF T
  <2>1. t \in Trees /\ T \subseteq Nodes /\ Listed(t, T, k, free) /\ Room(t)
    BY <1>1
  <2>2. Taken(t, T, x, w)
    BY <2>1, AllocSound
  <2> QED BY <2>2 DEF Taken
<1>3. PICK l, list : Listed(w, T \cup {x}, l, list)
  BY <1>2
<1>4. x # n /\ x \in Links /\ x # NoNode /\ x # Root
  BY <1>1, <1>2, NodeFacts DEF Placed, Links
<1>5. /\ u \in Trees
      /\ u.left[x] = NoNode /\ u.right[x] = NoNode /\ u.parent[x] = n
      /\ u.value[x] = NoValue
      /\ \A y \in Nodes \ {x} : /\ u.left[y] = w.left[y] /\ u.right[y] = w.right[y]
                                /\ u.parent[y] = w.parent[y] /\ u.value[y] = w.value[y]
      /\ u.free_list = w.free_list
      /\ u.start = w.start /\ u.size = w.size /\ u.pages = w.pages
  <2>1. w \in Trees /\ x \in Nodes /\ n \in Links
    BY <1>1, <1>2
  <2> QED BY <2>1, ClearedFacts
<1>6. /\ v \in Trees
      /\ \A y \in Nodes, b \in {0, 1} :
            Child(v, y, b) = IF y = n /\ b = bit THEN x ELSE Child(u, y, b)
      /\ \A y \in Nodes \ {n} : v.left[y] = u.left[y] /\ v.right[y] = u.right[y]
      /\ v.parent = u.parent /\ v.value = u.value /\ v.free_list = u.free_list
      /\ v.start = u.start /\ v.size = u.size /\ v.pages = u.pages
  <2> HIDE DEF T
  <2>1. u \in Trees /\ n \in Nodes /\ x \in Links
    BY <1>1, <1>4, <1>5
  <2> QED BY <2>1, ChildSet
<1>7. \A b \in {0, 1} : Child(v, x, b) = NoNode
  BY <1>2, <1>4, <1>5, <1>6 DEF Child
<1>8. \A y \in T, b \in {0, 1} :
         Child(v, y, b) = IF y = n /\ b = bit THEN x ELSE Child(t, y, b)
  <2>1. ASSUME NEW y \in T, NEW b \in {0, 1} PROVE Child(u, y, b) = Child(t, y, b)
    BY <1>1, <1>2, <1>5 DEF Child
  <2> QED BY <1>1, <1>6, <2>1
<1>9. Amount(v) = Amount(t) /\ Room(v) /\ v.pages <= t.pages
  BY <1>2, <1>5, <1>6 DEF Amount, Room
<1>10. q \in Nets /\ net[n] \in Nets /\ q # <<>>
  BY <1>1, NetAppend DEF Placed
<1>11. \A y \in T : net[y] # q
  <2>1. At(net, q) = NoNode
    BY <1>1, AtChild
  <2> QED BY <1>1, <2>1, AtNode
<1> DEFINE net2 == [y \in T \cup {x} |-> IF y = x THEN q ELSE net[y]]
<1>12. /\ DOMAIN net2 = T \cup {x} /\ net2[x] = q
       /\ \A y \in T : net2[y] = net[y] /\ y # x
  BY <1>2
<1> HIDE DEF q, T, net2
<1>13. Placed(v, net2)
  <2>1. net2 \in [DOMAIN net2 -> Nets]
    BY <1>1, <1>10 DEF net2, Placed, T
  <2>2. DOMAIN net2 \subseteq Nodes /\ Root \in DOMAIN net2 /\ net2[Root] = <<>>
    BY <1>1, <1>2, <1>12 DEF Placed, T
  <2>3. ASSUME NEW y \in DOMAIN net2, NEW z \in DOMAIN net2, net2[y] = net2[z]
        PROVE  y = z
    BY <1>1, <1>11, <1>12, <2>3 DEF Placed, T
  <2>4. ASSUME NEW y \in DOMAIN net2, NEW b \in {0, 1}, Child(v, y, b) # NoNode
        PROVE  Child(v, y, b) \in DOMAIN net2 /\ net2[Child(v, y, b)] = Append(net2[y], b)
    <3>1. y \in T
      BY <1>7, <1>12, <2>4
    <3>2. CASE y = n /\ b = bit
      BY <1>8, <1>12, <3>1, <3>2 DEF q
    <3>3. CASE ~(y = n /\ b = bit)
      <4>1. Child(v, y, b) = Child(t, y, b)
        BY <1>8, <3>1, <3>3
      <4>2. Child(t, y, b) \in T /\ net[Child(t, y, b)] = Append(net[y], b)
        BY <1>1, <2>4, <3>1, <4>1 DEF Placed, T
      <4> QED BY <1>12, <3>1, <4>1, <4>2
    <3> QED BY <3>2, <3>3
  <2>5. ASSUME NEW y \in DOMAIN net2 \ {Root}
        PROVE  v.parent[y] \in DOMAIN net2 /\ \E b \in {0, 1} : Child(v, v.parent[y], b) = y
    <3>1. CASE y = x
      <4>1. v.parent[y] = n /\ n \in T
        BY <1>5, <1>6, <3>1 DEF T
      <4>2. Child(v, n, bit) = y
        BY <1>8, <3>1, <4>1
      <4> QED BY <1>12, <4>1, <4>2
    <3>2. CASE y # x
      <4>1. y \in T /\ y \in Nodes
        BY <1>1, <1>12, <3>2
      <4>2. v.parent[y] = t.parent[y]
        BY <1>2, <1>5, <1>6, <3>2, <4>1
      <4>3. PICK b \in {0, 1} : t.parent[y] \in T /\ Child(t, t.parent[y], b) = y
        BY <1>1, <4>1 DEF Placed, T
      <4>4. y # NoNode
        BY <4>1, NodeFacts
      <4>5. Child(v, t.parent[y], b) = y
        BY <1>8, <4>3, <4>4
      <4> QED BY <1>12, <4>2, <4>3, <4>5
    <3> QED BY <3>1, <3>2
  <2> QED BY <2>1, <2>2, <2>3, <2>4, <2>5 DEF Placed
<1>14. Valued(v, R, net2)
  <2>1. q \notin R
    BY <1>1, <1>11 DEF Valued, T
  <2>2. ASSUME NEW y \in DOMAIN net2
        PROVE  v.value[y] = IF net2[y] \in R THEN net2[y] ELSE NoValue
    <3>1. CASE y = x
      BY <1>5, <1>6, <1>12, <2>1, <3>1
    <3>2. CASE y # x
      <4>1. y \in T /\ y \in Nodes
        BY <1>1, <1>12, <3>2
      <4>2. v.value[y] = t.value[y]
        BY <1>2, <1>5, <1>6, <3>2, <4>1
      <4> QED BY <1>1, <1>12, <4>1, <4>2 DEF Valued, T
    <3> QED BY <3>1, <3>2
  <2>3. ASSUME NEW p \in R PROVE \E y \in DOMAIN net2 : net2[y] = p
    <3>1. PICK y \in T : net[y] = p
      BY <1>1 DEF Valued, T
    <3> QED BY <1>12, <3>1
  <2> QED BY <2>2, <2>3 DEF Valued
<1>15. Listed(v, DOMAIN net2, l, list)
  <2>1. \A y \in Nodes \ (T \cup {x}) : v.right[y] = w.right[y]
    BY <1>5, <1>6 DEF T
  <2>2. v.free_list = w.free_list /\ v.start = w.start
    BY <1>5, <1>6
  <2> QED BY <1>3, <1>12, <2>1, <2>2, ListedSame
<1>16. Sound(v, R, net2, l, list)
  BY <1>6, <1>9, <1>13, <1>14, <1>15 DEF Sound
<1> QED BY <1>7, <1>9, <1>12, <1>16 DEF q

-----------------------------------------------------------------------------
(* Loops: a function whose value at d is made of that at d - 1 exists, if    *)
(* step[d] takes what is possible before the turn to what is possible after. *)
LEMMA UpFrom ==
    ASSUME NEW a \in Nat, NEW b \in Nat, NEW Good, a \in Good,
           \A d \in a + 1 .. b : d - 1 \in Good => d \in Good
    PROVE  \A d \in a .. b : d \in Good
<1> SUFFICES ASSUME (a .. b) \ Good # {} PROVE FALSE
  OBVIOUS
<1> DEFINE Bad == (a .. b) \ Good
<1>1. PICK m \in Bad : \A k \in Bad : m <= k
  <2>1. Bad \in SUBSET Nat /\ Bad # {}
    OBVIOUS
  <2> HIDE DEF Bad
  <2> QED BY <2>1, SmallestNumber
<1>2. m \in a + 1 .. b /\ m - 1 \in a .. b /\ ~(m <= m - 1)
  OBVIOUS
<1> QED BY <1>1, <1>2

Turning(a, n, e, step, S, f) ==
    /\ f = [d \in a .. n |-> IF d = a THEN e ELSE step[d][f[d - 1]]]
    /\ \A d \in a .. n : f[d] \in S[d]

LEMMA Turns ==
    ASSUME NEW a \in Nat, NEW b \in Nat, a <= b, NEW S, NEW e, e \in S[a],
           NEW step, \A d \in a + 1 .. b : \A x \in S[d - 1] : step[d][x] \in S[d]
    PROVE  \E f : Turning(a, b, e, step, S, f)
<1> DEFINE Good == {n \in a .. b : \E f : Turning(a, n, e, step, S, f)}
<1>1. a \in Good
  <2> DEFINE f == [d \in a .. a |-> e]
  <2>1. \A d \in a .. a : d = a /\ f[d] = e
    OBVIOUS
  <2>2. Turning(a, a, e, step, S, f)
    BY <2>1 DEF Turning
  <2> QED BY <2>2
<1>2. ASSUME NEW n \in a + 1 .. b, n - 1 \in Good PROVE n \in Good
  <2>1. n \in a .. b /\ n # a /\ n - 1 \in a .. n - 1 /\ n \in a .. n /\ n - 1 \in Nat
    OBVIOUS
  <2>2. PICK f : Turning(a, n - 1, e, step, S, f)
    BY <1>2
  <2> DEFINE g == [d \in a .. n |-> IF d = n THEN step[n][f[n - 1]] ELSE f[d]]
  <2>3. g[n] = step[n][f[n - 1]] /\ \A d \in a .. n - 1 : d # n /\ d \in a .. n /\ g[d] = f[d]
    BY <2>1
  <2>4. f[n - 1] \in S[n - 1]
    BY <2>1, <2>2 DEF Turning
  <2>5. g[n] \in S[n]
    BY <2>3, <2>4
  <2>6. \A d \in a .. n - 1 : f[d] = IF d = a THEN e ELSE step[d][f[d - 1]]
    BY <2>2 DEF Turning
  <2>7. g = [d \in a .. n |-> g[d]]
    OBVIOUS
  <2> HIDE DEF g
  <2>8. ASSUME NEW d \in a .. n
        PROVE  g[d] = (IF d = a THEN e ELSE step[d][g[d - 1]]) /\ g[d] \in S[d]
    <3>1. CASE d = n
      <4>1. g[n - 1] = f[n - 1]
        BY <2>1, <2>3
      <4> QED BY <2>1, <2>3, <2>5, <3>1, <4>1
    <3>2. CASE d # n
      <4>1. d \in a .. n - 1 /\ (d # a => d - 1 \in a .. n - 1)
        BY <3>2
      <4>2. f[d] \in S[d]
        BY <2>2, <4>1 DEF Turning
      <4> QED BY <2>3, <2>6, <4>1, <4>2
    <3> QED BY <3>1, <3>2
  <2>9. Turning(a, n, e, step, S, g)
    BY <2>7, <2>8 DEF Turning
  <2> QED BY <2>1, <2>9
<1> HIDE DEF Good
<1>3. b \in Good
  <2>1. \A d \in a .. b : d \in Good
    BY <1>1, <1>2, UpFrom
  <2> QED BY <2>1
<1> QED BY <1>3 DEF Good

(* What a turn of the insertion of p has made of t.                         *)
Growing(t, R, p, d, acc) ==
    /\ acc \in [ok : BOOLEAN, tree : Trees, node : Nodes]
    /\ \E net, k, free :
          /\ Sound(acc.tree, R, net, k, free)
          /\ acc.ok => /\ acc.node \in DOMAIN net /\ net[acc.node] = Prefix(p, d)
                       /\ d < Len(p) => Child(acc.tree, acc.node, p[d + 1]) = NoNode
    /\ Amount(acc.tree) = Amount(t) /\ acc.tree.pages <= t.pages

LEMMA GrowTurn ==
    ASSUME NEW t \in Trees, NEW R, NEW p \in Nets, NEW d \in 1 .. Len(p), NEW acc,
           Growing(t, R, p, d - 1, acc)
    PROVE  Growing(t, R, p, d, Grow(acc, p[d]))
<1> DEFINE g == Grow(acc, p[d])
<1>1. acc \in [ok : BOOLEAN, tree : Trees, node : Nodes]
  BY DEF Growing
<1>2. PICK net, k, free :
         /\ Sound(acc.tree, R, net, k, free)
         /\ acc.ok => /\ acc.node \in DOMAIN net /\ net[acc.node] = Prefix(p, d - 1)
                      /\ d - 1 < Len(p) => Child(acc.tree, acc.node, p[d - 1 + 1]) = NoNode
  BY DEF Growing
<1>3. Amount(acc.tree) = Amount(t) /\ acc.tree.pages <= t.pages
  BY DEF Growing
<1>4. CASE ~acc.ok \/ ~CanAlloc(acc.tree)
  <2>1. g = [acc EXCEPT !.ok = FALSE]
    BY <1>4 DEF Grow
  <2>2. /\ g \in [ok : BOOLEAN, tree : Trees, node : Nodes] /\ g.tree = acc.tree
        /\ g.ok = FALSE
    BY <1>1, <2>1
  <2> HIDE DEF g
  <2>3. Growing(t, R, p, d, g)
    BY <1>2, <1>3, <2>2 DEF Growing
  <2> QED BY <2>3 DEF g
<1>5. CASE acc.ok /\ CanAlloc(acc.tree)
  <2> DEFINE bit == p[d]
             n == acc.node
             T == acc.tree
             q == Prefix(p, d)
  <2>1. /\ Len(p) \in Nat /\ Len(p) <= Bits /\ Bits \in Nat
        /\ d - 1 + 1 = d /\ d - 1 < Len(p) /\ d - 1 < Bits /\ d - 1 \in 0 .. Len(p)
        /\ d \in 0 .. Len(p)
    BY NetFacts
  <2>2. /\ q = Append(Prefix(p, d - 1), bit) /\ bit \in {0, 1}
        /\ Len(Prefix(p, d - 1)) = d - 1
    BY <2>1, PrefixFacts
  <2>3. /\ n \in DOMAIN net /\ net[n] = Prefix(p, d - 1) /\ Child(T, n, bit) = NoNode
        /\ Len(net[n]) < Bits
    BY <1>2, <1>5, <2>1, <2>2
  <2>4. PICK x : x = ngx_radix_alloc(T).node
    OBVIOUS
  <2>5. PICK w : w = ngx_radix_alloc(T).tree
    OBVIOUS
  <2>6. PICK u : u = Cleared(w, x, n)
    OBVIOUS
  <2>7. PICK v : v = SetChild(u, n, bit, x)
    OBVIOUS
  <2>8. g = [acc EXCEPT !.tree = v, !.node = x]
    BY <1>5, <2>4, <2>5, <2>6, <2>7 DEF Grow
  <2>9. Sound(T, R, net, k, free) /\ CanAlloc(T)
    BY <1>2, <1>5
  <2> HIDE DEF g, T, n, bit, q
  <2>10. /\ \E net2, l, list :
               /\ Sound(v, R, net2, l, list)
               /\ x \in DOMAIN net2 /\ net2[x] = Append(net[n], bit)
         /\ Child(v, x, 0) = NoNode /\ Child(v, x, 1) = NoNode
         /\ Amount(v) = Amount(T) /\ v.pages <= T.pages
    BY <2>2, <2>3, <2>4, <2>5, <2>6, <2>7, <2>9, GrowSound
  <2>11. PICK net2, l, list : /\ Sound(v, R, net2, l, list)
                              /\ x \in DOMAIN net2 /\ net2[x] = q
    BY <2>2, <2>3, <2>10
  <2>12. v \in Trees /\ x \in Nodes
    BY <2>11 DEF Sound, Placed
  <2>13. /\ g \in [ok : BOOLEAN, tree : Trees, node : Nodes] /\ g.tree = v /\ g.node = x
    BY <1>1, <2>8, <2>12
  <2>14. d < Len(p) => Child(v, x, p[d + 1]) = NoNode
    <3>1. d < Len(p) => d + 1 \in 1 .. Len(p)
      BY <2>1
    <3>2. d < Len(p) => p[d + 1] \in {0, 1}
      BY <3>1, PrefixFacts
    <3> QED BY <2>10, <3>2
  <2>15. Amount(v) = Amount(t) /\ v.pages <= t.pages
    <3>1. t.pages \in Nat /\ v.pages \in Nat /\ T.pages \in Nat
      BY <1>1, <2>12 DEF Trees, T
    <3> QED BY <1>3, <2>10, <3>1 DEF T
  <2>16. Growing(t, R, p, d, g)
    BY <2>11, <2>13, <2>14, <2>15 DEF Growing, q
  <2> QED BY <2>16 DEF g
<1> QED BY <1>4, <1>5

GrowTurns(t, p, a, n, f) ==
    f = [d \in a .. Len(p) |->
            IF d = a THEN [ok |-> TRUE, tree |-> t, node |-> n] ELSE Grow(f[d - 1], p[d])]

LEMMA GrownSound ==
    ASSUME NEW t \in Trees, NEW R, NEW p \in Nets, NEW a \in 0 .. Len(p), NEW n,
           Growing(t, R, p, a, [ok |-> TRUE, tree |-> t, node |-> n]),
           NEW f, f = CHOOSE g : GrowTurns(t, p, a, n, g)
    PROVE  /\ GrowTurns(t, p, a, n, f) /\ Growing(t, R, p, Len(p), f[Len(p)])
           /\ f[a] = [ok |-> TRUE, tree |-> t, node |-> n]
<1> DEFINE b == Len(p)
           e == [ok |-> TRUE, tree |-> t, node |-> n]
           All == [ok : BOOLEAN, tree : Trees, node : Nodes]
           S == [d \in a .. b |-> {x \in All : Growing(t, R, p, d, x)}]
           step == [d \in a + 1 .. b |-> [x \in S[d - 1] |-> Grow(x, p[d])]]
<1>1. b \in Nat /\ a \in Nat /\ a <= b /\ a \in a .. b /\ b \in a .. b
  BY NetFacts
<1>2. \A d \in a + 1 .. b : d \in 1 .. b /\ d - 1 \in a .. b /\ d \in a .. b /\ d # a
  BY <1>1
<1>3. \A d, x : Growing(t, R, p, d, x) => x \in All
  BY DEF Growing
<1>4. \A d \in a + 1 .. b : \A x :
         Growing(t, R, p, d - 1, x) => Growing(t, R, p, d, Grow(x, p[d]))
  BY <1>2, GrowTurn
<1>5. \A d \in a .. b : \A x : x \in S[d] <=> Growing(t, R, p, d, x)
  BY <1>3
<1> HIDE DEF All, S
<1>6. \A d \in a + 1 .. b : \A x \in S[d - 1] :
         step[d][x] = Grow(x, p[d]) /\ step[d][x] \in S[d]
  BY <1>2, <1>4, <1>5
<1>7. e \in S[a]
  BY <1>1, <1>5
<1> HIDE DEF b, e, step
<1>8. PICK g : Turning(a, b, e, step, S, g)
  BY <1>1, <1>6, <1>7, Turns
<1>9. GrowTurns(t, p, a, n, g)
  <2>1. g = [d \in a .. b |-> IF d = a THEN e ELSE step[d][g[d - 1]]]
        /\ \A d \in a .. b : g[d] \in S[d]
    BY <1>8 DEF Turning
  <2>2. ASSUME NEW d \in a .. b
        PROVE  (IF d = a THEN e ELSE step[d][g[d - 1]])
               = IF d = a THEN e ELSE Grow(g[d - 1], p[d])
    <3>1. CASE d # a
      <4>1. d \in a + 1 .. b /\ d - 1 \in a .. b
        BY <1>1, <3>1
      <4> QED BY <1>6, <2>1, <4>1
    <3> QED BY <3>1
  <2>3. g = [d \in a .. b |-> IF d = a THEN e ELSE Grow(g[d - 1], p[d])]
    BY <2>1, <2>2
  <2> QED BY <2>3 DEF GrowTurns, b, e
<1>10. GrowTurns(t, p, a, n, f)
  BY <1>9
<1>11. /\ f[a] = e
       /\ \A d \in a + 1 .. b : f[d] = Grow(f[d - 1], p[d])
  BY <1>1, <1>2, <1>10 DEF GrowTurns, b, e
<1> DEFINE Good == {d \in a .. b : Growing(t, R, p, d, f[d])}
<1>12. a \in Good
  BY <1>1, <1>11 DEF e
<1>13. ASSUME NEW d \in a + 1 .. b, d - 1 \in Good PROVE d \in Good
  BY <1>2, <1>4, <1>11, <1>13
<1> HIDE DEF Good
<1>14. \A d \in a .. b : d \in Good
  BY <1>1, <1>12, <1>13, UpFrom
<1>15. Growing(t, R, p, b, f[b])
  BY <1>1, <1>14 DEF Good
<1> QED BY <1>10, <1>11, <1>15 DEF b, e

(* Inserting p gives it a value if it had none and if there was room; the   *)
(* pages are taken from those of the pool.                                  *)
Inserted(t, R, p, value, r) ==
    /\ Intact(r.tree, IF r.rc = "NGX_OK" /\ value = p THEN R \cup {p} ELSE R)
    /\ r.tree \in Trees /\ Amount(r.tree) = Amount(t) /\ r.tree.pages <= t.pages

LEMMA InsertSound ==
    ASSUME NEW t, NEW R, Intact(t, R), NEW p \in Nets, NEW value \in {p, NoValue},
           NEW r, r = ngx_radix32tree_insert(t, p, value)
    PROVE  Inserted(t, R, p, value, r)
<1>1. PICK net, k, free : Sound(t, R, net, k, free)
  BY DEF Intact
<1>2. t \in Trees /\ Placed(t, net) /\ Valued(t, R, net)
  BY <1>1 DEF Sound
<1> DEFINE way == Way(t, p)
           D == {d \in 0 .. Len(p) : way[d] # NoNode}
           deepest == Max(D)
           n == way[deepest]
           f == CHOOSE g : GrowTurns(t, p, deepest, n, g)
           grown == f[Len(p)]
<1>3. r = IF deepest = Len(p) /\ t.value[grown.node] # NoValue
          THEN [rc |-> "NGX_BUSY", tree |-> t]
          ELSE IF grown.ok
          THEN [rc |-> "NGX_OK", tree |-> [grown.tree EXCEPT !.value[grown.node] = value]]
          ELSE [rc |-> "NGX_ERROR", tree |-> grown.tree]
  BY DEF ngx_radix32tree_insert, GrowTurns
<1>4. Len(p) \in Nat /\ 0 \in 0 .. Len(p) /\ Len(p) \in 0 .. Len(p)
  BY NetFacts
<1>5. \A d \in 0 .. Len(p) : way[d] = At(net, Prefix(p, d))
  BY <1>2, WaySound
<1>6. Prefix(p, 0) = <<>> /\ Prefix(p, Len(p)) = p
  BY PrefixFacts
<1>7. way[0] = Root /\ Root # NoNode
  <2>1. Root \in DOMAIN net /\ net[Root] = <<>>
    BY <1>2 DEF Placed
  <2>2. At(net, net[Root]) = Root
    BY <1>2, <2>1, AtNode
  <2> QED BY <1>4, <1>5, <1>6, <2>1, <2>2, NodeFacts
<1>8. deepest \in D /\ \A d \in D : d <= deepest
  <2>1. 0 \in D /\ D \in SUBSET (0 .. Len(p))
    BY <1>4, <1>7
  <2> HIDE DEF D
  <2> QED BY <1>4, <2>1, GreatestIn
<1>9. deepest \in 0 .. Len(p) /\ n # NoNode /\ \A d \in deepest + 1 .. Len(p) : way[d] = NoNode
  <2> HIDE DEF deepest, way
  <2>1. \A d \in deepest + 1 .. Len(p) : d \in 0 .. Len(p) /\ ~(d <= deepest)
    BY <1>4, <1>8
  <2> QED BY <1>8, <2>1
<1> HIDE DEF way, D, deepest, n, f
<1>10. n \in DOMAIN net /\ net[n] = Prefix(p, deepest) /\ n \in Nodes
  <2>1. n = At(net, Prefix(p, deepest))
    BY <1>5, <1>9 DEF n
  <2> QED BY <1>2, <1>9, <2>1, AtFound, AtNode
<1>11. deepest < Len(p) => Child(t, n, p[deepest + 1]) = NoNode
  <2> SUFFICES ASSUME deepest < Len(p) PROVE Child(t, n, p[deepest + 1]) = NoNode
    OBVIOUS
  <2>1. deepest + 1 \in deepest + 1 .. Len(p) /\ deepest + 1 \in 1 .. Len(p)
        /\ deepest + 1 - 1 = deepest /\ deepest + 1 \in 0 .. Len(p)
    BY <1>4, <1>9
  <2>2. p[deepest + 1] \in {0, 1} /\ Prefix(p, deepest + 1) = Append(net[n], p[deepest + 1])
    <3>1. PICK d : d = deepest + 1
      OBVIOUS
    <3>2. d \in 1 .. Len(p) /\ d - 1 = deepest
      BY <1>4, <1>9, <2>1, <3>1
    <3>3. p[d] \in {0, 1} /\ Prefix(p, d) = Append(Prefix(p, d - 1), p[d])
      BY <3>2, PrefixFacts
    <3> QED BY <1>10, <3>1, <3>2, <3>3
  <2>3. At(net, Append(net[n], p[deepest + 1])) = NoNode
    BY <1>5, <1>9, <2>1, <2>2
  <2> QED BY <1>2, <1>10, <2>2, <2>3, AtChild
<1>12. Growing(t, R, p, deepest, [ok |-> TRUE, tree |-> t, node |-> n])
  <2> DEFINE e == [ok |-> TRUE, tree |-> t, node |-> n]
  <2>1. e \in [ok : BOOLEAN, tree : Trees, node : Nodes] /\ e.tree = t /\ e.node = n
    BY <1>2, <1>10
  <2> HIDE DEF e
  <2>2. t.pages <= t.pages
    BY <1>2 DEF Trees
  <2>3. Growing(t, R, p, deepest, e)
    BY <1>1, <1>10, <1>11, <2>1, <2>2 DEF Growing
  <2> QED BY <2>3 DEF e
<1>13. Growing(t, R, p, Len(p), grown) /\ f[deepest] = [ok |-> TRUE, tree |-> t, node |-> n]
  BY <1>2, <1>9, <1>12, GrownSound DEF f
<1> HIDE DEF grown
<1>14. Intact(grown.tree, R) /\ grown.tree \in Trees
       /\ Amount(grown.tree) = Amount(t) /\ grown.tree.pages <= t.pages
  BY <1>13 DEF Growing, Intact, Sound
<1>15. CASE deepest = Len(p) /\ t.value[grown.node] # NoValue
  <2>1. r.rc = "NGX_BUSY" /\ r.tree = t
    BY <1>3, <1>15
  <2>2. t.pages <= t.pages
    BY <1>2 DEF Trees
  <2> QED BY <1>2, <2>1, <2>2 DEF Inserted
<1>16. CASE ~(deepest = Len(p) /\ t.value[grown.node] # NoValue) /\ ~grown.ok
  <2>1. r.rc = "NGX_ERROR" /\ r.tree = grown.tree
    BY <1>3, <1>16
  <2> QED BY <1>14, <2>1 DEF Inserted
<1>17. CASE ~(deepest = Len(p) /\ t.value[grown.node] # NoValue) /\ grown.ok
  <2>1. p \notin R
    <3>1. CASE deepest = Len(p)
      <4>1. grown.node = n /\ net[n] = p
        BY <1>6, <1>10, <1>13, <3>1 DEF grown
      <4>2. t.value[n] = NoValue
        BY <1>17, <3>1, <4>1
      <4>3. p # NoValue
        BY NoNet
      <4> QED BY <1>2, <1>10, <4>1, <4>2, <4>3 DEF Valued
    <3>2. CASE deepest # Len(p)
      <4>1. Len(p) \in deepest + 1 .. Len(p)
        BY <1>4, <1>9, <3>2
      <4>2. At(net, p) = NoNode
        BY <1>4, <1>5, <1>6, <1>9, <4>1
      <4>3. \A m \in DOMAIN net : net[m] # p
        BY <1>2, <4>2, AtNode
      <4> QED BY <1>2, <4>3 DEF Valued
    <3> QED BY <3>1, <3>2
  <2>2. PICK g : g = grown.tree
    OBVIOUS
  <2>3. PICK m : m = grown.node
    OBVIOUS
  <2>4. PICK u : u = [g EXCEPT !.value[m] = value]
    OBVIOUS
  <2>5. PICK net2, l, list : Sound(g, R, net2, l, list) /\ m \in DOMAIN net2 /\ net2[m] = p
    BY <1>6, <1>13, <1>17, <2>2, <2>3 DEF Growing
  <2>6. value = net2[m] \/ value = NoValue
    BY <2>5
  <2>7. WithValue(g, R, net2, l, list, m, value, u)
    BY <2>4, <2>5, <2>6, ValueSet
  <2>8. /\ Sound(u, IF value = NoValue THEN R \ {net2[m]} ELSE R \cup {net2[m]}, net2, l, list)
        /\ Amount(u) = Amount(g) /\ u.pages = g.pages
    BY <2>7 DEF WithValue
  <2>9. r.rc = "NGX_OK" /\ r.tree = u
    BY <1>3, <1>17, <2>2, <2>3, <2>4
  <2>10. (IF value = NoValue THEN R \ {net2[m]} ELSE R \cup {net2[m]})
        = IF r.rc = "NGX_OK" /\ value = p THEN R \cup {p} ELSE R
    BY <2>1, <2>5, <2>9, NoNet
  <2>11. u \in Trees
    BY <2>8 DEF Sound
  <2> QED BY <1>14, <2>2, <2>8, <2>9, <2>10, <2>11 DEF Inserted, Intact
<1> QED BY <1>15, <1>16, <1>17

-----------------------------------------------------------------------------
(* A leaf n, child of m, is taken out of the tree and goes to the list.     *)
Cut(t, R, net, n, m, b, v) ==
    /\ \E net2, l, list :
          /\ Sound(v, R \ {net[n]}, net2, l, list)
          /\ DOMAIN net2 = DOMAIN net \ {n} /\ \A y \in DOMAIN net2 : net2[y] = net[y]
    /\ \A y \in DOMAIN net \ {n}, c \in {0, 1} :
          Child(v, y, c) = IF y = m /\ c = b THEN NoNode ELSE Child(t, y, c)
    /\ v.value = t.value /\ Amount(v) = Amount(t) /\ v.pages = t.pages

Freed(t, n, c, u) ==
    /\ u \in Trees /\ u.right[n] = c /\ u.free_list = n
    /\ \A y \in Nodes \ {n} : u.right[y] = t.right[y]
    /\ u.left = t.left /\ u.parent = t.parent /\ u.value = t.value
    /\ u.start = t.start /\ u.size = t.size /\ u.pages = t.pages

LEMMA FreeFacts ==
    ASSUME NEW t \in Trees, NEW n \in Nodes, NEW c \in Links,
           NEW u, u = [t EXCEPT !.right[n] = c, !.free_list = n]
    PROVE  Freed(t, n, c, u)
<1> DEFINE right == [t.right EXCEPT ![n] = c]
<1>1. u = [t EXCEPT !.right = right, !.free_list = n]
  BY Zenon
<1>2. right \in [Nodes -> Links] /\ right[n] = c /\ n \in Links
      /\ \A y \in Nodes \ {n} : right[y] = t.right[y]
  BY DEF Trees, Links
<1> HIDE DEF right
<1> QED BY <1>1, <1>2 DEF Trees, Freed

Released(t, T, n, v) ==
    /\ T \subseteq Nodes /\ n \in T /\ v.free_list = n /\ v.right[n] = t.free_list
    /\ v.start = t.start /\ \A y \in Nodes \ T : v.right[y] = t.right[y]

LEMMA ListGrows ==
    ASSUME NEW t, NEW T, NEW k, NEW free, Listed(t, T, k, free),
           NEW n, NEW v, Released(t, T, n, v)
    PROVE  \E l, list : Listed(v, T \ {n}, l, list)
<1>0. /\ T \subseteq Nodes /\ n \in T /\ v.free_list = n /\ v.right[n] = t.free_list
      /\ v.start = t.start /\ \A y \in Nodes \ T : v.right[y] = t.right[y]
  BY DEF Released
<1> DEFINE l == k + 1
           list == [i \in 1 .. l |-> IF i = 1 THEN n ELSE free[i - 1]]
<1>1. /\ k \in Nat /\ free \in [1 .. k -> Nodes]
      /\ \A i, j \in 1 .. k : free[i] = free[j] => i = j
      /\ t.free_list = IF k = 0 THEN NoNode ELSE free[1]
      /\ \A i \in 1 .. k : t.right[free[i]] = IF i = k THEN NoNode ELSE free[i + 1]
      /\ \A i \in 1 .. k : free[i] \notin T
      /\ \A y \in Nodes : y < t.start <=> y \in T \/ \E i \in 1 .. k : free[i] = y
  BY DEF Listed
<1>2. /\ l \in Nat /\ l # 0 /\ list[1] = n /\ 1 \in 1 .. l
      /\ \A i \in 1 .. l : i # 1 => i - 1 \in 1 .. k /\ list[i] = free[i - 1]
      /\ \A i \in 1 .. k : i + 1 \in 1 .. l /\ i + 1 # 1 /\ list[i + 1] = free[i]
  BY <1>0, <1>1
<1>3. list \in [1 .. l -> Nodes]
  BY <1>0, <1>1, <1>2
<1> HIDE DEF list, l
<1>4. \A i \in 1 .. l : list[i] \notin T \ {n}
  BY <1>0, <1>1, <1>2
<1>5. \A i, j \in 1 .. l : list[i] = list[j] => i = j
  <2> SUFFICES ASSUME NEW i \in 1 .. l, NEW j \in 1 .. l, list[i] = list[j] PROVE i = j
    OBVIOUS
  <2>1. CASE i = 1 \/ j = 1
    BY <1>0, <1>1, <1>2, <2>1
  <2>2. CASE i # 1 /\ j # 1
    <3>1. i - 1 = j - 1
      BY <1>0, <1>1, <1>2, <2>2
    <3> QED BY <1>2, <3>1
  <2> QED BY <2>1, <2>2
<1>6. \A i \in 1 .. l : v.right[list[i]] = IF i = l THEN NoNode ELSE list[i + 1]
  <2> SUFFICES ASSUME NEW i \in 1 .. l
               PROVE  v.right[list[i]] = IF i = l THEN NoNode ELSE list[i + 1]
    OBVIOUS
  <2>1. CASE i = 1
    <3>1. v.right[list[i]] = IF k = 0 THEN NoNode ELSE free[1]
      BY <1>0, <1>1, <1>2, <2>1
    <3>2. i = l <=> k = 0
      BY <1>0, <1>1, <2>1 DEF l
    <3>3. k # 0 => 1 \in 1 .. k
      BY <1>0, <1>1
    <3> QED BY <1>2, <2>1, <3>1, <3>2, <3>3
  <2>2. CASE i # 1
    <3>1. i - 1 \in 1 .. k /\ list[i] = free[i - 1]
      BY <1>2, <2>2
    <3>2. v.right[free[i - 1]] = IF i - 1 = k THEN NoNode ELSE free[i - 1 + 1]
      BY <1>0, <1>1, <3>1
    <3>3. (i - 1 = k <=> i = l) /\ i - 1 + 1 = i /\ (i # l => i \in 1 .. k)
      BY <1>0, <1>1, <3>1 DEF l
    <3> QED BY <1>2, <3>1, <3>2, <3>3
  <2> QED BY <2>1, <2>2
<1>7. \A y \in Nodes : y < v.start <=> y \in T \ {n} \/ \E i \in 1 .. l : list[i] = y
  <2> SUFFICES ASSUME NEW y \in Nodes
               PROVE  (y \in T \/ \E i \in 1 .. k : free[i] = y)
                      <=> (y \in T \ {n} \/ \E i \in 1 .. l : list[i] = y)
    BY <1>0, <1>1
  <2>1. ASSUME NEW i \in 1 .. k, free[i] = y
        PROVE  \E j \in 1 .. l : list[j] = y
    BY <1>0, <1>2, <2>1
  <2>2. ASSUME NEW i \in 1 .. l, list[i] = y
        PROVE  y \in T \/ \E j \in 1 .. k : free[j] = y
    BY <1>0, <1>2, <2>2
  <2>3. y = n => \E j \in 1 .. l : list[j] = y
    BY <1>0, <1>2
  <2> QED BY <2>1, <2>2, <2>3
<1>8. Listed(v, T \ {n}, l, list)
  BY <1>0, <1>2, <1>3, <1>4, <1>5, <1>6, <1>7 DEF Listed
<1> QED BY <1>8

Cutable(t, net, n, m, b, v) ==
    /\ n \in DOMAIN net /\ m \in DOMAIN net /\ b \in {0, 1}
    /\ Child(t, m, b) = n /\ Leaf(t, n)
    /\ v = [SetChild(t, m, b, NoNode) EXCEPT !.right[n] = t.free_list, !.free_list = n]

LEMMA CutSound ==
    ASSUME NEW t, NEW R, NEW net, NEW k, NEW free, Sound(t, R, net, k, free),
           NEW n, NEW m, NEW b, NEW v, Cutable(t, net, n, m, b, v)
    PROVE  Cut(t, R, net, n, m, b, v)
<1> SUFFICES ASSUME n \in DOMAIN net, m \in DOMAIN net, b \in {0, 1},
                    Child(t, m, b) = n, Leaf(t, n),
                    NEW u, u = SetChild(t, m, b, NoNode),
                    v = [u EXCEPT !.right[n] = t.free_list, !.free_list = n]
             PROVE  Cut(t, R, net, n, m, b, v)
  BY DEF Cutable
<1> DEFINE T == DOMAIN net
           S == R \ {net[n]}
           net2 == [y \in T \ {n} |-> net[y]]
<1>1. /\ t \in Trees /\ Placed(t, net) /\ Valued(t, R, net) /\ Listed(t, T, k, free)
      /\ Room(t) /\ T \subseteq Nodes /\ n \in Nodes /\ m \in Nodes /\ n # NoNode
      /\ NoNode \in Links /\ t.free_list \in Links
  BY NodeFacts DEF Sound, Placed, Links, Trees
<1>2. n # m /\ n # Root /\ net[n] = Append(net[m], b) /\ net[m] \in Nets
  <2>1. net[n] = Append(net[m], b) /\ net[m] \in Nets /\ net[Root] = <<>>
    BY <1>1 DEF Placed
  <2>2. Len(net[n]) = Len(net[m]) + 1 /\ Len(net[m]) \in Nat /\ net[n] # <<>>
    BY <2>1, NetAppend, NetFacts
  <2> QED BY <2>1, <2>2
<1>3. \A c \in {0, 1} : Child(t, n, c) = NoNode
  BY DEF Leaf, Child
<1>4. /\ u \in Trees
      /\ \A x \in Nodes, y \in {0, 1} :
            Child(u, x, y) = IF x = m /\ y = b THEN NoNode ELSE Child(t, x, y)
      /\ \A x \in Nodes \ {m} : u.left[x] = t.left[x] /\ u.right[x] = t.right[x]
      /\ u.parent = t.parent /\ u.value = t.value /\ u.free_list = t.free_list
      /\ u.start = t.start /\ u.size = t.size /\ u.pages = t.pages
  <2>1. t \in Trees /\ m \in Nodes /\ NoNode \in Links
    BY <1>1
  <2> QED BY <2>1, ChildSet
<1>5. /\ v \in Trees /\ v.right[n] = t.free_list /\ v.free_list = n
      /\ \A y \in Nodes \ {n} : v.right[y] = u.right[y]
      /\ v.left = u.left /\ v.parent = u.parent /\ v.value = u.value
      /\ v.start = u.start /\ v.size = u.size /\ v.pages = u.pages
  <2>1. u \in Trees /\ n \in Nodes /\ t.free_list \in Links
    BY <1>1, <1>4
  <2>2. Freed(u, n, t.free_list, v)
    BY <2>1, FreeFacts
  <2> QED BY <2>2 DEF Freed
<1>6. \A y \in T \ {n}, c \in {0, 1} :
         Child(v, y, c) = IF y = m /\ c = b THEN NoNode ELSE Child(t, y, c)
  <2>1. \A y \in T \ {n}, c \in {0, 1} : Child(v, y, c) = Child(u, y, c)
    BY <1>1, <1>5 DEF Child
  <2> QED BY <1>1, <1>4, <2>1
<1>7. /\ DOMAIN net2 = T \ {n} /\ \A y \in T \ {n} : net2[y] = net[y]
  OBVIOUS
<1>8. Amount(v) = Amount(t) /\ Room(v) /\ v.pages = t.pages /\ v.value = t.value
  BY <1>1, <1>4, <1>5 DEF Amount, Room
<1>9. net2 \in [T \ {n} -> Nets]
  BY <1>1 DEF Placed
<1> HIDE DEF T, S, net2
<1>10. Placed(v, net2)
  <2>1. net2 \in [DOMAIN net2 -> Nets]
    BY <1>7, <1>9
  <2>2. DOMAIN net2 \subseteq Nodes /\ Root \in DOMAIN net2 /\ net2[Root] = <<>>
    BY <1>1, <1>2, <1>7 DEF Placed, T
  <2>3. ASSUME NEW y \in DOMAIN net2, NEW z \in DOMAIN net2, net2[y] = net2[z]
        PROVE  y = z
    BY <1>1, <1>7, <2>3 DEF Placed, T
  <2>4. ASSUME NEW y \in DOMAIN net2, NEW c \in {0, 1}, Child(v, y, c) # NoNode
        PROVE  Child(v, y, c) \in DOMAIN net2 /\ net2[Child(v, y, c)] = Append(net2[y], c)
    <3>1. y \in T \ {n} /\ Child(v, y, c) = Child(t, y, c) /\ ~(y = m /\ c = b)
      BY <1>6, <1>7, <2>4
    <3>2. Child(t, y, c) \in T /\ net[Child(t, y, c)] = Append(net[y], c) /\ net[y] \in Nets
      BY <1>1, <2>4, <3>1 DEF Placed, T
    <3>3. Child(t, y, c) # n
      <4> SUFFICES ASSUME Child(t, y, c) = n PROVE FALSE
        OBVIOUS
      <4>1. PICK x1 \in Nets : x1 = net[y]
        BY <3>2
      <4>2. PICK x2 \in Nets : x2 = net[m]
        BY <1>2
      <4>3. Append(x1, c) = Append(x2, b)
        BY <1>2, <3>2, <4>1, <4>2
      <4>4. x1 = x2 /\ c = b
        BY <4>3, AppendSame
      <4>5. y = m
        BY <1>1, <3>1, <4>1, <4>2, <4>4 DEF Placed, T
      <4> QED BY <3>1, <4>4, <4>5
    <3> QED BY <1>7, <3>1, <3>2, <3>3
  <2>5. ASSUME NEW y \in DOMAIN net2 \ {Root}
        PROVE  v.parent[y] \in DOMAIN net2 /\ \E c \in {0, 1} : Child(v, v.parent[y], c) = y
    <3>1. y \in T \ {n} /\ y \in Nodes /\ y # NoNode /\ y \in T \ {Root}
      BY <1>1, <1>7, NodeFacts
    <3>2. PICK c \in {0, 1} : t.parent[y] \in T /\ Child(t, t.parent[y], c) = y
      BY <1>1, <3>1 DEF Placed, T
    <3>3. t.parent[y] # n
      BY <1>3, <3>1, <3>2
    <3>4. ~(t.parent[y] = m /\ c = b)
      BY <3>1, <3>2
    <3>5. Child(v, t.parent[y], c) = y
      BY <1>6, <3>2, <3>3, <3>4
    <3> QED BY <1>4, <1>5, <1>7, <3>2, <3>3, <3>5
  <2> QED BY <2>1, <2>2, <2>3, <2>4, <2>5 DEF Placed
<1>11. Valued(v, S, net2)
  <2>1. ASSUME NEW y \in DOMAIN net2
        PROVE  v.value[y] = IF net2[y] \in S THEN net2[y] ELSE NoValue
    <3>1. y \in T \ {n} /\ net2[y] = net[y]
      BY <1>7
    <3>2. net[y] # net[n]
      BY <1>1, <3>1 DEF Placed, T
    <3>3. t.value[y] = IF net[y] \in R THEN net[y] ELSE NoValue
      BY <1>1, <3>1 DEF Valued, T
    <3> QED BY <1>8, <3>1, <3>2, <3>3 DEF S
  <2>2. ASSUME NEW q \in S PROVE \E y \in DOMAIN net2 : net2[y] = q
    <3>1. PICK y \in T : net[y] = q
      BY <1>1 DEF Valued, S, T
    <3>2. y # n
      BY <3>1 DEF S
    <3> QED BY <1>7, <3>1, <3>2
  <2> QED BY <2>1, <2>2 DEF Valued
<1>12. \E l, list : Listed(v, T \ {n}, l, list)
  <2>1. \A y \in Nodes \ T : v.right[y] = t.right[y]
    BY <1>4, <1>5 DEF T
  <2>2. v.start = t.start /\ n \in T
    BY <1>4, <1>5 DEF T
  <2>3. T \subseteq Nodes /\ Listed(t, T, k, free) /\ v.free_list = n
        /\ v.right[n] = t.free_list
    BY <1>1, <1>5
  <2>4. Released(t, T, n, v)
    BY <2>1, <2>2, <2>3 DEF Released
  <2> QED BY <2>3, <2>4, ListGrows
<1>13. PICK l, list : Listed(v, DOMAIN net2, l, list)
  BY <1>7, <1>12
<1>14. Sound(v, S, net2, l, list)
  BY <1>5, <1>8, <1>10, <1>11, <1>13 DEF Sound
<1> QED BY <1>6, <1>7, <1>8, <1>14 DEF Cut, S, T

(* Deleting p, a leaf: after k turns the k deepest nodes of its way are     *)
(* gone, and the one above them has lost its child.                         *)
Cutting(t, R, way, p, k, T) ==
    /\ \E net, l, free :
          /\ Sound(T, IF k = 0 THEN R ELSE R \ {p}, net, l, free)
          /\ \A d \in 0 .. Len(p) - k : way[d] \in DOMAIN net /\ net[way[d]] = Prefix(p, d)
    /\ \A d \in 0 .. Len(p) - k, c \in {0, 1} :
          Child(T, way[d], c) = IF k # 0 /\ d = Len(p) - k /\ c = p[d + 1]
                                THEN NoNode ELSE Child(t, way[d], c)
    /\ T.value = t.value /\ Amount(T) = Amount(t) /\ T.pages = t.pages

LEMMA CutTurn ==
    ASSUME NEW t, NEW R, NEW p \in Nets, NEW way, NEW k \in 1 .. Len(p), NEW T,
           Cutting(t, R, way, p, k - 1, T),
           NEW d, d = Len(p) + 1 - k, Child(t, way[d - 1], p[d]) = way[d],
           k = 1 => Leaf(t, way[d]), k # 1 => ~Stays(t, way, p, d),
           NEW v, v = TakeOut(T, way, p, d)
    PROVE  Cutting(t, R, way, p, k, v)
<1> DEFINE old == IF k - 1 = 0 THEN R ELSE R \ {p}
<1>1. PICK net, l, free :
         /\ Sound(T, old, net, l, free)
         /\ \A e \in 0 .. Len(p) - (k - 1) :
               way[e] \in DOMAIN net /\ net[way[e]] = Prefix(p, e)
  BY DEF Cutting
<1>2. \A e \in 0 .. Len(p) - (k - 1), c \in {0, 1} :
         Child(T, way[e], c) = IF k - 1 # 0 /\ e = Len(p) - (k - 1) /\ c = p[e + 1]
                               THEN NoNode ELSE Child(t, way[e], c)
  BY DEF Cutting
<1>3. T.value = t.value /\ Amount(T) = Amount(t) /\ T.pages = t.pages
  BY DEF Cutting
<1>4. /\ Len(p) \in Nat /\ k \in Nat /\ d \in 1 .. Len(p) /\ d - 1 \in 0 .. Len(p)
      /\ Len(p) - (k - 1) = d /\ Len(p) - k = d - 1 /\ k # 0 /\ d \in 0 .. Len(p)
      /\ (k - 1 = 0 <=> k = 1) /\ (k = 1 => d = Len(p)) /\ d # d - 1
      /\ (k # 1 => d + 1 \in 1 .. Len(p)) /\ d - 1 + 1 = d
      /\ d \in 0 .. d /\ d - 1 \in 0 .. d /\ d - 1 \in 0 .. d - 1
  BY NetFacts
<1>5. \A e \in 0 .. d - 1 : e \in 0 .. d /\ e # d /\ e \in 0 .. Len(p)
  BY <1>4
<1> DEFINE n == way[d]
           m == way[d - 1]
           b == p[d]
<1>6. n \in DOMAIN net /\ m \in DOMAIN net /\ net[n] = Prefix(p, d) /\ b \in {0, 1}
  BY <1>1, <1>4, PrefixFacts
<1>7. Child(T, m, b) = n
  <2>1. Child(T, way[d - 1], b) = Child(t, way[d - 1], b)
    BY <1>2, <1>4, <1>6
  <2> QED BY <2>1
<1>8. Placed(T, net) /\ Valued(T, old, net)
  BY <1>1 DEF Sound
<1>9. Leaf(T, n)
  <2>1. \A c \in {0, 1} : Child(T, way[d], c) = NoNode
    <3>1. CASE k = 1
      <4>1. \A c \in {0, 1} : Child(t, way[d], c) = NoNode
        BY <3>1 DEF Leaf, Child
      <4> QED BY <1>2, <1>4, <3>1, <4>1
    <3>2. CASE k # 1
      <4>1. p[d + 1] \in {0, 1}
        BY <1>4, <3>2, PrefixFacts
      <4>2. Child(t, way[d], 1 - p[d + 1]) = NoNode
        BY <3>2 DEF Stays
      <4>3. \A c \in {0, 1} : c = p[d + 1] \/ c = 1 - p[d + 1]
        BY <4>1
      <4>4. Child(T, way[d], p[d + 1]) = NoNode
        BY <1>2, <1>4, <3>2, <4>1
      <4>5. ASSUME NEW c \in {0, 1}, c # p[d + 1] PROVE Child(T, way[d], c) = NoNode
        <5>1. Child(T, way[d], c) = Child(t, way[d], c)
          BY <1>2, <1>4, <4>5
        <5>2. c = 1 - p[d + 1]
          BY <4>3, <4>5
        <5> QED BY <4>2, <5>1, <5>2
      <4> QED BY <4>4, <4>5
    <3> QED BY <3>1, <3>2
  <2>2. Child(T, n, 0) = NoNode /\ Child(T, n, 1) = NoNode
    BY <2>1
  <2> QED BY <2>2 DEF Leaf, Child
<1>10. old \ {net[n]} = R \ {p}
  <2>1. CASE k = 1
    <3>1. net[n] = p
      BY <1>4, <1>6, <2>1, PrefixFacts
    <3> QED BY <1>4, <2>1, <3>1
  <2>2. CASE k # 1
    <3>1. T.value[n] = NoValue
      BY <1>3, <2>2 DEF Stays
    <3>2. net[n] \notin old
      <4>1. net[n] \in Nets
        BY <1>6, <1>8 DEF Placed
      <4> QED BY <1>6, <1>8, <3>1, <4>1, NoNet DEF Valued
    <3> QED BY <1>4, <2>2, <3>2
  <2> QED BY <2>1, <2>2
<1> HIDE DEF old
<1>11. Cut(T, old, net, n, m, b, v)
  <2>1. v = [SetChild(T, m, b, NoNode) EXCEPT !.right[n] = T.free_list, !.free_list = n]
    BY Zenon DEF TakeOut
  <2> HIDE DEF b, n, m
  <2>2. Cutable(T, net, n, m, b, v)
    BY <1>6, <1>7, <1>9, <2>1 DEF Cutable
  <2> QED BY <1>1, <2>2, CutSound
<1>12. PICK net2, l2, list :
          /\ Sound(v, old \ {net[n]}, net2, l2, list)
          /\ DOMAIN net2 = DOMAIN net \ {n} /\ \A y \in DOMAIN net2 : net2[y] = net[y]
  BY <1>11 DEF Cut
<1>13. \A y \in DOMAIN net \ {n}, c \in {0, 1} :
          Child(v, y, c) = IF y = m /\ c = b THEN NoNode ELSE Child(T, y, c)
  BY <1>11 DEF Cut
<1>14. v.value = T.value /\ Amount(v) = Amount(T) /\ v.pages = T.pages
  BY <1>11 DEF Cut
<1>15. Sound(v, R \ {p}, net2, l2, list)
  BY <1>10, <1>12
<1>16. ASSUME NEW e \in 0 .. d - 1
       PROVE  /\ way[e] \in DOMAIN net \ {n} /\ net[way[e]] = Prefix(p, e)
              /\ way[e] = m => e = d - 1
  <2>1. way[e] \in DOMAIN net /\ net[way[e]] = Prefix(p, e)
    BY <1>1, <1>4, <1>5
  <2>2. Len(Prefix(p, e)) = e /\ Len(Prefix(p, d)) = d /\ Len(Prefix(p, d - 1)) = d - 1
    BY <1>4, <1>5, PrefixFacts
  <2>3. net[m] = Prefix(p, d - 1)
    BY <1>1, <1>4
  <2>4. way[e] # n
    BY <1>5, <1>6, <2>1, <2>2
  <2> QED BY <2>1, <2>2, <2>3, <2>4
<1>17. \A e \in 0 .. d - 1 : way[e] \in DOMAIN net2 /\ net2[way[e]] = Prefix(p, e)
  BY <1>12, <1>16
<1>18. ASSUME NEW e \in 0 .. d - 1, NEW c \in {0, 1}
       PROVE  Child(v, way[e], c) = IF e = d - 1 /\ c = p[e + 1]
                                    THEN NoNode ELSE Child(t, way[e], c)
  <2>1. Child(v, way[e], c) = IF way[e] = m /\ c = b THEN NoNode ELSE Child(T, way[e], c)
    BY <1>13, <1>16
  <2>2. Child(T, way[e], c) = Child(t, way[e], c)
    BY <1>2, <1>4, <1>5
  <2>3. way[e] = m <=> e = d - 1
    BY <1>16
  <2>4. e = d - 1 => p[e + 1] = b
    BY <1>4
  <2> QED BY <2>1, <2>2, <2>3, <2>4
<1> HIDE DEF n, m, b
<1>19. k # 0 /\ Len(p) - k = d - 1
  BY <1>4
<1>20. \E n2, l3, f3 :
          /\ Sound(v, IF k = 0 THEN R ELSE R \ {p}, n2, l3, f3)
          /\ \A e \in 0 .. Len(p) - k : way[e] \in DOMAIN n2 /\ n2[way[e]] = Prefix(p, e)
  BY <1>15, <1>17, <1>19
<1>21. \A e \in 0 .. Len(p) - k, c \in {0, 1} :
          Child(v, way[e], c) = IF k # 0 /\ e = Len(p) - k /\ c = p[e + 1]
                                THEN NoNode ELSE Child(t, way[e], c)
  BY <1>18, <1>19
<1> QED BY <1>3, <1>14, <1>20, <1>21 DEF Cutting

LEMMA WayWhole ==
    ASSUME NEW t, NEW net, Placed(t, net), NEW p \in Nets,
           NEW way, way = Way(t, p), way[Len(p)] # NoNode
    PROVE  /\ \A d \in 0 .. Len(p) : way[d] \in DOMAIN net /\ net[way[d]] = Prefix(p, d)
           /\ \A d \in 1 .. Len(p) : Child(t, way[d - 1], p[d]) = way[d]
<1>1. Len(p) \in Nat /\ Len(p) \in 0 .. Len(p)
  BY NetFacts
<1>2. \A d \in 0 .. Len(p) : way[d] = At(net, Prefix(p, d))
  BY WaySound
<1>3. ASSUME NEW d \in 0 .. Len(p) PROVE way[d] # NoNode
  <2> SUFFICES ASSUME way[d] = NoNode PROVE FALSE
    OBVIOUS
  <2> DEFINE Good == {e \in d .. Len(p) : At(net, Prefix(p, e)) = NoNode}
  <2>1. d \in Good /\ d \in Nat
    BY <1>1, <1>2
  <2>2. ASSUME NEW e \in d + 1 .. Len(p), e - 1 \in Good PROVE e \in Good
    <3>1. e \in 1 .. Len(p) /\ e - 1 \in 0 .. Len(p) /\ e \in d .. Len(p)
      BY <1>1
    <3>2. /\ Prefix(p, e) = Append(Prefix(p, e - 1), p[e]) /\ p[e] \in {0, 1}
          /\ Prefix(p, e - 1) \in Nets
      BY <3>1, PrefixFacts
    <3>3. At(net, Prefix(p, e - 1)) = NoNode
      BY <2>2
    <3> QED BY <3>1, <3>2, <3>3, AtNone
  <2> HIDE DEF Good
  <2>3. \A e \in d .. Len(p) : e \in Good
    BY <1>1, <2>1, <2>2, UpFrom
  <2>4. Len(p) \in Good
    BY <1>1, <2>3
  <2> QED BY <1>1, <1>2, <2>4 DEF Good
<1>4. \A d \in 0 .. Len(p) : way[d] \in DOMAIN net /\ net[way[d]] = Prefix(p, d)
  BY <1>2, <1>3, AtFound
<1>5. ASSUME NEW d \in 1 .. Len(p) PROVE Child(t, way[d - 1], p[d]) = way[d]
  <2>1. d - 1 \in 0 .. Len(p) /\ d \in 0 .. Len(p)
    BY <1>1
  <2>2. /\ Prefix(p, d) = Append(Prefix(p, d - 1), p[d]) /\ p[d] \in {0, 1}
        /\ way[d - 1] \in DOMAIN net /\ net[way[d - 1]] = Prefix(p, d - 1)
    BY <1>4, <2>1, PrefixFacts
  <2>3. At(net, Append(net[way[d - 1]], p[d])) = Child(t, way[d - 1], p[d])
    BY <2>2, AtChild
  <2> QED BY <1>2, <2>1, <2>2, <2>3
<1> QED BY <1>4, <1>5

PruneTurns(t, way, p, n, f) ==
    f = [k \in 0 .. n |->
            IF k = 0 THEN t ELSE TakeOut(f[k - 1], way, p, Len(p) + 1 - k)]

LEMMA PruneTurned ==
    ASSUME NEW t, NEW R, NEW p \in Nets, NEW way, NEW n \in 0 .. Len(p),
           Cutting(t, R, way, p, 0, t),
           \A k \in 1 .. n : \A T :
              Cutting(t, R, way, p, k - 1, T)
              => Cutting(t, R, way, p, k, TakeOut(T, way, p, Len(p) + 1 - k)),
           NEW f, f = CHOOSE g : PruneTurns(t, way, p, n, g)
    PROVE  Cutting(t, R, way, p, n, f[n])
<1> DEFINE S == [k \in 0 .. n |-> {T \in Trees : Cutting(t, R, way, p, k, T)}]
           step == [k \in 1 .. n |->
                       [T \in S[k - 1] |-> TakeOut(T, way, p, Len(p) + 1 - k)]]
<1>1. n \in Nat /\ 0 \in 0 .. n /\ n \in 0 .. n /\ 0 + 1 = 1 /\ 0 <= n
  BY NetFacts
<1>2. \A k \in 1 .. n : k - 1 \in 0 .. n /\ k \in 0 .. n /\ k # 0
  BY <1>1
<1>3. \A k, T : Cutting(t, R, way, p, k, T) => T \in Trees
  BY DEF Cutting, Sound
<1>4. \A k \in 0 .. n : \A T : T \in S[k] <=> Cutting(t, R, way, p, k, T)
  BY <1>3
<1> HIDE DEF S
<1>5. \A k \in 1 .. n : \A T \in S[k - 1] :
         step[k][T] = TakeOut(T, way, p, Len(p) + 1 - k) /\ step[k][T] \in S[k]
  BY <1>2, <1>4
<1>6. t \in S[0]
  BY <1>1, <1>4
<1> HIDE DEF step
<1>7. PICK g : Turning(0, n, t, step, S, g)
  <2>1. \A k \in 0 + 1 .. n : \A T \in S[k - 1] : step[k][T] \in S[k]
    BY <1>1, <1>5
  <2> QED BY <1>1, <1>6, <2>1, Turns
<1>8. PruneTurns(t, way, p, n, g)
  <2>1. g = [k \in 0 .. n |-> IF k = 0 THEN t ELSE step[k][g[k - 1]]]
        /\ \A k \in 0 .. n : g[k] \in S[k]
    BY <1>7 DEF Turning
  <2>2. ASSUME NEW k \in 0 .. n
        PROVE  (IF k = 0 THEN t ELSE step[k][g[k - 1]])
               = IF k = 0 THEN t ELSE TakeOut(g[k - 1], way, p, Len(p) + 1 - k)
    <3>1. CASE k # 0
      <4>1. k \in 1 .. n /\ k - 1 \in 0 .. n
        BY <1>1, <3>1
      <4> QED BY <1>5, <2>1, <4>1
    <3> QED BY <3>1
  <2>3. g = [k \in 0 .. n |->
               IF k = 0 THEN t ELSE TakeOut(g[k - 1], way, p, Len(p) + 1 - k)]
    BY <2>1, <2>2
  <2> QED BY <2>3 DEF PruneTurns
<1>9. PruneTurns(t, way, p, n, f)
  BY <1>8
<1>10. /\ f[0] = t
       /\ \A k \in 1 .. n : f[k] = TakeOut(f[k - 1], way, p, Len(p) + 1 - k)
  BY <1>1, <1>2, <1>9 DEF PruneTurns
<1> DEFINE Good == {k \in 0 .. n : Cutting(t, R, way, p, k, f[k])}
<1>11. 0 \in Good
  BY <1>1, <1>10
<1>12. ASSUME NEW k \in 0 + 1 .. n, k - 1 \in Good PROVE k \in Good
  BY <1>1, <1>2, <1>10, <1>12
<1> HIDE DEF Good
<1>13. \A k \in 0 .. n : k \in Good
  BY <1>1, <1>11, <1>12, UpFrom
<1> QED BY <1>1, <1>13 DEF Good

LEMMA PruneSound ==
    ASSUME NEW t, NEW R, NEW net, NEW l, NEW free, Sound(t, R, net, l, free),
           NEW p \in Nets, Len(p) # 0, NEW way, way = Way(t, p),
           way[Len(p)] # NoNode, Leaf(t, way[Len(p)]), NEW v, v = Prune(t, p)
    PROVE  Intact(v, R \ {p}) /\ Amount(v) = Amount(t) /\ v.pages = t.pages
<1> DEFINE D == {d \in 0 .. Len(p) - 1 : Stays(t, way, p, d)}
           top == Max(D)
           n == Len(p) - top
           f == CHOOSE g : PruneTurns(t, way, p, n, g)
<1>1. v = f[n]
  BY DEF Prune, PruneTurns
<1>2. Len(p) \in Nat /\ Len(p) - 1 \in Nat /\ 0 \in 0 .. Len(p) - 1
  BY NetFacts
<1>3. top \in D /\ \A d \in D : d <= top
  <2>1. 0 \in D /\ D \in SUBSET (0 .. Len(p) - 1)
    BY <1>2 DEF Stays
  <2> HIDE DEF D
  <2> QED BY <1>2, <2>1, GreatestIn
<1>4. top \in 0 .. Len(p) - 1
      /\ \A d \in 0 .. Len(p) - 1 : ~(d <= top) => ~Stays(t, way, p, d)
  <2> HIDE DEF top
  <2> QED BY <1>3
<1> HIDE DEF D, top
<1>5. n \in 0 .. Len(p) /\ n # 0 /\ Len(p) - n = top
  BY <1>2, <1>4
<1> HIDE DEF n, f
<1>6. Placed(t, net) /\ t \in Trees
  BY DEF Sound
<1>7. /\ \A d \in 0 .. Len(p) : way[d] \in DOMAIN net /\ net[way[d]] = Prefix(p, d)
      /\ \A d \in 1 .. Len(p) : Child(t, way[d - 1], p[d]) = way[d]
  BY <1>6, WayWhole
<1>8. Cutting(t, R, way, p, 0, t)
  <2>1. Len(p) - 0 = Len(p)
    BY <1>2
  <2>2. Sound(t, IF 0 = 0 THEN R ELSE R \ {p}, net, l, free)
    OBVIOUS
  <2> QED BY <1>7, <2>1, <2>2 DEF Cutting
<1>9. ASSUME NEW k \in 1 .. n, NEW T, Cutting(t, R, way, p, k - 1, T)
      PROVE  Cutting(t, R, way, p, k, TakeOut(T, way, p, Len(p) + 1 - k))
  <2>1. PICK d, w : d = Len(p) + 1 - k /\ w = TakeOut(T, way, p, d)
    OBVIOUS
  <2>2. /\ k \in 1 .. Len(p) /\ d \in 1 .. Len(p) /\ (k = 1 => d = Len(p))
        /\ (k # 1 => d \in 0 .. Len(p) - 1 /\ ~(d <= top))
    <3>1. n \in Nat /\ n <= Len(p) /\ k <= n /\ top \in Nat /\ Len(p) - n = top
      BY <1>2, <1>4, <1>5
    <3> QED BY <1>2, <2>1, <3>1
  <2>3. /\ Child(t, way[d - 1], p[d]) = way[d]
        /\ k = 1 => Leaf(t, way[d])
        /\ k # 1 => ~Stays(t, way, p, d)
    BY <1>4, <1>7, <2>2
  <2>4. Cutting(t, R, way, p, k, w)
    BY <1>9, <2>1, <2>2, <2>3, CutTurn
  <2> QED BY <2>1, <2>4
<1>10. Cutting(t, R, way, p, n, v)
  <2>1. f = CHOOSE g : PruneTurns(t, way, p, n, g)
    BY DEF f
  <2> QED BY <1>1, <1>5, <1>8, <1>9, <2>1, PruneTurned
<1> QED BY <1>5, <1>10 DEF Cutting, Intact

(* Deleting p takes its value, unless the code dereferences the parent of   *)
(* the root.                                                                *)
Deleted(t, R, p, r) ==
    /\ Intact(r.tree, IF r.rc = "NGX_OK" THEN R \ {p} ELSE R)
    /\ Amount(r.tree) = Amount(t) /\ r.tree.pages = t.pages

LEMMA DeleteSound ==
    ASSUME NEW t, NEW R, Intact(t, R), NEW p \in Nets, ~(Len(p) = 0 /\ Leaf(t, Root)),
           NEW r, r = ngx_radix32tree_delete(t, p)
    PROVE  Deleted(t, R, p, r)
<1>1. PICK net, l, free : Sound(t, R, net, l, free)
  BY DEF Intact
<1>2. Placed(t, net)
  BY <1>1 DEF Sound
<1>3. PICK way : way = Way(t, p)
  OBVIOUS
<1>4. PICK n : n = way[Len(p)]
  OBVIOUS
<1>5. r = IF n = NoNode \/ (~Leaf(t, n) /\ t.value[n] = NoValue)
          THEN [rc |-> "NGX_ERROR", tree |-> t]
          ELSE IF ~Leaf(t, n)
          THEN [rc |-> "NGX_OK", tree |-> [t EXCEPT !.value[n] = NoValue]]
          ELSE [rc |-> "NGX_OK", tree |-> Prune(t, p)]
  BY <1>3, <1>4 DEF ngx_radix32tree_delete
<1>6. CASE n = NoNode \/ (~Leaf(t, n) /\ t.value[n] = NoValue)
  <2>1. r.rc = "NGX_ERROR" /\ r.tree = t
    BY <1>5, <1>6
  <2> QED BY <2>1 DEF Deleted
<1>7. CASE n # NoNode /\ ~(~Leaf(t, n) /\ t.value[n] = NoValue)
  <2>1. way[Len(p)] # NoNode
    BY <1>4, <1>7
  <2>2. \A d \in 0 .. Len(p) : way[d] \in DOMAIN net /\ net[way[d]] = Prefix(p, d)
    BY <1>2, <1>3, <2>1, WayWhole
  <2>3. Len(p) \in 0 .. Len(p) /\ Prefix(p, Len(p)) = p /\ Prefix(p, 0) = <<>>
    BY NetFacts, PrefixFacts
  <2>4. n \in DOMAIN net /\ net[n] = p
    BY <1>4, <2>2, <2>3
  <2>5. CASE ~Leaf(t, n)
    <3>1. PICK u : u = [t EXCEPT !.value[n] = NoValue]
      OBVIOUS
    <3>2. r.rc = "NGX_OK" /\ r.tree = u
      BY <1>5, <1>7, <2>5, <3>1
    <3>3. PICK v : v = NoValue
      OBVIOUS
    <3>4. u = [t EXCEPT !.value[n] = v]
      BY <3>1, <3>3
    <3>5. WithValue(t, R, net, l, free, n, v, u)
      BY <1>1, <2>4, <3>3, <3>4, ValueSet
    <3> QED BY <2>4, <3>2, <3>3, <3>5 DEF Deleted, Intact, WithValue
  <2>6. CASE Leaf(t, n)
    <3>1. Len(p) # 0
      <4> SUFFICES ASSUME Len(p) = 0 PROVE FALSE
        OBVIOUS
      <4>1. net[n] = <<>> /\ net[Root] = <<>> /\ Root \in DOMAIN net
        BY <1>2, <2>3, <2>4 DEF Placed
      <4>2. n = Root
        BY <1>2, <2>4, <4>1 DEF Placed
      <4> QED BY <2>6, <4>2
    <3>2. PICK v : v = Prune(t, p)
      OBVIOUS
    <3>3. r.rc = "NGX_OK" /\ r.tree = v
      BY <1>5, <1>7, <2>6, <3>2
    <3>4. Leaf(t, way[Len(p)])
      BY <1>4, <2>6
    <3>5. Intact(v, R \ {p}) /\ Amount(v) = Amount(t) /\ v.pages = t.pages
      BY <1>1, <1>3, <2>1, <3>1, <3>2, <3>4, PruneSound
    <3> QED BY <3>3, <3>5 DEF Deleted
  <2> QED BY <2>5, <2>6
<1> QED BY <1>6, <1>7

-----------------------------------------------------------------------------
(* ngx_radix_tree_create makes nodes without a value.                       *)
LEMMA BareIntact == Intact(Bare, {})
<1> DEFINE net == [n \in {Root} |-> <<>>]
           free == [i \in 1 .. 0 |-> Root]
           none == [n \in Nodes |-> NoNode]
<1>1. /\ PageNodes \in Nat /\ PageNodes > 0 /\ MaxPages \in Nat /\ MaxPages > 0
      /\ PageNodes * MaxPages \in Nat /\ Root = 1 /\ NoNode = 0
      /\ Root \in Nodes /\ Bits \in Nat
  BY RadixAssumption, NodeFacts
<1>2. PICK t : t = Bare
  OBVIOUS
<1>3. t = [left |-> none, right |-> none, parent |-> none,
           value |-> [n \in Nodes |-> NoValue], free_list |-> NoNode,
           start |-> Root + 1, size |-> PageNodes - 1, pages |-> MaxPages - 1]
  BY <1>2 DEF Bare
<1>4. none \in [Nodes -> Links] /\ [n \in Nodes |-> NoValue] \in [Nodes -> Nets \cup {NoValue}]
      /\ NoNode \in Links
  BY DEF Links
<1>5. /\ t \in Trees /\ t.free_list = NoNode /\ t.start = 2 /\ t.size = PageNodes - 1
      /\ t.pages = MaxPages - 1 /\ t.value[Root] = NoValue
  <2>1. PageNodes - 1 \in Nat /\ MaxPages - 1 \in Nat /\ Root + 1 \in Nat /\ Root + 1 = 2
    BY <1>1
  <2> HIDE DEF none
  <2> QED BY <1>1, <1>3, <1>4, <2>1 DEF Trees
<1>6. \A b \in {0, 1} : Child(t, Root, b) = NoNode
  BY <1>1, <1>3 DEF Child
<1>7. <<>> \in Nets
  <2>1. <<>> \in [1 .. 0 -> {0, 1}] /\ 0 \in 0 .. Bits
    BY <1>1
  <2> QED BY <2>1, NetMade
<1>8. DOMAIN net = {Root} /\ net[Root] = <<>> /\ net \in [{Root} -> Nets]
  BY <1>7
<1> HIDE DEF net, none
<1>9. Placed(t, net)
  BY <1>1, <1>6, <1>8 DEF Placed
<1>10. Valued(t, {}, net)
  BY <1>5, <1>8 DEF Valued
<1>11. Listed(t, {Root}, 0, free)
  <2>1. \A n \in Nodes : n < 2 <=> n \in {Root}
    BY <1>1 DEF Nodes
  <2>2. free \in [1 .. 0 -> Nodes] /\ 0 \in Nat /\ ~\E i \in 1 .. 0 : TRUE
    OBVIOUS
  <2> HIDE DEF free
  <2> QED BY <1>5, <2>1, <2>2 DEF Listed
<1>12. Room(t)
  <2>1. (MaxPages - 1) * PageNodes + PageNodes = PageNodes * MaxPages
    BY <1>1
  <2>2. (MaxPages - 1) * PageNodes \in Nat
    BY <1>1
  <2> QED BY <1>1, <1>5, <2>1, <2>2 DEF Room, Amount
<1>13. Sound(t, {}, net, 0, free)
  BY <1>5, <1>8, <1>9, <1>10, <1>11, <1>12 DEF Sound
<1> QED BY <1>2, <1>13 DEF Intact

Levels(d) == {s \in Seq(Nets) : \A i \in 1 .. Len(s) : Len(s[i]) = d}
NextLevel(s) == [i \in 1 .. 2 * Len(s) |-> Append(s[(i + 1) \div 2], (i + 1) % 2)]
LevelTurns(len, f) ==
    f = [d \in 0 .. len |-> IF d = 0 THEN <<<<>>>> ELSE NextLevel(f[d - 1])]

LEMMA Halves ==
    ASSUME NEW n \in Nat, NEW i \in 1 .. 2 * n
    PROVE  (i + 1) \div 2 \in 1 .. n /\ (i + 1) % 2 \in {0, 1}
OBVIOUS

LEMMA NextLevelSound ==
    ASSUME NEW d \in 1 .. Bits, NEW s \in Levels(d - 1)
    PROVE  NextLevel(s) \in Levels(d)
<1> DEFINE l == NextLevel(s)
<1>1. Bits \in Nat /\ s \in Seq(Nets) /\ Len(s) \in Nat /\ 2 * Len(s) \in Nat
      /\ d - 1 < Bits /\ d - 1 + 1 = d
  BY RadixAssumption, LenProperties DEF Levels
<1>2. ASSUME NEW i \in 1 .. 2 * Len(s)
      PROVE  l[i] \in Nets /\ Len(l[i]) = d
  <2>1. PICK j, b : j = (i + 1) \div 2 /\ b = (i + 1) % 2
    OBVIOUS
  <2>2. j \in 1 .. Len(s) /\ b \in {0, 1}
    BY <1>1, <2>1, Halves
  <2>3. s[j] \in Nets /\ Len(s[j]) = d - 1
    BY <1>1, <2>2, ElementOfSeq DEF Levels
  <2>4. l[i] = Append(s[j], b)
    BY <2>1 DEF NextLevel
  <2>5. Append(s[j], b) \in Nets /\ Len(Append(s[j], b)) = d - 1 + 1
    <3>1. PICK q \in Nets : q = s[j]
      BY <2>3
    <3>2. Append(q, b) \in Nets /\ Len(Append(q, b)) = Len(q) + 1
      BY <1>1, <2>2, <2>3, <3>1, NetAppend
    <3> QED BY <2>3, <3>1, <3>2
  <2> QED BY <1>1, <2>4, <2>5
<1>3. l = [i \in 1 .. 2 * Len(s) |-> l[i]]
  BY DEF NextLevel
<1> HIDE DEF l
<1>4. l \in [1 .. 2 * Len(s) -> Nets]
  BY <1>2, <1>3
<1>5. l \in Seq(Nets) /\ Len(l) = 2 * Len(s)
  <2>1. l \in Seq(Nets)
    BY <1>1, <1>4, SeqDef
  <2>2. DOMAIN l = 1 .. 2 * Len(s) /\ DOMAIN l = 1 .. Len(l) /\ Len(l) \in Nat
    BY <1>4, <2>1, LenProperties
  <2> QED BY <1>1, <2>1, <2>2
<1>6. l \in Levels(d)
  BY <1>2, <1>5 DEF Levels
<1> QED BY <1>6 DEF l

LEMMA LevelSound ==
    ASSUME NEW len \in 0 .. Bits
    PROVE  Level(len) \in Seq(Nets)
<1> DEFINE S == [d \in 0 .. len |-> Levels(d)]
           step == [d \in 1 .. len |-> [s \in S[d - 1] |-> NextLevel(s)]]
           f == CHOOSE g : LevelTurns(len, g)
<1>1. Level(len) = f[len]
  BY DEF Level, LevelTurns, NextLevel
<1>2. len \in Nat /\ 0 \in 0 .. len /\ len \in 0 .. len /\ 0 + 1 = 1 /\ 0 <= len /\ Bits \in Nat
  BY RadixAssumption
<1>3. \A d \in 1 .. len : d - 1 \in 0 .. len /\ d \in 0 .. len /\ d # 0 /\ d \in 1 .. Bits
  BY <1>2
<1>4. \A d \in 0 .. len : S[d] = Levels(d)
  OBVIOUS
<1> HIDE DEF S
<1>5. \A d \in 1 .. len : \A s \in Levels(d - 1) : NextLevel(s) \in Levels(d)
  BY <1>3, NextLevelSound
<1>6. \A d \in 1 .. len : \A s \in S[d - 1] : step[d][s] = NextLevel(s) /\ step[d][s] \in S[d]
  BY <1>3, <1>4, <1>5
<1>7. <<<<>>>> \in S[0]
  <2>1. <<>> \in [1 .. 0 -> {0, 1}] /\ 0 \in 0 .. Bits
    BY <1>2
  <2>2. PICK e : e = <<>>
    OBVIOUS
  <2>3. e \in Nets /\ Len(e) = 0
    BY <2>1, <2>2, NetMade
  <2>4. <<e>> \in Seq(Nets) /\ Len(<<e>>) = 1 /\ <<e>>[1] = e
    BY <2>3
  <2>5. <<e>> \in Levels(0)
    BY <2>3, <2>4 DEF Levels
  <2> QED BY <1>2, <1>4, <2>2, <2>5
<1> HIDE DEF step
<1>8. PICK g : Turning(0, len, <<<<>>>>, step, S, g)
  <2>1. \A d \in 0 + 1 .. len : \A s \in S[d - 1] : step[d][s] \in S[d]
    BY <1>2, <1>6
  <2> QED BY <1>2, <1>7, <2>1, Turns
<1>9. LevelTurns(len, g)
  <2>1. g = [d \in 0 .. len |-> IF d = 0 THEN <<<<>>>> ELSE step[d][g[d - 1]]]
        /\ \A d \in 0 .. len : g[d] \in S[d]
    BY <1>8 DEF Turning
  <2>2. ASSUME NEW d \in 0 .. len
        PROVE  (IF d = 0 THEN <<<<>>>> ELSE step[d][g[d - 1]])
               = IF d = 0 THEN <<<<>>>> ELSE NextLevel(g[d - 1])
    <3>1. CASE d # 0
      <4>1. d \in 1 .. len /\ d - 1 \in 0 .. len
        BY <1>2, <3>1
      <4> QED BY <1>6, <2>1, <4>1
    <3> QED BY <3>1
  <2>3. g = [d \in 0 .. len |-> IF d = 0 THEN <<<<>>>> ELSE NextLevel(g[d - 1])]
    BY <2>1, <2>2
  <2> QED BY <2>3 DEF LevelTurns
<1>10. LevelTurns(len, f)
  BY <1>9
<1> HIDE DEF f
<1>11. f[0] = <<<<>>>> /\ \A d \in 1 .. len : f[d] = NextLevel(f[d - 1])
  BY <1>2, <1>3, <1>10 DEF LevelTurns
<1> DEFINE Good == {d \in 0 .. len : f[d] \in Levels(d)}
<1>12. 0 \in Good
  BY <1>2, <1>4, <1>7, <1>11
<1>13. ASSUME NEW d \in 0 + 1 .. len, d - 1 \in Good PROVE d \in Good
  BY <1>2, <1>3, <1>5, <1>11, <1>13
<1> HIDE DEF Good
<1>14. \A d \in 0 .. len : d \in Good
  BY <1>2, <1>12, <1>13, UpFrom
<1> QED BY <1>1, <1>2, <1>14 DEF Good, Levels

(* The trees in which no prefix has a value.                                *)
Empty == {t \in Trees : Intact(t, {})}
AllTurns(t, nets, f) ==
    f = [k \in 0 .. Len(nets) |->
            IF k = 0 THEN t ELSE ngx_radix32tree_insert(f[k - 1], nets[k], NoValue).tree]

LEMMA InsertEmpty ==
    ASSUME NEW t \in Empty, NEW p \in Nets
    PROVE  ngx_radix32tree_insert(t, p, NoValue).tree \in Empty
<1>1. PICK r : r = ngx_radix32tree_insert(t, p, NoValue)
  OBVIOUS
<1>2. PICK v : v = NoValue
  OBVIOUS
<1>3. Intact(t, {}) /\ v \in {p, NoValue} /\ r = ngx_radix32tree_insert(t, p, v)
  BY <1>1, <1>2 DEF Empty
<1>4. PICK R : R = {}
  OBVIOUS
<1>5. Inserted(t, R, p, v, r)
  BY <1>3, <1>4, InsertSound
<1>6. v # p
  BY <1>2, NoNet
<1> QED BY <1>1, <1>4, <1>5, <1>6 DEF Inserted, Empty

LEMMA InsertAllSound ==
    ASSUME NEW t \in Empty, NEW nets \in Seq(Nets)
    PROVE  InsertAll(t, nets) \in Empty
<1> DEFINE n == Len(nets)
           S == [k \in 0 .. n |-> Empty]
           step == [k \in 1 .. n |->
                       [u \in Empty |-> ngx_radix32tree_insert(u, nets[k], NoValue).tree]]
           f == CHOOSE g : AllTurns(t, nets, g)
<1>1. InsertAll(t, nets) = f[n]
  BY DEF InsertAll, AllTurns
<1>2. n \in Nat /\ 0 \in 0 .. n /\ n \in 0 .. n /\ 0 + 1 = 1 /\ 0 <= n
  BY LenProperties
<1>3. \A k \in 1 .. n : k - 1 \in 0 .. n /\ k \in 0 .. n /\ k # 0 /\ nets[k] \in Nets
  BY <1>2, ElementOfSeq
<1>4. \A k \in 0 .. n : S[k] = Empty
  OBVIOUS
<1>5. \A k \in 1 .. n : \A u \in Empty :
         ngx_radix32tree_insert(u, nets[k], NoValue).tree \in Empty
  BY <1>3, InsertEmpty
<1>6. \A k \in 1 .. n : \A u \in Empty :
         /\ step[k][u] = ngx_radix32tree_insert(u, nets[k], NoValue).tree
         /\ step[k][u] \in Empty
  BY <1>5
<1> HIDE DEF S, step
<1>7. PICK g : Turning(0, n, t, step, S, g)
  <2>1. \A k \in 0 + 1 .. n : \A u \in S[k - 1] : step[k][u] \in S[k]
    BY <1>2, <1>3, <1>4, <1>6
  <2>2. t \in S[0]
    BY <1>2, <1>4
  <2> HIDE DEF n
  <2> QED BY <1>2, <2>1, <2>2, Turns
<1>8. AllTurns(t, nets, g)
  <2>1. g = [k \in 0 .. n |-> IF k = 0 THEN t ELSE step[k][g[k - 1]]]
        /\ \A k \in 0 .. n : g[k] \in Empty
    BY <1>4, <1>7 DEF Turning
  <2>2. ASSUME NEW k \in 0 .. n
        PROVE  (IF k = 0 THEN t ELSE step[k][g[k - 1]])
               = IF k = 0 THEN t
                 ELSE ngx_radix32tree_insert(g[k - 1], nets[k], NoValue).tree
    <3>1. CASE k # 0
      <4>1. k \in 1 .. n /\ k - 1 \in 0 .. n
        BY <1>2, <3>1
      <4>2. g[k - 1] \in Empty
        BY <2>1, <4>1
      <4> QED BY <1>6, <4>1, <4>2
    <3> QED BY <3>1
  <2>3. g = [k \in 0 .. n |->
               IF k = 0 THEN t ELSE ngx_radix32tree_insert(g[k - 1], nets[k], NoValue).tree]
    BY <2>1, <2>2
  <2> QED BY <2>3 DEF AllTurns
<1>9. AllTurns(t, nets, f)
  BY <1>8
<1> HIDE DEF f
<1>10. /\ f[0] = t
       /\ \A k \in 1 .. n : f[k] = ngx_radix32tree_insert(f[k - 1], nets[k], NoValue).tree
  BY <1>2, <1>3, <1>9 DEF AllTurns
<1> DEFINE Good == {k \in 0 .. n : f[k] \in Empty}
<1>11. 0 \in Good
  BY <1>2, <1>10
<1>12. ASSUME NEW k \in 0 + 1 .. n, k - 1 \in Good PROVE k \in Good
  BY <1>2, <1>3, <1>5, <1>10, <1>12
<1> HIDE DEF Good, n
<1>13. \A k \in 0 .. n : k \in Good
  BY <1>2, <1>11, <1>12, UpFrom
<1> QED BY <1>1, <1>2, <1>13 DEF Good

CreateTurns(b, f) == f = [d \in 0 .. b |-> IF d = 0 THEN Bare ELSE InsertAll(f[d - 1], Level(d))]

LEMMA CreateSound ==
    ASSUME NEW b \in 0 .. Bits
    PROVE  ngx_radix_tree_create(b) \in Empty
<1> DEFINE S == [d \in 0 .. b |-> Empty]
           step == [d \in 1 .. b |-> [u \in Empty |-> InsertAll(u, Level(d))]]
           f == CHOOSE g : CreateTurns(b, g)
<1>1. ngx_radix_tree_create(b) = f[b]
  BY DEF ngx_radix_tree_create, CreateTurns
<1>2. b \in Nat /\ 0 \in 0 .. b /\ b \in 0 .. b /\ 0 + 1 = 1 /\ 0 <= b /\ Bits \in Nat
  BY RadixAssumption
<1>3. \A d \in 1 .. b : d - 1 \in 0 .. b /\ d \in 0 .. b /\ d # 0 /\ d \in 0 .. Bits
  BY <1>2
<1>4. \A d \in 0 .. b : S[d] = Empty
  OBVIOUS
<1>5. \A d \in 1 .. b : \A u \in Empty : InsertAll(u, Level(d)) \in Empty
  <2>1. \A d \in 1 .. b : Level(d) \in Seq(Nets)
    BY <1>3, LevelSound
  <2> QED BY <2>1, InsertAllSound
<1>6. \A d \in 1 .. b : \A u \in Empty :
         step[d][u] = InsertAll(u, Level(d)) /\ step[d][u] \in Empty
  BY <1>5
<1>7. Bare \in Empty
  BY BareIntact DEF Empty, Intact, Sound
<1> HIDE DEF S, step
<1>8. PICK g : Turning(0, b, Bare, step, S, g)
  <2>1. \A d \in 0 + 1 .. b : \A u \in S[d - 1] : step[d][u] \in S[d]
    BY <1>2, <1>3, <1>4, <1>6
  <2>2. Bare \in S[0]
    BY <1>2, <1>4, <1>7
  <2> QED BY <1>2, <2>1, <2>2, Turns
<1>9. CreateTurns(b, g)
  <2>1. g = [d \in 0 .. b |-> IF d = 0 THEN Bare ELSE step[d][g[d - 1]]]
        /\ \A d \in 0 .. b : g[d] \in Empty
    BY <1>4, <1>8 DEF Turning
  <2>2. ASSUME NEW d \in 0 .. b
        PROVE  (IF d = 0 THEN Bare ELSE step[d][g[d - 1]])
               = IF d = 0 THEN Bare ELSE InsertAll(g[d - 1], Level(d))
    <3>1. CASE d # 0
      <4>1. d \in 1 .. b /\ d - 1 \in 0 .. b
        BY <1>2, <3>1
      <4>2. g[d - 1] \in Empty
        BY <2>1, <4>1
      <4> QED BY <1>6, <4>1, <4>2
    <3> QED BY <3>1
  <2>3. g = [d \in 0 .. b |-> IF d = 0 THEN Bare ELSE InsertAll(g[d - 1], Level(d))]
    BY <2>1, <2>2
  <2> QED BY <2>3 DEF CreateTurns
<1>10. CreateTurns(b, f)
  BY <1>9
<1> HIDE DEF f
<1>11. f[0] = Bare /\ \A d \in 1 .. b : f[d] = InsertAll(f[d - 1], Level(d))
  BY <1>2, <1>3, <1>10 DEF CreateTurns
<1> DEFINE Good == {d \in 0 .. b : f[d] \in Empty}
<1>12. 0 \in Good
  BY <1>2, <1>7, <1>11
<1>13. ASSUME NEW d \in 0 + 1 .. b, d - 1 \in Good PROVE d \in Good
  BY <1>2, <1>3, <1>5, <1>11, <1>13
<1> HIDE DEF Good
<1>14. \A d \in 0 .. b : d \in Good
  BY <1>2, <1>12, <1>13, UpFrom
<1> QED BY <1>1, <1>2, <1>14 DEF Good

-----------------------------------------------------------------------------
(* The inductive invariant.                                                 *)
LEMMA PagesSet ==
    ASSUME NEW t, NEW R, Intact(t, R), NEW q \in Nat,
           t.start + t.size + q * PageNodes <= PageNodes * MaxPages + 1,
           NEW u, u = [t EXCEPT !.pages = q]
    PROVE  Intact(u, R) /\ u.pages = q /\ Amount(u) = t.start + t.size + q * PageNodes
<1>1. PICK net, k, free : Sound(t, R, net, k, free)
  BY DEF Intact
<1>2. /\ t \in Trees /\ Placed(t, net) /\ Valued(t, R, net)
      /\ Listed(t, DOMAIN net, k, free) /\ Room(t)
  BY <1>1 DEF Sound
<1>3. /\ u \in Trees /\ u.left = t.left /\ u.right = t.right /\ u.parent = t.parent
      /\ u.value = t.value /\ u.free_list = t.free_list
      /\ u.start = t.start /\ u.size = t.size /\ u.pages = q
  BY <1>2 DEF Trees
<1>4. Placed(u, net) /\ Listed(u, DOMAIN net, k, free)
  BY <1>2, <1>3, PlacedSame, ListedSame
<1>5. Valued(u, R, net)
  BY <1>2, <1>3 DEF Valued
<1>6. Amount(u) = t.start + t.size + q * PageNodes /\ Room(u)
  BY <1>2, <1>3 DEF Amount, Room
<1> QED BY <1>3, <1>4, <1>5, <1>6 DEF Sound, Intact

LEMMA IntactFacts ==
    ASSUME NEW t, NEW R, Intact(t, R)
    PROVE  /\ t \in Trees /\ Amount(t) = t.start + t.size + t.pages * PageNodes
           /\ t.start \in Nat /\ t.size \in Nat /\ t.pages \in Nat
           /\ Amount(t) <= PageNodes * MaxPages + 1
BY DEF Intact, Sound, Trees, Room, Amount

LEMMA Products ==
    ASSUME NEW a \in Nat, NEW b \in Nat, NEW c \in Nat
    PROVE  /\ a * c \in Nat /\ b * c \in Nat /\ (a + b) * c = a * c + b * c
           /\ a <= b => a * c <= b * c
<1>1. a * c \in Nat /\ b * c \in Nat /\ (a + b) * c = a * c + b * c
  OBVIOUS
<1>2. ASSUME a <= b PROVE a * c <= b * c
  <2>1. PICK d \in Nat : b = a + d
    <3>1. b - a \in Nat /\ b = a + (b - a)
      BY <1>2
    <3> QED BY <3>1
  <2>2. b * c = a * c + d * c /\ d * c \in Nat
    BY <2>1
  <2> QED BY <1>1, <2>2
<1> QED BY <1>1, <1>2

LEMMA RadixInitInv == RadixInit => RadixInv
<1> SUFFICES ASSUME RadixInit PROVE RadixInv
  OBVIOUS
<1>1. PICK b \in Preallocated : tree = ngx_radix_tree_create(b)
  BY DEF RadixInit
<1>2. b \in 0 .. Bits
  BY RadixAssumption
<1>3. Intact(tree, {})
  BY <1>1, <1>2, CreateSound DEF Empty
<1> QED BY <1>3 DEF RadixInit, RadixInv

LEMMA DeleteInv ==
    ASSUME RadixInv, NEW p \in Nets, Delete(p)
    PROVE  RadixInv'
<1>1. CASE Len(p) = 0 /\ Leaf(tree, Root)
  <2>1. tree' = tree /\ routes' = routes
    BY <1>1 DEF Delete
  <2> QED BY <2>1 DEF RadixInv
<1>2. CASE ~(Len(p) = 0 /\ Leaf(tree, Root))
  <2>1. PICK r : r = ngx_radix32tree_delete(tree, p)
    OBVIOUS
  <2>2. tree' = r.tree /\ routes' = IF r.rc = "NGX_OK" THEN routes \ {p} ELSE routes
    BY <1>2, <2>1 DEF Delete
  <2>3. Deleted(tree, routes, p, r)
    BY <1>2, <2>1, DeleteSound DEF RadixInv
  <2>4. Intact(tree', routes')
    BY <2>2, <2>3 DEF Deleted
  <2>5. routes' \subseteq Nets
    BY <2>2 DEF RadixInv
  <2> QED BY <2>4, <2>5 DEF RadixInv
<1> QED BY <1>1, <1>2

LEMMA InsertInv ==
    ASSUME RadixInv, NEW p \in Nets, NEW k \in 0 .. tree.pages, Insert(p, k)
    PROVE  RadixInv'
<1>1. Intact(tree, routes) /\ routes \subseteq Nets
  BY DEF RadixInv
<1>2. PICK t : t = [tree EXCEPT !.pages = k]
  OBVIOUS
<1>3. PICK r : r = ngx_radix32tree_insert(t, p, p)
  OBVIOUS
<1>4. /\ tree' = [r.tree EXCEPT !.pages = tree.pages - (k - @)]
      /\ routes' = IF r.rc = "NGX_OK" THEN routes \cup {p} ELSE routes
  BY <1>2, <1>3 DEF Insert
<1>5. /\ tree.start \in Nat /\ tree.size \in Nat /\ tree.pages \in Nat
      /\ Amount(tree) = tree.start + tree.size + tree.pages * PageNodes
      /\ Amount(tree) <= PageNodes * MaxPages + 1
  BY <1>1, IntactFacts
<1>6. PageNodes \in Nat /\ PageNodes * MaxPages \in Nat /\ k \in Nat /\ k <= tree.pages
  BY <1>5, NodeFacts, RadixAssumption
<1>7. PICK rest \in Nat : tree.pages = k + rest
  <2>1. tree.pages - k \in Nat /\ tree.pages = k + (tree.pages - k)
    BY <1>5, <1>6
  <2> QED BY <2>1
<1>8. /\ k * PageNodes \in Nat /\ rest * PageNodes \in Nat
      /\ tree.pages * PageNodes = k * PageNodes + rest * PageNodes
  BY <1>6, <1>7, Products
<1>9. tree.start + tree.size + k * PageNodes <= PageNodes * MaxPages + 1
  BY <1>5, <1>6, <1>8
<1>10. Intact(t, routes) /\ t.pages = k
       /\ Amount(t) = tree.start + tree.size + k * PageNodes
  BY <1>1, <1>2, <1>6, <1>9, PagesSet
<1>11. Inserted(t, routes, p, p, r)
  <2>1. PICK value : value = p
    OBVIOUS
  <2>2. value \in {p, NoValue} /\ r = ngx_radix32tree_insert(t, p, value)
    BY <1>3, <2>1
  <2>3. Inserted(t, routes, p, value, r)
    BY <1>10, <2>2, InsertSound
  <2> QED BY <2>1, <2>3
<1>12. /\ Intact(r.tree, routes') /\ Amount(r.tree) = Amount(t) /\ r.tree.pages <= k
  BY <1>4, <1>10, <1>11 DEF Inserted
<1>13. PICK u : u = r.tree
  OBVIOUS
<1>14. PICK R : R = routes'
  OBVIOUS
<1>15. Intact(u, R) /\ Amount(u) = Amount(t) /\ u.pages <= k
  BY <1>12, <1>13, <1>14
<1>16. u.start \in Nat /\ u.size \in Nat /\ u.pages \in Nat
       /\ Amount(u) = u.start + u.size + u.pages * PageNodes
  BY <1>15, IntactFacts
<1>17. PICK q : q = tree.pages - (k - u.pages)
  OBVIOUS
<1>18. q = u.pages + rest /\ q \in Nat
  BY <1>6, <1>7, <1>16, <1>17
<1>19. u.pages * PageNodes \in Nat
       /\ q * PageNodes = u.pages * PageNodes + rest * PageNodes
  BY <1>6, <1>16, <1>18, Products
<1>20. u.start + u.size + q * PageNodes <= PageNodes * MaxPages + 1
  BY <1>5, <1>6, <1>8, <1>10, <1>15, <1>16, <1>19
<1>21. tree' = [u EXCEPT !.pages = q]
  BY <1>4, <1>13, <1>17
<1>22. PICK v : v = [u EXCEPT !.pages = q]
  OBVIOUS
<1>23. Intact(v, R)
  BY <1>15, <1>18, <1>20, <1>22, PagesSet
<1>24. Intact(tree', routes')
  BY <1>14, <1>21, <1>22, <1>23
<1>25. routes' \subseteq Nets
  BY <1>1, <1>4
<1> QED BY <1>24, <1>25 DEF RadixInv

LEMMA RadixStepInv == RadixInv /\ [RadixNext]_radixVars => RadixInv'
<1> SUFFICES ASSUME RadixInv, [RadixNext]_radixVars PROVE RadixInv'
  OBVIOUS
<1>1. CASE UNCHANGED radixVars
  BY <1>1 DEF RadixInv, radixVars
<1>2. CASE RadixNext
  <2>1. PICK p \in Nets : Delete(p) \/ \E k \in 0 .. tree.pages : Insert(p, k)
    BY <1>2 DEF RadixNext
  <2> QED BY <2>1, DeleteInv, InsertInv
<1> QED BY <1>1, <1>2

(* Whatever was inserted, deleted, pruned and reused, and wherever a call    *)
(* ended half-way: the nodes are those of prefixes, each with its parent and *)
(* its children, exactly the prefixes in routes have a value, and the other  *)
(* nodes that were cut from pages are in the list, once.                     *)
THEOREM RadixCorrect == RadixSpec => []RadixInv
<1>1. RadixInit => RadixInv
  BY RadixInitInv
<1>2. RadixInv /\ [RadixNext]_radixVars => RadixInv'
  BY RadixStepInv
<1> QED BY <1>1, <1>2, PTL DEF RadixSpec

-----------------------------------------------------------------------------
(* A search.                                                                *)
LEMMA CoversPrefix ==
    ASSUME NEW p \in Nets, NEW key \in Nets
    PROVE  /\ Len(p) <= Len(key) /\ Covers(p, key) => p = Prefix(key, Len(p))
           /\ Len(p) <= Len(key) /\ p = Prefix(key, Len(p)) => Covers(p, key)
<1>1. p \in [1 .. Len(p) -> {0, 1}] /\ Len(p) \in Nat
  BY NetFacts
<1>2. ASSUME Covers(p, key) PROVE p = Prefix(key, Len(p))
  <2>1. \A d \in 1 .. Len(p) : p[d] = key[d]
    BY <1>1, <1>2 DEF Covers
  <2> QED BY <1>1, <2>1 DEF Prefix
<1>3. ASSUME p = Prefix(key, Len(p)) PROVE Covers(p, key)
  <2>1. \A d \in 1 .. Len(p) : Prefix(key, Len(p))[d] = key[d]
    BY DEF Prefix
  <2>2. \A d \in DOMAIN p : d \in 1 .. Len(p)
    BY <1>1
  <2> QED BY <1>3, <2>1, <2>2 DEF Covers
<1> QED BY <1>2, <1>3

LEMMA FindSound ==
    ASSUME NEW t, NEW R, R \subseteq Nets, Intact(t, R), NEW key \in Keys,
           NEW r, r = ngx_radix32tree_find(t, key),
           NEW C, C = {p \in R : Covers(p, key)}
    PROVE  IF C = {} THEN r = NoValue
           ELSE r \in C /\ \A p \in C : Len(p) <= Len(r)
<1>1. PICK net, k, free : Sound(t, R, net, k, free)
  BY DEF Intact
<1>2. Placed(t, net) /\ Valued(t, R, net)
  BY <1>1 DEF Sound
<1>3. key \in Nets /\ Len(key) = Bits /\ Bits \in Nat
  <2>1. Bits \in 0 .. Bits /\ Bits \in Nat
    BY RadixAssumption
  <2> QED BY <2>1, NetMade DEF Keys
<1>4. PICK way : way = Way(t, key)
  OBVIOUS
<1>5. \A d \in 0 .. Len(key) : way[d] = At(net, Prefix(key, d))
  BY <1>2, <1>3, <1>4, WaySound
<1> DEFINE found == {d \in 0 .. Len(key) : way[d] # NoNode /\ t.value[way[d]] # NoValue}
<1>6. r = IF found = {} THEN NoValue ELSE t.value[way[Max(found)]]
  BY <1>4 DEF ngx_radix32tree_find
<1>7. ASSUME NEW d \in 0 .. Len(key)
      PROVE  /\ d \in found <=> Prefix(key, d) \in R
             /\ d \in found => t.value[way[d]] = Prefix(key, d)
  <2>1. CASE way[d] = NoNode
    <3>1. d \notin found
      BY <2>1
    <3>2. \A n \in DOMAIN net : net[n] # Prefix(key, d)
      BY <1>2, <1>5, <2>1, AtNode
    <3> QED BY <1>2, <3>1, <3>2 DEF Valued
  <2>2. CASE way[d] # NoNode
    <3>1. way[d] \in DOMAIN net /\ net[way[d]] = Prefix(key, d)
      BY <1>2, <1>5, <2>2, AtFound
    <3>2. t.value[way[d]] = IF Prefix(key, d) \in R THEN Prefix(key, d) ELSE NoValue
      BY <1>2, <3>1 DEF Valued
    <3>3. Prefix(key, d) # NoValue
      BY <1>3, NoNet, PrefixFacts
    <3>4. d \in found <=> t.value[way[d]] # NoValue
      BY <2>2
    <3> QED BY <3>2, <3>3, <3>4
  <2> QED BY <2>1, <2>2
<1>8. \A d \in found : d \in 0 .. Len(key) /\ Prefix(key, d) \in C /\ Len(Prefix(key, d)) = d
  <2>1. ASSUME NEW d \in found
        PROVE  d \in 0 .. Len(key) /\ Prefix(key, d) \in C /\ Len(Prefix(key, d)) = d
    <3>1. d \in 0 .. Len(key) /\ Prefix(key, d) \in R
      BY <1>7
    <3>2. PICK q : q = Prefix(key, d)
      OBVIOUS
    <3>3. q \in Nets /\ Len(q) = d
      BY <1>3, <3>1, <3>2, PrefixFacts
    <3>4. Covers(q, key)
      <4>1. Len(q) <= Len(key) /\ q = Prefix(key, Len(q))
        BY <1>3, <3>1, <3>2, <3>3
      <4> QED BY <1>3, <3>3, <4>1, CoversPrefix
    <3> QED BY <3>1, <3>2, <3>3, <3>4
  <2> QED BY <2>1
<1>9. \A p \in C : Len(p) \in found
  <2> SUFFICES ASSUME NEW p \in C PROVE Len(p) \in found
    OBVIOUS
  <2>1. p \in R /\ p \in Nets /\ Covers(p, key)
    OBVIOUS
  <2>2. Len(p) \in 0 .. Len(key) /\ Len(p) <= Len(key)
    BY <1>3, <2>1, NetFacts
  <2>3. Prefix(key, Len(p)) = p
    BY <1>3, <2>1, <2>2, CoversPrefix
  <2>4. Prefix(key, Len(p)) \in R
    BY <2>1, <2>3
  <2> HIDE DEF found
  <2> QED BY <1>7, <2>2, <2>4
<1>10. found \in SUBSET (0 .. Len(key)) /\ Len(key) \in Nat
  BY <1>3
<1> HIDE DEF found
<1>11. CASE found = {}
  BY <1>6, <1>9, <1>11
<1>12. CASE found # {}
  <2>1. PICK m : m = Max(found)
    OBVIOUS
  <2>2. m \in found /\ \A d \in found : d <= m
    BY <1>10, <1>12, <2>1, GreatestIn
  <2>3. r = Prefix(key, m) /\ r \in C /\ Len(r) = m
    BY <1>6, <1>7, <1>8, <1>12, <2>1, <2>2
  <2>4. \A p \in C : Len(p) <= Len(r)
    BY <1>9, <2>2, <2>3
  <2> QED BY <2>3, <2>4
<1> QED BY <1>11, <1>12

(* The nodes in the tree.                                                   *)
LEMMA InTreeSound ==
    ASSUME NEW net, Placed(tree, net)
    PROVE  InTree = DOMAIN net
<1>1. Bits \in Nat /\ Bits \in 0 .. Bits
  BY RadixAssumption
<1>2. \A key \in Keys : key \in Nets /\ Len(key) = Bits
  BY <1>1, NetMade DEF Keys
<1>3. ASSUME NEW n \in InTree PROVE n \in DOMAIN net
  <2>1. n # NoNode /\ n \in UNION {{Way(tree, key)[d] : d \in 0 .. Bits} : key \in Keys}
    BY Zenon DEF InTree
  <2>2. PICK X \in {{Way(tree, key)[d] : d \in 0 .. Bits} : key \in Keys} : n \in X
    BY <2>1
  <2>3. PICK key \in Keys : X = {Way(tree, key)[d] : d \in 0 .. Bits}
    BY <2>2
  <2>4. PICK d \in 0 .. Bits : n = Way(tree, key)[d]
    BY <2>2, <2>3
  <2>5. n = At(net, Prefix(key, d))
    BY <1>2, <2>4, WaySound
  <2> QED BY <2>1, <2>5, AtFound
<1>4. ASSUME NEW n \in DOMAIN net PROVE n \in InTree
  <2>1. PICK p \in Nets : p = net[n]
    BY DEF Placed
  <2> DEFINE key == [i \in 1 .. Bits |-> IF i \in 1 .. Len(p) THEN p[i] ELSE 0]
  <2>2. /\ Len(p) \in 0 .. Bits /\ Len(p) \in Nat
        /\ p \in [1 .. Len(p) -> {0, 1}]
    BY NetFacts
  <2>3. key \in Keys
    BY <2>2 DEF Keys
  <2>4. \A i \in 1 .. Len(p) : key[i] = p[i]
    BY <1>1, <2>2
  <2> HIDE DEF key
  <2>5. Prefix(key, Len(p)) = p
    BY <2>2, <2>4 DEF Prefix
  <2>6. Way(tree, key)[Len(p)] = At(net, Prefix(key, Len(p)))
    BY <1>2, <2>2, <2>3, WaySound
  <2>7. Way(tree, key)[Len(p)] = n /\ n # NoNode
    BY <2>1, <2>5, <2>6, AtNode
  <2>8. n \in {Way(tree, key)[d] : d \in 0 .. Bits}
    BY <2>2, <2>7
  <2>9. PICK X : X = {Way(tree, key)[d] : d \in 0 .. Bits}
    OBVIOUS
  <2>10. X \in {{Way(tree, x)[d] : d \in 0 .. Bits} : x \in Keys}
    BY <2>3, <2>9
  <2>11. n \in UNION {{Way(tree, x)[d] : d \in 0 .. Bits} : x \in Keys}
    BY <2>8, <2>9, <2>10
  <2> QED BY <2>7, <2>11, Zenon DEF InTree
<1> QED BY <1>3, <1>4

(* The list of free nodes, which ends before the nodes run out.             *)
LEMMA ListShort ==
    ASSUME NEW k \in Nat, NEW free \in [1 .. k -> Nodes],
           \A i, j \in 1 .. k : free[i] = free[j] => i = j
    PROVE  Cardinality(Nodes) \in Nat /\ k <= Cardinality(Nodes)
<1>1. PICK n \in Nat : n = PageNodes * MaxPages /\ n > 0
  BY NodeFacts
<1>2. IsFiniteSet(Nodes) /\ Cardinality(Nodes) = n
  <2>1. IsFiniteSet(1 .. n) /\ Cardinality(1 .. n) = IF 1 > n THEN 0 ELSE n - 1 + 1
    BY FS_Interval
  <2> QED BY <1>1, <2>1 DEF Nodes
<1>3. IsFiniteSet(1 .. k) /\ Cardinality(1 .. k) = k
  <2>1. IsFiniteSet(1 .. k) /\ Cardinality(1 .. k) = IF 1 > k THEN 0 ELSE k - 1 + 1
    BY FS_Interval
  <2> QED BY <2>1
<1>4. ~(Cardinality(Nodes) < Cardinality(1 .. k))
  BY <1>2, <1>3, FS_PigeonHole
<1> QED BY <1>2, <1>3, <1>4

Listing(t, n, f) ==
    f = [i \in 0 .. n |->
            IF i = 0 THEN t.free_list
            ELSE IF f[i - 1] = NoNode THEN NoNode ELSE t.right[f[i - 1]]]

LEMMA FreeSound ==
    ASSUME NEW T, NEW k, NEW free, Listed(tree, T, k, free)
    PROVE  /\ Cardinality(Nodes) \in Nat /\ k <= Cardinality(Nodes)
           /\ FreeNodes = [i \in 0 .. Cardinality(Nodes) |->
                              IF i < k THEN free[i + 1] ELSE NoNode]
<1> DEFINE n == Cardinality(Nodes)
           w == [i \in 0 .. n |-> IF i < k THEN free[i + 1] ELSE NoNode]
<1>1. /\ k \in Nat /\ free \in [1 .. k -> Nodes]
      /\ \A i, j \in 1 .. k : free[i] = free[j] => i = j
      /\ tree.free_list = IF k = 0 THEN NoNode ELSE free[1]
      /\ \A i \in 1 .. k : tree.right[free[i]] = IF i = k THEN NoNode ELSE free[i + 1]
  BY DEF Listed
<1>2. n \in Nat /\ k <= n
  BY <1>1, ListShort
<1> HIDE DEF n
<1>3. \A i \in 1 .. k : free[i] # NoNode
  BY <1>1, NodeFacts
<1>4. w[0] = tree.free_list
  <2>1. 0 \in 0 .. n /\ (0 < k <=> k # 0)
    BY <1>1, <1>2
  <2> QED BY <1>1, <2>1
<1>5. ASSUME NEW i \in 1 .. n
      PROVE  w[i] = IF w[i - 1] = NoNode THEN NoNode ELSE tree.right[w[i - 1]]
  <2>1. i - 1 \in 0 .. n /\ i \in 0 .. n /\ i - 1 + 1 = i
    BY <1>2
  <2>2. CASE i - 1 < k
    <3>1. i \in 1 .. k /\ (i = k <=> ~(i < k))
      BY <1>1, <2>2
    <3>2. w[i - 1] = free[i] /\ w[i - 1] # NoNode
      BY <1>3, <2>1, <2>2, <3>1
    <3> QED BY <1>1, <2>1, <3>1, <3>2
  <2>3. CASE ~(i - 1 < k)
    <3>1. ~(i < k)
      BY <1>1, <2>3
    <3> QED BY <2>1, <2>3, <3>1
  <2> QED BY <2>2, <2>3
<1>6. w = [i \in 0 .. n |-> w[i]]
  OBVIOUS
<1> HIDE DEF w
<1>7. Listing(tree, n, w)
  <2>1. ASSUME NEW i \in 0 .. n
        PROVE  w[i] = IF i = 0 THEN tree.free_list
                      ELSE IF w[i - 1] = NoNode THEN NoNode ELSE tree.right[w[i - 1]]
    <3>1. i = 0 \/ i \in 1 .. n
      BY <1>2
    <3> QED BY <1>4, <1>5, <3>1
  <2> QED BY <1>6, <2>1 DEF Listing
<1>8. FreeNodes = CHOOSE f : Listing(tree, n, f)
  BY DEF FreeNodes, Listing, n
<1>9. PICK v : v = FreeNodes
  OBVIOUS
<1>10. Listing(tree, n, v)
  BY <1>7, <1>8, <1>9
<1>11. /\ v[0] = tree.free_list
       /\ \A i \in 1 .. n :
             v[i] = IF v[i - 1] = NoNode THEN NoNode ELSE tree.right[v[i - 1]]
       /\ v = [i \in 0 .. n |-> v[i]]
  <2>1. 0 \in 0 .. n /\ \A i \in 1 .. n : i \in 0 .. n /\ i # 0
    BY <1>2
  <2> QED BY <1>10, <2>1 DEF Listing
<1> DEFINE Good == {i \in 0 .. n : v[i] = w[i]}
<1>12. 0 \in Good
  BY <1>2, <1>4, <1>11
<1>13. ASSUME NEW i \in 1 .. n, i - 1 \in Good PROVE i \in Good
  <2>1. i \in 0 .. n
    BY <1>2
  <2> QED BY <1>5, <1>11, <1>13, <2>1
<1>14. Good \in SUBSET (0 .. n)
  OBVIOUS
<1> HIDE DEF Good
<1>15. \A i \in 0 .. n : i \in Good
  BY <1>2, <1>12, <1>13, <1>14, UpTo
<1>16. v = w
  <2>1. \A i \in 0 .. n : v[i] = w[i]
    BY <1>15 DEF Good
  <2> QED BY <1>6, <1>11, <2>1
<1> QED BY <1>2, <1>9, <1>16 DEF w, n

LEMMA AccountedSound ==
    ASSUME NEW R, NEW net, NEW k, NEW free, Sound(tree, R, net, k, free)
    PROVE  NodesAccounted
<1> DEFINE n == Cardinality(Nodes)
           found == {FreeNodes[i] : i \in DOMAIN FreeNodes} \ {NoNode}
<1>1. Placed(tree, net) /\ Listed(tree, DOMAIN net, k, free) /\ Room(tree) /\ tree \in Trees
  BY DEF Sound
<1>2. InTree = DOMAIN net
  BY <1>1, InTreeSound
<1>3. /\ n \in Nat /\ k <= n
      /\ FreeNodes = [i \in 0 .. n |-> IF i < k THEN free[i + 1] ELSE NoNode]
  BY <1>1, FreeSound
<1> HIDE DEF n
<1>4. /\ k \in Nat /\ free \in [1 .. k -> Nodes]
      /\ \A i \in 1 .. k : free[i] \notin DOMAIN net
      /\ \A x \in Nodes : x < tree.start <=> x \in DOMAIN net \/ \E i \in 1 .. k : free[i] = x
  BY <1>1 DEF Listed
<1>5. DOMAIN FreeNodes = 0 .. n
      /\ \A i \in 0 .. n : FreeNodes[i] = IF i < k THEN free[i + 1] ELSE NoNode
  BY <1>3
<1>6. FreeNodes[n] = NoNode
  <2>1. n \in 0 .. n /\ ~(n < k)
    BY <1>3, <1>4
  <2> QED BY <1>5, <2>1
<1>7. \A x : x \in found <=> \E i \in 1 .. k : free[i] = x
  <2>1. ASSUME NEW x \in found PROVE \E i \in 1 .. k : free[i] = x
    <3>1. PICK i \in 0 .. n : x = FreeNodes[i] /\ x # NoNode
      BY <1>5
    <3>2. i < k /\ x = free[i + 1]
      BY <1>5, <3>1
    <3>3. i + 1 \in 1 .. k
      BY <1>3, <1>4, <3>2
    <3> QED BY <3>2, <3>3
  <2>2. ASSUME NEW i \in 1 .. k PROVE free[i] \in found
    <3>1. i - 1 \in 0 .. n /\ i - 1 < k /\ i - 1 + 1 = i
      BY <1>3, <1>4
    <3>2. FreeNodes[i - 1] = free[i] /\ free[i] # NoNode
      BY <1>4, <1>5, <3>1, NodeFacts
    <3> QED BY <1>5, <3>1, <3>2
  <2> HIDE DEF found
  <2> QED BY <2>1, <2>2
<1> HIDE DEF found
<1>8. InTree \cap found = {}
  BY <1>2, <1>4, <1>7
<1>9. InTree \cup found = 1 .. tree.start - 1
  <2>1. /\ PageNodes * MaxPages \in Nat /\ PageNodes \in Nat
        /\ tree.start \in Nat /\ tree.size \in Nat /\ tree.pages \in Nat
    BY <1>1, NodeFacts, RadixAssumption DEF Trees
  <2>2. tree.pages * PageNodes \in Nat
    BY <2>1
  <2>3. tree.start <= PageNodes * MaxPages + 1
    BY <1>1, <2>1, <2>2 DEF Room, Amount
  <2>4. \A x : x \in Nodes /\ x < tree.start <=> x \in 1 .. tree.start - 1
    BY <2>1, <2>3 DEF Nodes
  <2>5. \A x \in InTree \cup found : x \in Nodes
    BY <1>1, <1>2, <1>4, <1>7 DEF Placed
  <2>6. \A x \in Nodes : x \in InTree \cup found <=> x < tree.start
    BY <1>2, <1>4, <1>7
  <2> QED BY <2>4, <2>5, <2>6
<1>10. ASSUME NEW x \in InTree \ {Root}
       PROVE  /\ tree.parent[x] \in InTree
              /\ x \in {tree.left[tree.parent[x]], tree.right[tree.parent[x]]}
  BY <1>1, <1>2 DEF Placed, Child
<1> QED BY <1>6, <1>8, <1>9, <1>10 DEF NodesAccounted, n, found

(* A search finds the longest of the prefixes that were inserted and not    *)
(* deleted, however nodes were pruned, reused and left half-made before.    *)
THEOREM FindsCorrect == RadixSpec => []FindsLongest
<1>1. RadixInv => FindsLongest
  <2> SUFFICES ASSUME RadixInv, NEW key \in Keys,
                      NEW r, r = ngx_radix32tree_find(tree, key),
                      NEW C, C = {p \in routes : Covers(p, key)}
               PROVE  IF C = {} THEN r = NoValue
                      ELSE r \in C /\ \A p \in C : Len(p) <= Len(r)
    BY DEF FindsLongest
  <2>1. routes \subseteq Nets /\ Intact(tree, routes)
    BY DEF RadixInv
  <2> QED BY <2>1, FindSound
<1> QED BY <1>1, RadixCorrect, PTL

(* No node that was cut from a page is lost, and none is in two places.     *)
THEOREM AccountedCorrect == RadixSpec => []NodesAccounted
<1>1. RadixInv => NodesAccounted
  BY AccountedSound DEF RadixInv, Intact
<1> QED BY <1>1, RadixCorrect, PTL
=============================================================================
