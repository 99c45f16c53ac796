---------------------------- MODULE Timers_proof ----------------------------
(***************************************************************************)
(* The timers of Timers are in the order of time though the keys wrap      *)
(* around, and go off when they were asked for: for any width of the keys, *)
(* any delays that fit in half of it, connections and lateness of the      *)
(* loop.                                                                   *)
(***************************************************************************)
EXTENDS TimersProperties, Sums, SequenceTheorems

(* How far a node's time is ahead of a time.                                *)
Ahead(n, time) == Signed(n.key - time)
Nodes == [ev : Events, key : 0 .. Msecs - 1]

Typed(t) ==
    /\ t = [tree |-> t.tree, set |-> t.set, left |-> t.left]
    /\ t.tree \in Seq(Nodes) /\ t.set \subseteq Events /\ t.left \in [t.set -> Int]
InOrder(t, time) ==
    \A j, k \in DOMAIN t.tree : j < k => Ahead(t.tree[j], time) <= Ahead(t.tree[k], time)
OneEach(t) ==
    /\ \A j, k \in DOMAIN t.tree : t.tree[j].ev = t.tree[k].ev => j = k
    /\ \A e \in t.set : \E k \in DOMAIN t.tree : t.tree[k].ev = e
    /\ \A k \in DOMAIN t.tree : t.tree[k].ev \in t.set
Near(t, time, low) ==
    \A k \in DOMAIN t.tree :
        /\ Ahead(t.tree[k], time) \in low .. MaxDelay
        /\ Ahead(t.tree[k], time) - t.left[t.tree[k].ev] \in 1 - LazyDelay .. LazyDelay - 1

Sound(t, time, low) == Typed(t) /\ InOrder(t, time) /\ OneEach(t) /\ Near(t, time, low)

(* Only between a wait and the end of the expiring that follows a timer may *)
(* be overdue.                                                              *)
Low == IF at = "expire" \/ (at = "events" /\ moved) THEN -MaxLag ELSE 0

TimersInv ==
    /\ at \in {"top", "wait", "events", "expire", "flags", "exited"}
    /\ now \in 0 .. Msecs - 1 /\ process \in {"worker", "manager"}
    /\ IF process = "worker" THEN "manager" \notin timers.set ELSE timers.set \subseteq {"manager"}
    /\ Sound(timers, now, Low)

-----------------------------------------------------------------------------
(* Times that wrap around.                                                  *)
Half == Msecs \div 2

(* Finitely many delays have a longest one.                                 *)
LEMMA MaxDelayIs == MaxDelay \in Delays /\ \A d \in Delays : d <= MaxDelay
<1> DEFINE Longest(T, d) == d \in T /\ \A x \in T : d >= x
           Bad == {T \in SUBSET Delays : T # {} /\ ~\E d \in T : Longest(T, d)}
<1>1. Delays \subseteq Nat /\ IsFiniteSet(Delays) /\ Delays # {}
  BY TimersAssumption
<1>2. ASSUME Bad # {} PROVE FALSE
  <2>1. PICK T \in Bad : \A x \in T : T \ {x} \notin Bad
    <3>1. Bad \in SUBSET (SUBSET Delays)
      OBVIOUS
    <3> HIDE DEF Bad
    <3> QED BY <1>1, <1>2, <3>1, SmallestBad
  <2>2. PICK x \in T : TRUE
    OBVIOUS
  <2>3. CASE T \ {x} = {}
    BY <1>1, <2>1, <2>2, <2>3
  <2>4. CASE T \ {x} # {}
    <3>1. PICK d \in T \ {x} : Longest(T \ {x}, d)
      BY <2>1, <2>2, <2>4
    <3>2. d \in Nat /\ x \in Nat
      BY <1>1, <2>2
    <3>3. CASE d >= x
      BY <3>1, <3>3
    <3>4. CASE x > d
      <4>1. \A y \in T : y \in Nat
        BY <1>1
      <4>2. Longest(T, x)
        BY <3>1, <3>2, <3>4, <4>1, <2>2
      <4> QED BY <4>2
    <3> QED BY <3>2, <3>3, <3>4
  <2> QED BY <2>3, <2>4
<1>3. \E d \in Delays : Longest(Delays, d)
  BY <1>1, <1>2
<1> QED BY <1>1, <1>3 DEF MaxDelay, Max

(* The keys span less than half of the values of ngx_msec_t.                *)
LEMMA Spread ==
    /\ Half \in Nat /\ Half > 0 /\ Msecs = 2 * Half /\ MaxLag \in Nat /\ LazyDelay \in Nat \ {0}
    /\ MaxDelay \in Nat /\ MaxDelay >= 1 /\ MaxDelay + MaxLag < Half
    /\ \A d \in Delays : d \in 1 .. MaxDelay
<1>1. /\ Msecs \in Nat /\ Msecs % 2 = 0 /\ MaxLag \in Nat /\ LazyDelay \in Nat \ {0}
      /\ Delays \subseteq Nat \ {0} /\ 2 * (MaxDelay + MaxLag) < Msecs
  BY TimersAssumption, MaxDelayIs
<1>2. MaxDelay \in Nat /\ MaxDelay >= 1
  BY <1>1, MaxDelayIs
<1>3. Half \in Nat /\ Msecs = 2 * Half
  BY <1>1 DEF Half
<1>4. \A d \in Delays : d \in 1 .. MaxDelay
  BY <1>1, <1>2, MaxDelayIs
<1> HIDE DEF Half
<1> QED BY <1>1, <1>2, <1>3, <1>4

(* Remainders of numbers that are not far off.                              *)
LEMMA Remainder ==
    ASSUME NEW m \in Nat, m > 0, NEW x \in Int, -m <= x, x < 2 * m
    PROVE  x % m = IF x < 0 THEN x + m ELSE IF x < m THEN x ELSE x - m
OBVIOUS

(* Signed differs from its argument by the width, at most.                  *)
LEMMA SignedIs ==
    ASSUME NEW x \in Int, -Msecs < x, x < Msecs
    PROVE  /\ Signed(x) \in Int /\ -Half <= Signed(x) /\ Signed(x) < Half
           /\ Signed(x) = x \/ Signed(x) = x + Msecs \/ Signed(x) = x - Msecs
<1>1. Half \in Nat /\ Half > 0 /\ Msecs = 2 * Half
  BY Spread
<1>2. PICK y \in Int : y = x + Half
  BY <1>1
<1>3. Signed(x) = (y % Msecs) - Half
  BY <1>2 DEF Signed, Half
<1> HIDE DEF Half
<1>4. y % Msecs = IF y < 0 THEN y + Msecs ELSE IF y < Msecs THEN y ELSE y - Msecs
  <2>1. -Msecs <= y /\ y < 2 * Msecs /\ Msecs \in Nat /\ Msecs > 0
    BY <1>1, <1>2
  <2> QED BY <2>1, Remainder
<1> QED BY <1>1, <1>2, <1>3, <1>4

(* Differences of times ahead are those of the keys, though these wrap.     *)
LEMMA Difference ==
    ASSUME NEW j \in 0 .. Msecs - 1, NEW k \in 0 .. Msecs - 1, NEW time \in 0 .. Msecs - 1,
           Signed(k - time) - Signed(j - time) \in 1 - Half .. Half - 1
    PROVE  Signed(k - j) = Signed(k - time) - Signed(j - time)
<1>1. Half \in Nat /\ Half > 0 /\ Msecs = 2 * Half
  BY Spread
<1>2. /\ k - time \in Int /\ -Msecs < k - time /\ k - time < Msecs
      /\ j - time \in Int /\ -Msecs < j - time /\ j - time < Msecs
      /\ k - j \in Int /\ -Msecs < k - j /\ k - j < Msecs
  BY <1>1
<1> DEFINE a == Signed(k - time)
           b == Signed(j - time)
           c == Signed(k - j)
<1>3. a \in Int /\ (a = k - time \/ a = (k - time) + Msecs \/ a = (k - time) - Msecs)
  BY <1>2, SignedIs
<1>4. b \in Int /\ (b = j - time \/ b = (j - time) + Msecs \/ b = (j - time) - Msecs)
  BY <1>2, SignedIs
<1>5. /\ c \in Int /\ -Half <= c /\ c < Half
      /\ c = k - j \/ c = (k - j) + Msecs \/ c = (k - j) - Msecs
  BY <1>2, SignedIs
<1>6. a - b \in 1 - Half .. Half - 1
  OBVIOUS
<1> HIDE DEF a, b, c, Half
<1>7. c = a - b
  BY <1>1, <1>3, <1>4, <1>5, <1>6
<1> QED BY <1>7 DEF a, b, c

(* A key that is set d ahead is d ahead.                                    *)
LEMMA NewKey ==
    ASSUME NEW time \in 0 .. Msecs - 1, NEW d \in Nat, d < Half
    PROVE  (time + d) % Msecs \in 0 .. Msecs - 1 /\ Signed(((time + d) % Msecs) - time) = d
<1> DEFINE key == (time + d) % Msecs
<1>1. Half \in Nat /\ Half > 0 /\ Msecs = 2 * Half
  BY Spread
<1>2. key = IF time + d < Msecs THEN time + d ELSE (time + d) - Msecs
  <2>1. Msecs \in Nat /\ Msecs > 0 /\ time + d \in Int /\ -Msecs <= time + d /\ time + d < 2 * Msecs
        /\ ~(time + d < 0)
    BY <1>1
  <2> QED BY <2>1, Remainder
<1> HIDE DEF key, Half
<1>3. key \in 0 .. Msecs - 1 /\ key - time \in Int /\ -Msecs < key - time /\ key - time < Msecs
  BY <1>1, <1>2
<1>4. /\ Signed(key - time) \in Int /\ -Half <= Signed(key - time) /\ Signed(key - time) < Half
      /\ \/ Signed(key - time) = key - time \/ Signed(key - time) = (key - time) + Msecs
         \/ Signed(key - time) = (key - time) - Msecs
  BY <1>3, SignedIs
<1>5. Signed(key - time) = d
  BY <1>1, <1>2, <1>4
<1> QED BY <1>3, <1>5 DEF key

(* As time goes on a key comes nearer by as much.                           *)
LEMMA Nearer ==
    ASSUME NEW key \in 0 .. Msecs - 1, NEW time \in 0 .. Msecs - 1, NEW d \in Nat, d < Half,
           Signed(key - time) - d >= -Half
    PROVE  /\ (time + d) % Msecs \in 0 .. Msecs - 1
           /\ Signed(key - ((time + d) % Msecs)) = Signed(key - time) - d
<1> DEFINE then == (time + d) % Msecs
           a == Signed(key - time)
           b == Signed(key - then)
<1>1. Half \in Nat /\ Half > 0 /\ Msecs = 2 * Half
  BY Spread
<1>2. then = IF time + d < Msecs THEN time + d ELSE (time + d) - Msecs
  <2>1. Msecs \in Nat /\ Msecs > 0 /\ time + d \in Int /\ -Msecs <= time + d /\ time + d < 2 * Msecs
        /\ ~(time + d < 0)
    BY <1>1
  <2> QED BY <2>1, Remainder
<1> HIDE DEF then, Half
<1>3. /\ then \in 0 .. Msecs - 1
      /\ key - then \in Int /\ -Msecs < key - then /\ key - then < Msecs
      /\ key - time \in Int /\ -Msecs < key - time /\ key - time < Msecs
  BY <1>1, <1>2
<1>4. /\ a \in Int /\ -Half <= a /\ a < Half
      /\ a = key - time \/ a = (key - time) + Msecs \/ a = (key - time) - Msecs
  BY <1>3, SignedIs
<1>5. /\ b \in Int /\ -Half <= b /\ b < Half
      /\ b = key - then \/ b = (key - then) + Msecs \/ b = (key - then) - Msecs
  BY <1>3, SignedIs
<1>6. a - d >= -Half
  OBVIOUS
<1> HIDE DEF a, b
<1>7. b = a - d
  BY <1>1, <1>2, <1>4, <1>5, <1>6
<1> QED BY <1>3, <1>7 DEF a, b, then

-----------------------------------------------------------------------------
(* Changing the tree.                                                       *)

(* The tree after a node is taken out.                                      *)
LEMMA RemovedFrom ==
    ASSUME NEW S, NEW s \in Seq(S), NEW k \in DOMAIN s
    PROVE  LET u == RemoveAt(s, k) IN
           /\ u \in Seq(S) /\ DOMAIN u = 1 .. Len(s) - 1 /\ Len(s) \in Nat /\ DOMAIN s = 1 .. Len(s)
           /\ \A j \in DOMAIN u : u[j] = IF j < k THEN s[j] ELSE s[j + 1]
<1> DEFINE n == Len(s)
           a == SubSeq(s, 1, k - 1)
           b == SubSeq(s, k + 1, n)
<1>1. n \in Nat /\ DOMAIN s = 1 .. n /\ k \in 1 .. n
  BY LenProperties
<1>2. a \in Seq(S) /\ Len(a) = k - 1 /\ \A j \in 1 .. k - 1 : a[j] = s[j]
  BY <1>1
<1>3. b \in Seq(S) /\ Len(b) = n - k /\ \A j \in 1 .. n - k : b[j] = s[k + j]
  BY <1>1
<1>4. /\ a \o b \in Seq(S) /\ Len(a \o b) = n - 1
      /\ \A j \in 1 .. n - 1 : (a \o b)[j] = IF j <= k - 1 THEN a[j] ELSE b[j - (k - 1)]
  <2> HIDE DEF a, b, n
  <2> QED BY <1>1, <1>2, <1>3, ConcatProperties
<1>5. RemoveAt(s, k) = a \o b
  BY DEF RemoveAt
<1> HIDE DEF a, b, n
<1>6. ASSUME NEW j \in 1 .. n - 1 PROVE (a \o b)[j] = IF j < k THEN s[j] ELSE s[j + 1]
  <2>1. CASE j < k
    BY <1>1, <1>2, <1>4, <1>6, <2>1
  <2>2. CASE ~(j < k)
    <3>1. (a \o b)[j] = b[j - (k - 1)] /\ j - (k - 1) \in 1 .. n - k
      BY <1>1, <1>4, <1>6, <2>2
    <3>2. k + (j - (k - 1)) = j + 1
      BY <1>1, <1>6
    <3> QED BY <1>3, <2>2, <3>1, <3>2
  <2> QED BY <2>1, <2>2
<1>7. DOMAIN (a \o b) = 1 .. n - 1
  BY <1>4, LenProperties
<1> QED BY <1>1, <1>4, <1>5, <1>6, <1>7 DEF n

(* The tree after a node is put in.                                         *)
LEMMA InsertedInto ==
    ASSUME NEW S, NEW s \in Seq(S), NEW m \in 0 .. Len(s), NEW e \in S
    PROVE  LET u == InsertAt(s, 1 + m, e) IN
           /\ u \in Seq(S) /\ DOMAIN u = 1 .. Len(s) + 1 /\ Len(s) \in Nat /\ DOMAIN s = 1 .. Len(s)
           /\ \A j \in DOMAIN u : u[j] = IF j <= m THEN s[j] ELSE IF j = m + 1 THEN e ELSE s[j - 1]
<1> DEFINE n == Len(s)
           a == SubSeq(s, 1, m)
           b == SubSeq(s, m + 1, n)
           c == a \o <<e>>
<1>1. n \in Nat /\ DOMAIN s = 1 .. n /\ m \in 0 .. n
  BY LenProperties
<1>2. a \in Seq(S) /\ Len(a) = m /\ \A j \in 1 .. m : a[j] = s[j]
  BY <1>1
<1>3. b \in Seq(S) /\ Len(b) = n - m /\ \A j \in 1 .. n - m : b[j] = s[m + j]
  <2>1. m + 1 \in 1 .. n + 1 /\ n \in m .. n
    BY <1>1
  <2>2. b \in Seq(S)
    BY <1>1, <2>1
  <2>3. \A i \in m + 1 .. n : s[i] \in S
    BY <1>1
  <2>4. m + 1 \in Int /\ n \in Int
    BY <1>1
  <2> HIDE DEF n
  <2>5. /\ Len(b) = IF m + 1 <= n THEN (n - (m + 1)) + 1 ELSE 0
        /\ \A j \in 1 .. (n - (m + 1)) + 1 : b[j] = s[((m + 1) + j) - 1]
    BY <2>3, <2>4, SubSeqProperties
  <2>6. Len(b) = n - m
    <3> HIDE DEF b
    <3> QED BY <1>1, <2>5
  <2>7. \A j \in 1 .. n - m : b[j] = s[m + j]
    <3> HIDE DEF b
    <3>1. \A j \in 1 .. n - m : ((m + 1) + j) - 1 = m + j /\ j \in 1 .. (n - (m + 1)) + 1
      BY <1>1
    <3> QED BY <2>5, <3>1
  <2> QED BY <2>2, <2>6, <2>7
<1>4. /\ c \in Seq(S) /\ Len(c) = m + 1
      /\ \A j \in 1 .. m + 1 : c[j] = IF j <= m THEN a[j] ELSE e
  <2>1. <<e>> \in Seq(S) /\ Len(<<e>>) = 1 /\ <<e>>[1] = e
    OBVIOUS
  <2> HIDE DEF a
  <2>2. /\ c \in Seq(S) /\ Len(c) = m + 1
        /\ \A j \in 1 .. m + 1 : c[j] = IF j <= m THEN a[j] ELSE <<e>>[j - m]
    BY <1>1, <1>2, <2>1, ConcatProperties
  <2>3. \A j \in 1 .. m + 1 : ~(j <= m) => j - m = 1
    BY <1>1
  <2> HIDE DEF c
  <2> QED BY <2>1, <2>2, <2>3
<1>5. InsertAt(s, 1 + m, e) = c \o b
  <2>1. (1 + m) - 1 = m /\ 1 + m = m + 1
    BY <1>1
  <2> QED BY <2>1 DEF InsertAt
<1> HIDE DEF a, b, c, n
<1>6. /\ c \o b \in Seq(S) /\ Len(c \o b) = n + 1
      /\ \A j \in 1 .. n + 1 : (c \o b)[j] = IF j <= m + 1 THEN c[j] ELSE b[j - (m + 1)]
  BY <1>1, <1>3, <1>4, ConcatProperties
<1>7. ASSUME NEW j \in 1 .. n + 1
      PROVE  (c \o b)[j] = IF j <= m THEN s[j] ELSE IF j = m + 1 THEN e ELSE s[j - 1]
  <2>1. CASE j <= m
    BY <1>1, <1>2, <1>4, <1>6, <1>7, <2>1
  <2>2. CASE j = m + 1
    BY <1>1, <1>4, <1>6, <1>7, <2>2
  <2>3. CASE j > m + 1
    <3>1. (c \o b)[j] = b[j - (m + 1)] /\ j - (m + 1) \in 1 .. n - m
      BY <1>1, <1>6, <1>7, <2>3
    <3>2. m + (j - (m + 1)) = j - 1
      BY <1>1, <1>7
    <3> QED BY <1>1, <1>3, <1>7, <2>3, <3>1, <3>2
  <2>4. j \in Int /\ m \in Int
    BY <1>1, <1>7
  <2>5. j <= m \/ j = m + 1 \/ j > m + 1
    BY <2>4
  <2> QED BY <2>1, <2>2, <2>3, <2>4, <2>5
<1>8. DOMAIN (c \o b) = 1 .. n + 1
  BY <1>6, LenProperties
<1>9. n = Len(s)
  BY DEF n
<1> DEFINE u == c \o b
<1>10. InsertAt(s, 1 + m, e) = u
  BY <1>5
<1>11. /\ u \in Seq(S) /\ DOMAIN u = 1 .. Len(s) + 1 /\ Len(s) \in Nat /\ DOMAIN s = 1 .. Len(s)
       /\ \A j \in DOMAIN u : u[j] = IF j <= m THEN s[j] ELSE IF j = m + 1 THEN e ELSE s[j - 1]
  BY <1>1, <1>6, <1>7, <1>8, <1>9
<1> HIDE DEF u
<1> QED BY <1>10, <1>11, Zenon

(* A timer is taken out, by ngx_del_timer or because it has expired.        *)
LEMMA RemoveSound ==
    ASSUME NEW t, NEW time, NEW low, Sound(t, time, low), NEW k \in DOMAIN t.tree,
           NEW e, e = t.tree[k].ev,
           NEW u, u = [tree |-> RemoveAt(t.tree, k), set |-> t.set \ {e}, left |-> Without(t.left, e)]
    PROVE  Sound(u, time, low)
<1> DEFINE n == Len(t.tree)
           from(j) == IF j < k THEN j ELSE j + 1
<1>1. /\ t.tree \in Seq(Nodes) /\ t.set \subseteq Events /\ t.left \in [t.set -> Int]
      /\ InOrder(t, time) /\ OneEach(t) /\ Near(t, time, low)
  BY DEF Sound, Typed
<1>2. /\ u.tree \in Seq(Nodes) /\ DOMAIN u.tree = 1 .. n - 1 /\ n \in Nat /\ DOMAIN t.tree = 1 .. n
      /\ \A j \in DOMAIN u.tree : u.tree[j] = IF j < k THEN t.tree[j] ELSE t.tree[j + 1]
  <2>1. u.tree = RemoveAt(t.tree, k)
    OBVIOUS
  <2> QED BY <1>1, <2>1, RemovedFrom
<1>3. u.set = t.set \ {e} /\ u.left = [x \in u.set |-> t.left[x]]
      /\ u = [tree |-> u.tree, set |-> u.set, left |-> u.left]
  BY <1>1 DEF Without
<1> HIDE DEF n
<1>4. ASSUME NEW j \in DOMAIN u.tree
      PROVE  from(j) \in DOMAIN t.tree /\ from(j) # k /\ u.tree[j] = t.tree[from(j)]
  BY <1>2, <1>4
<1>5. \A i, j \in DOMAIN u.tree : (i < j <=> from(i) < from(j)) /\ (from(i) = from(j) => i = j)
  BY <1>2
<1>6. ASSUME NEW j \in DOMAIN t.tree, j # k
      PROVE  \E i \in DOMAIN u.tree : from(i) = j
  <2>1. CASE j < k
    BY <1>2, <1>6, <2>1
  <2>2. CASE j > k
    <3>1. j - 1 \in DOMAIN u.tree /\ from(j - 1) = j
      BY <1>2, <1>6, <2>2
    <3> QED BY <3>1
  <2> QED BY <1>2, <1>6, <2>1, <2>2
<1> HIDE DEF from
<1>7. Typed(u)
  BY <1>1, <1>2, <1>3 DEF Typed
<1>8. InOrder(u, time)
  BY <1>1, <1>4, <1>5 DEF InOrder
<1>9. OneEach(u)
  <2>1. \A i, j \in DOMAIN u.tree : u.tree[i].ev = u.tree[j].ev => i = j
    BY <1>1, <1>4, <1>5 DEF OneEach
  <2>2. ASSUME NEW x \in u.set PROVE \E i \in DOMAIN u.tree : u.tree[i].ev = x
    <3>1. PICK j \in DOMAIN t.tree : t.tree[j].ev = x
      BY <1>1, <1>3, <2>2 DEF OneEach
    <3>2. j # k
      BY <1>3, <2>2, <3>1
    <3> QED BY <1>4, <1>6, <3>1, <3>2
  <2>3. \A j \in DOMAIN u.tree : u.tree[j].ev \in u.set
    BY <1>1, <1>3, <1>4 DEF OneEach
  <2> QED BY <2>1, <2>2, <2>3 DEF OneEach
<1>10. Near(u, time, low)
  <2>1. \A j \in DOMAIN u.tree : u.tree[j].ev \in u.set
    BY <1>9 DEF OneEach
  <2> QED BY <1>1, <1>3, <1>4, <2>1 DEF Near
<1> QED BY <1>7, <1>8, <1>9, <1>10 DEF Sound

(* An event whose timer is set has a node.                                  *)
LEMMA NodeIs ==
    ASSUME NEW t, OneEach(t), NEW e \in t.set
    PROVE  NodeOf(t, e) \in DOMAIN t.tree /\ t.tree[NodeOf(t, e)].ev = e
BY DEF OneEach, NodeOf

(* ngx_del_timer of a timer that is set.                                    *)
LEMMA DelSound ==
    ASSUME NEW t, NEW time, NEW low, Sound(t, time, low), NEW e \in t.set
    PROVE  /\ Sound(ngx_event_del_timer(t, e), time, low)
           /\ ngx_event_del_timer(t, e).set = t.set \ {e}
<1>1. NodeOf(t, e) \in DOMAIN t.tree /\ e = t.tree[NodeOf(t, e)].ev
  BY NodeIs DEF Sound
<1>2. Sound(ngx_event_del_timer(t, e), time, low)
  BY <1>1, RemoveSound DEF ngx_event_del_timer
<1> QED BY <1>2 DEF ngx_event_del_timer

(* The first timer, which has expired, is taken out.                        *)
LEMMA FirstSound ==
    ASSUME NEW t, NEW time, NEW low, Sound(t, time, low), t.tree # <<>>,
           NEW e, e = t.tree[1].ev,
           NEW u, u = [tree |-> Tail(t.tree), set |-> t.set \ {e}, left |-> Without(t.left, e)]
    PROVE  Sound(u, time, low)
<1>1. t.tree \in Seq(Nodes)
  BY DEF Sound, Typed
<1>2. Len(t.tree) \in Nat /\ 1 \in DOMAIN t.tree /\ DOMAIN t.tree = 1 .. Len(t.tree)
  BY <1>1, EmptySeq, LenProperties
<1>3. RemoveAt(t.tree, 1) = Tail(t.tree)
  <2> DEFINE v == RemoveAt(t.tree, 1)
             w == Tail(t.tree)
  <2>1. /\ v \in Seq(Nodes) /\ DOMAIN v = 1 .. Len(t.tree) - 1
        /\ \A j \in DOMAIN v : v[j] = IF j < 1 THEN t.tree[j] ELSE t.tree[j + 1]
    BY <1>1, <1>2, RemovedFrom
  <2>2. /\ w \in Seq(Nodes) /\ DOMAIN w = 1 .. Len(t.tree) - 1
        /\ \A j \in DOMAIN w : w[j] = t.tree[j + 1]
    BY <1>1, <1>2, HeadTailProperties, LenProperties
  <2> HIDE DEF v, w
  <2>3. \A j \in DOMAIN v : v[j] = w[j]
    BY <1>2, <2>1, <2>2
  <2>4. v = w
    BY <2>1, <2>2, <2>3, SeqEqual, LenProperties
  <2> QED BY <2>4 DEF v, w
<1> QED BY <1>2, <1>3, RemoveSound

Lows == -MaxLag .. 0

(* Where ngx_rbtree_insert_timer_value puts a timer: after those that are   *)
(* due no later than it.                                                    *)
LEMMA Place ==
    ASSUME NEW time \in 0 .. Msecs - 1, NEW low \in Lows, NEW t, Sound(t, time, low),
           NEW d \in 0 .. MaxDelay, NEW key \in 0 .. Msecs - 1, Signed(key - time) = d
    PROVE  \E m \in 0 .. Len(t.tree) :
             /\ Cardinality({k \in DOMAIN t.tree : ~Before(key, t.tree[k].key)}) = m
             /\ \A k \in DOMAIN t.tree : k <= m <=> Ahead(t.tree[k], time) <= d
<1> DEFINE n == Len(t.tree)
           P == {k \in DOMAIN t.tree : ~Before(key, t.tree[k].key)}
           Q == {k \in 1 .. n : Ahead(t.tree[k], time) > d}
<1>1. /\ t.tree \in Seq(Nodes) /\ DOMAIN t.tree = 1 .. n /\ n \in Nat
      /\ InOrder(t, time) /\ Near(t, time, low)
  BY LenProperties DEF Sound, Typed
<1>2. /\ low \in Int /\ -MaxLag <= low /\ low <= 0 /\ d \in Int /\ 0 <= d /\ d <= MaxDelay
      /\ MaxDelay \in Nat /\ MaxLag \in Nat /\ Half \in Nat /\ MaxDelay + MaxLag < Half
  BY Spread DEF Lows
<1>3. ASSUME NEW k \in DOMAIN t.tree
      PROVE  /\ Ahead(t.tree[k], time) \in Int
             /\ Before(key, t.tree[k].key) <=> Ahead(t.tree[k], time) > d
  <2> DEFINE a == Ahead(t.tree[k], time)
  <2>1. a \in Int /\ low <= a /\ a <= MaxDelay
    BY <1>1, <1>2 DEF Near
  <2>2. d - a \in 1 - Half .. Half - 1
    <3> HIDE DEF a
    <3> QED BY <1>2, <2>1
  <2>3. t.tree[k].key \in 0 .. Msecs - 1
    <3>1. t.tree[k] \in Nodes
      BY <1>1, <1>3
    <3> QED BY <3>1 DEF Nodes
  <2>4. a = Signed(t.tree[k].key - time)
    BY DEF Ahead
  <2> HIDE DEF a
  <2>5. Signed(key - t.tree[k].key) = d - a
    BY <2>2, <2>3, <2>4, Difference
  <2>6. Before(key, t.tree[k].key) <=> a > d
    BY <1>2, <2>1, <2>5 DEF Before
  <2> QED BY <2>1, <2>6 DEF a
<1>4. \E m \in 0 .. n : \A k \in 1 .. n : k <= m <=> Ahead(t.tree[k], time) <= d
  <2>1. CASE Q = {}
    <3>1. \A k \in 1 .. n : k <= n /\ Ahead(t.tree[k], time) <= d
      BY <1>1, <1>2, <1>3, <2>1
    <3>2. n \in 0 .. n
      BY <1>1
    <3> QED BY <3>1, <3>2
  <2>2. CASE Q # {}
    <3>1. Q \in SUBSET Nat
      BY <1>1
    <3>2. PICK q \in Q : \A k \in Q : q <= k
      <4> HIDE DEF Q
      <4> QED BY <2>2, <3>1, SmallestNumber
    <3>3. q \in 1 .. n /\ q - 1 \in 0 .. n /\ q \in Int /\ Ahead(t.tree[q], time) > d
      BY <1>1
    <3>4. ASSUME NEW k \in 1 .. n PROVE k <= q - 1 <=> Ahead(t.tree[k], time) <= d
      <4>1. Ahead(t.tree[k], time) \in Int /\ Ahead(t.tree[q], time) \in Int /\ k \in Int
        BY <1>1, <1>3, <3>3
      <4>2. CASE k < q
        <5>1. k \notin Q
          <6> HIDE DEF Q
          <6> QED BY <3>2, <3>3, <4>1, <4>2
        <5> QED BY <1>2, <3>3, <4>1, <4>2, <5>1
      <4>3. CASE k = q
        BY <1>2, <3>3, <4>1, <4>3
      <4>4. CASE k > q
        <5>1. Ahead(t.tree[q], time) <= Ahead(t.tree[k], time)
          BY <1>1, <3>3, <4>4 DEF InOrder
        <5> QED BY <1>2, <3>3, <4>1, <4>4, <5>1
      <4> QED BY <3>3, <4>1, <4>2, <4>3, <4>4
    <3> QED BY <3>3, <3>4
  <2> QED BY <2>1, <2>2
<1>5. PICK m \in 0 .. n : \A k \in 1 .. n : k <= m <=> Ahead(t.tree[k], time) <= d
  BY <1>4
<1>6. P = 1 .. m
  <2>1. \A k \in 1 .. n : ~Before(key, t.tree[k].key) <=> k <= m
    BY <1>1, <1>2, <1>3, <1>5
  <2> QED BY <1>1, <2>1
<1>7. Cardinality(1 .. m) = m
  <2>1. 1 \in Int /\ m \in Int /\ (1 > m => m = 0) /\ (m - 1) + 1 = m
    BY <1>1
  <2> QED BY <2>1, FS_Interval
<1> QED BY <1>1, <1>5, <1>6, <1>7

(* ngx_rbtree_insert of a timer that is not set.                            *)
LEMMA PutSound ==
    ASSUME NEW time \in 0 .. Msecs - 1, NEW low \in Lows, NEW t, Sound(t, time, low),
           NEW d \in 0 .. MaxDelay, NEW e \in Events \ t.set
    PROVE  LET u == Put(t, e, (time + d) % Msecs, d) IN
           Sound(u, time, low) /\ u.set = t.set \cup {e}
<1> DEFINE key == (time + d) % Msecs
           x == [ev |-> e, key |-> key]
           u == Put(t, e, key, d)
           n == Len(t.tree)
<1>1. /\ t.tree \in Seq(Nodes) /\ t.set \subseteq Events /\ t.left \in [t.set -> Int]
      /\ InOrder(t, time) /\ OneEach(t) /\ Near(t, time, low)
  BY DEF Sound, Typed
<1>2. /\ low \in Int /\ -MaxLag <= low /\ low <= 0 /\ d \in Int /\ 0 <= d /\ d <= MaxDelay
      /\ MaxDelay \in Nat /\ MaxLag \in Nat /\ Half \in Nat /\ MaxDelay + MaxLag < Half
      /\ LazyDelay \in Nat \ {0}
  BY Spread DEF Lows
<1>3. key \in 0 .. Msecs - 1 /\ Signed(key - time) = d
  <2>1. d \in Nat /\ d < Half
    BY <1>2
  <2> QED BY <2>1, NewKey
<1> HIDE DEF key
<1>4. x \in Nodes /\ x.ev = e /\ x.key = key /\ Ahead(x, time) = d
  BY <1>3 DEF Nodes, Ahead
<1>5. PICK m \in 0 .. n :
             /\ Cardinality({k \in DOMAIN t.tree : ~Before(key, t.tree[k].key)}) = m
             /\ \A k \in DOMAIN t.tree : k <= m <=> Ahead(t.tree[k], time) <= d
  BY <1>3, Place
<1>6. u.tree = InsertAt(t.tree, 1 + m, x)
  BY <1>5 DEF Put, ngx_rbtree_insert
<1>7. /\ u.set = t.set \cup {e} /\ u = [tree |-> u.tree, set |-> u.set, left |-> u.left]
      /\ u.left = [y \in u.set |-> IF y = e THEN d ELSE t.left[y]]
  BY <1>1 DEF Put
<1> HIDE DEF u, x
<1>8. /\ u.tree \in Seq(Nodes) /\ DOMAIN u.tree = 1 .. n + 1 /\ n \in Nat /\ DOMAIN t.tree = 1 .. n
      /\ \A j \in DOMAIN u.tree :
             u.tree[j] = IF j <= m THEN t.tree[j] ELSE IF j = m + 1 THEN x ELSE t.tree[j - 1]
  <2> DEFINE v == InsertAt(t.tree, 1 + m, x)
  <2>1. /\ v \in Seq(Nodes) /\ DOMAIN v = 1 .. n + 1 /\ n \in Nat /\ DOMAIN t.tree = 1 .. n
        /\ \A j \in DOMAIN v :
               v[j] = IF j <= m THEN t.tree[j] ELSE IF j = m + 1 THEN x ELSE t.tree[j - 1]
    BY <1>1, <1>4, InsertedInto
  <2> HIDE DEF v, n
  <2>2. u.tree = v
    BY <1>6 DEF v
  <2> QED BY <2>1, <2>2
<1> DEFINE from(j) == IF j <= m THEN j ELSE j - 1
<1> HIDE DEF n
<1>9. u.tree[m + 1] = x /\ m + 1 \in DOMAIN u.tree /\ m \in Int
  BY <1>8
<1>10. ASSUME NEW j \in DOMAIN u.tree, j # m + 1
       PROVE  from(j) \in DOMAIN t.tree /\ u.tree[j] = t.tree[from(j)]
  BY <1>8, <1>10
<1>11. \A i, j \in DOMAIN u.tree : i # m + 1 /\ j # m + 1 =>
           (i < j <=> from(i) < from(j)) /\ (from(i) = from(j) => i = j)
  BY <1>8
<1>12. \A j \in DOMAIN u.tree : j # m + 1 => (j < m + 1 => from(j) <= m) /\ (j > m + 1 => ~(from(j) <= m))
  BY <1>8
<1>13. ASSUME NEW j \in DOMAIN t.tree PROVE \E i \in DOMAIN u.tree : i # m + 1 /\ from(i) = j
  <2>1. CASE j <= m
    BY <1>8, <1>13, <2>1
  <2>2. CASE j > m
    <3>1. j + 1 \in DOMAIN u.tree /\ j + 1 # m + 1 /\ from(j + 1) = j
      BY <1>8, <1>13, <2>2
    <3> QED BY <3>1
  <2> QED BY <1>8, <1>13, <2>1, <2>2
<1> HIDE DEF from
<1>14. Typed(u)
  BY <1>1, <1>2, <1>7, <1>8 DEF Typed
<1>15. \A k \in DOMAIN t.tree : Ahead(t.tree[k], time) \in Int
  BY <1>1, <1>2 DEF Near
<1>16. InOrder(u, time)
  <2> SUFFICES ASSUME NEW i \in DOMAIN u.tree, NEW j \in DOMAIN u.tree, i < j
               PROVE  Ahead(u.tree[i], time) <= Ahead(u.tree[j], time)
    BY DEF InOrder
  <2>1. CASE i = m + 1
    <3>1. j # m + 1 /\ j > m + 1
      BY <1>8, <2>1
    <3>2. ~(Ahead(t.tree[from(j)], time) <= d)
      BY <1>5, <1>10, <1>12, <3>1
    <3> QED BY <1>2, <1>4, <1>9, <1>10, <1>15, <2>1, <3>1, <3>2
  <2>2. CASE j = m + 1
    <3>1. i # m + 1 /\ i < m + 1
      BY <1>8, <2>2
    <3> QED BY <1>4, <1>5, <1>9, <1>10, <1>12, <2>2, <3>1
  <2>3. CASE i # m + 1 /\ j # m + 1
    BY <1>1, <1>10, <1>11, <2>3 DEF InOrder
  <2> QED BY <2>1, <2>2, <2>3
<1>17. OneEach(u)
  <2>1. \A j \in DOMAIN u.tree : j # m + 1 => u.tree[j].ev \in t.set /\ u.tree[j].ev # e
    BY <1>1, <1>10 DEF OneEach
  <2>2. \A i, j \in DOMAIN u.tree : u.tree[i].ev = u.tree[j].ev => i = j
    BY <1>1, <1>4, <1>9, <1>10, <1>11, <2>1 DEF OneEach
  <2>3. ASSUME NEW y \in u.set PROVE \E i \in DOMAIN u.tree : u.tree[i].ev = y
    <3>1. CASE y = e
      BY <1>4, <1>9, <3>1
    <3>2. CASE y # e
      <4>1. PICK j \in DOMAIN t.tree : t.tree[j].ev = y
        BY <1>1, <1>7, <2>3, <3>2 DEF OneEach
      <4> QED BY <1>10, <1>13, <4>1
    <3> QED BY <3>1, <3>2
  <2>4. \A j \in DOMAIN u.tree : u.tree[j].ev \in u.set
    BY <1>4, <1>7, <1>9, <2>1
  <2> QED BY <2>2, <2>3, <2>4 DEF OneEach
<1>18. Near(u, time, low)
  <2> SUFFICES ASSUME NEW j \in DOMAIN u.tree
               PROVE  /\ Ahead(u.tree[j], time) \in low .. MaxDelay
                      /\ Ahead(u.tree[j], time) - u.left[u.tree[j].ev] \in 1 - LazyDelay .. LazyDelay - 1
    BY DEF Near
  <2>1. CASE j = m + 1
    <3>1. Ahead(u.tree[j], time) = d /\ u.left[u.tree[j].ev] = d
      BY <1>4, <1>7, <1>9, <2>1
    <3> QED BY <1>2, <3>1
  <2>2. CASE j # m + 1
    <3>1. u.tree[j] = t.tree[from(j)] /\ from(j) \in DOMAIN t.tree
      BY <1>10, <2>2
    <3>2. u.left[u.tree[j].ev] = t.left[t.tree[from(j)].ev]
      <4>1. t.tree[from(j)].ev \in t.set /\ t.tree[from(j)].ev # e
        BY <1>1, <3>1 DEF OneEach
      <4> QED BY <1>7, <3>1, <4>1
    <3> QED BY <1>1, <3>1, <3>2 DEF Near
  <2> QED BY <2>1, <2>2
<1>19. Sound(u, time, low)
  BY <1>14, <1>16, <1>17, <1>18 DEF Sound
<1> QED BY <1>7, <1>19, Zenon DEF u, key

(* ngx_add_timer, lazily or not.                                            *)
LEMMA AddSound ==
    ASSUME NEW time \in 0 .. Msecs - 1, NEW low \in Lows, NEW t, Sound(t, time, low),
           NEW d \in 0 .. MaxDelay, NEW e \in Events
    PROVE  LET u == ngx_event_add_timer(t, e, time, d) IN
           Sound(u, time, low) /\ u.set = t.set \cup {e}
<1> DEFINE key == (time + d) % Msecs
           u == ngx_event_add_timer(t, e, time, d)
           k == NodeOf(t, e)
<1>1. CASE e \notin t.set
  <2>1. u = Put(t, e, key, d)
    BY <1>1 DEF ngx_event_add_timer, del
  <2> QED BY <1>1, <2>1, PutSound
<1>2. CASE e \in t.set /\ ~Lazily(t.tree[k].key, key)
  <2> DEFINE v == ngx_event_del_timer(t, e)
  <2>1. u = Put(v, e, key, d)
    BY <1>2 DEF ngx_event_add_timer, del
  <2>2. Sound(v, time, low) /\ v.set = t.set \ {e}
    BY <1>2, DelSound
  <2> HIDE DEF v, u, key
  <2>3. e \in Events \ v.set
    BY <2>2
  <2>4. Sound(Put(v, e, key, d), time, low) /\ Put(v, e, key, d).set = v.set \cup {e}
    BY <2>2, <2>3, PutSound DEF key
  <2>5. v.set \cup {e} = t.set \cup {e}
    BY <1>2, <2>2
  <2> QED BY <2>1, <2>4, <2>5 DEF u
<1>3. CASE e \in t.set /\ Lazily(t.tree[k].key, key)
  <2>1. /\ t.tree \in Seq(Nodes) /\ t.set \subseteq Events /\ t.left \in [t.set -> Int]
        /\ t = [tree |-> t.tree, set |-> t.set, left |-> t.left]
        /\ InOrder(t, time) /\ OneEach(t) /\ Near(t, time, low)
    BY DEF Sound, Typed
  <2>2. u = [t EXCEPT !.left[e] = d]
    BY <1>3 DEF ngx_event_add_timer
  <2> DEFINE l == [t.left EXCEPT ![e] = d]
  <2>3. u.tree = t.tree /\ u.set = t.set /\ u.left = l /\ u = [tree |-> u.tree, set |-> u.set, left |-> u.left]
    <3> HIDE DEF u
    <3> QED BY <2>1, <2>2
  <2>4. /\ low \in Int /\ -MaxLag <= low /\ low <= 0 /\ d \in Int /\ 0 <= d /\ d <= MaxDelay
        /\ MaxDelay \in Nat /\ MaxLag \in Nat /\ Half \in Nat /\ MaxDelay + MaxLag < Half
        /\ LazyDelay \in Nat \ {0}
    BY Spread DEF Lows
  <2>5. k \in DOMAIN t.tree /\ t.tree[k].ev = e
    BY <1>3, <2>1, NodeIs
  <2> HIDE DEF u, k, key
  <2>6. key \in 0 .. Msecs - 1 /\ Signed(key - time) = d
    <3>1. d \in Nat /\ d < Half
      BY <2>4
    <3> QED BY <3>1, NewKey DEF key
  <2>7. PICK a : a = Ahead(t.tree[k], time)
    OBVIOUS
  <2>8. a \in Int /\ low <= a /\ a <= MaxDelay
    BY <2>1, <2>4, <2>5, <2>7 DEF Near
  <2>9. Signed(key - t.tree[k].key) = d - a
    <3>1. d - a \in 1 - Half .. Half - 1
      BY <2>4, <2>8
    <3>2. t.tree[k] \in Nodes
      BY <2>1, <2>5
    <3>3. t.tree[k].key \in 0 .. Msecs - 1
      BY <3>2 DEF Nodes
    <3>4. a = Signed(t.tree[k].key - time)
      BY <2>7 DEF Ahead
    <3> QED BY <2>6, <3>1, <3>3, <3>4, Difference
  <2>10. a - d \in 1 - LazyDelay .. LazyDelay - 1
    <3>1. d - a \in 1 - LazyDelay .. LazyDelay - 1
      BY <1>3, <2>9 DEF Lazily
    <3> QED BY <2>4, <2>8, <3>1
  <2>11. l \in [t.set -> Int] /\ l[e] = d /\ \A x \in t.set \ {e} : l[x] = t.left[x]
    BY <1>3, <2>1
  <2> HIDE DEF l
  <2>12. Typed(u)
    BY <2>1, <2>3, <2>11 DEF Typed
  <2>13. InOrder(u, time) /\ OneEach(u)
    BY <2>1, <2>3 DEF InOrder, OneEach
  <2>14. Near(u, time, low)
    <3> SUFFICES ASSUME NEW j \in DOMAIN t.tree
                 PROVE  /\ Ahead(t.tree[j], time) \in low .. MaxDelay
                        /\ Ahead(t.tree[j], time) - l[t.tree[j].ev] \in 1 - LazyDelay .. LazyDelay - 1
      BY <2>3 DEF Near
    <3>1. CASE j = k
      BY <2>1, <2>5, <2>7, <2>10, <2>11, <3>1 DEF Near
    <3>2. CASE j # k
      <4>1. t.tree[j].ev \in t.set \ {e}
        BY <2>1, <2>5, <3>2 DEF OneEach
      <4> QED BY <2>1, <2>11, <4>1 DEF Near
    <3> QED BY <3>1, <3>2
  <2>15. u.set = t.set \cup {e}
    BY <1>3, <2>3
  <2>16. Sound(u, time, low)
    BY <2>12, <2>13, <2>14 DEF Sound
  <2> QED BY <2>15, <2>16 DEF u
<1> QED BY <1>1, <1>2, <1>3

(* Connections are closed one after the other.                              *)
Closing(t, s, T) == IF T = {} THEN t ELSE ngx_event_del_timer(s[T \ {Some(T)}], Some(T))
IsClosing(t, S, s) == s = [T \in SUBSET S |-> Closing(t, s, T)]

(* Closing connections as a function of the sets of those closed so far.    *)
LEMMA CloseChosen ==
    ASSUME NEW t, NEW S
    PROVE  LET W == S \cap t.set IN CloseAll(t, S) = (CHOOSE s : IsClosing(t, W, s))[W]
BY DEF CloseAll, FoldSet, MapThenFoldSet, IsClosing, Closing, Some

(* That function exists, for any number of connections.                     *)
LEMMA CloseExists ==
    ASSUME NEW S, IsFiniteSet(S), NEW old
    PROVE  \E s : IsClosing(old, S, s)
<1> DEFINE Level(n) == {T \in SUBSET S : Cardinality(T) <= n}
           UpTo(n, s) == s = [T \in Level(n) |-> Closing(old, s, T)]
           Bad == {n \in Nat : ~\E s : UpTo(n, s)}
<1>1. \A T \in SUBSET S : IsFiniteSet(T) /\ Cardinality(T) \in Nat
                          /\ Cardinality(T) <= Cardinality(S)
  BY FS_Subset, FS_CardinalityType
<1>2. Cardinality(S) \in Nat /\ Level(Cardinality(S)) = SUBSET S
  BY <1>1, FS_CardinalityType
<1>3. UpTo(0, [T \in Level(0) |-> old])
  <2>1. ASSUME NEW T \in Level(0) PROVE T = {}
    <3>1. IsFiniteSet(T) /\ Cardinality(T) = 0
      BY <1>1, <2>1
    <3> QED BY <3>1, FS_EmptySet
  <2>2. [T \in Level(0) |-> old]
          = [T \in Level(0) |-> Closing(old, [U \in Level(0) |-> old], T)]
    <3> HIDE DEF Level
    <3> QED BY <2>1 DEF Closing
  <2> QED BY <2>2
<1>4. ASSUME NEW n \in Nat, NEW s, UpTo(n, s) PROVE \E t : UpTo(n + 1, t)
  <2> DEFINE t == [T \in Level(n + 1) |-> Closing(old, s, T)]
  <2>1. ASSUME NEW T \in Level(n) PROVE T \in Level(n + 1) /\ t[T] = s[T]
    <3>1. T \in Level(n + 1)
      BY <1>1
    <3>2. s[T] = Closing(old, s, T)
      <4> HIDE DEF Level
      <4> QED BY <1>4
    <3>3. t[T] = Closing(old, s, T)
      <4> HIDE DEF Level
      <4> QED BY <3>1
    <3> QED BY <3>1, <3>2, <3>3
  <2>2. ASSUME NEW T \in Level(n + 1), T # {} PROVE T \ {Some(T)} \in Level(n)
    BY <1>1, <2>2, SomeIn, FS_RemoveElement
  <2> HIDE DEF Level
  <2>3. ASSUME NEW T \in Level(n + 1) PROVE Closing(old, s, T) = Closing(old, t, T)
    <3>1. CASE T = {}
      BY <3>1 DEF Closing
    <3>2. CASE T # {}
      <4>1. t[T \ {Some(T)}] = s[T \ {Some(T)}]
        BY <2>1, <2>2, <3>2
      <4> HIDE DEF t
      <4> QED BY <4>1 DEF Closing
    <3> QED BY <3>1, <3>2
  <2>4. UpTo(n + 1, t)
    <3>1. \A T \in Level(n + 1) : Closing(old, s, T) = Closing(old, t, T)
      BY <2>3
    <3>2. t = [T \in Level(n + 1) |-> Closing(old, t, T)]
      BY <3>1
    <3> QED BY <3>2
  <2> QED BY <2>4
<1>5. ASSUME Bad # {} PROVE FALSE
  <2>1. PICK m \in Bad : \A k \in Bad : m <= k
    <3>1. Bad \in SUBSET Nat
      OBVIOUS
    <3> HIDE DEF Bad
    <3> QED BY <1>5, <3>1, SmallestNumber
  <2>2. m # 0
    <3> HIDE DEF UpTo
    <3> QED BY <1>3
  <2>3. m - 1 \in Nat /\ m - 1 \notin Bad
    <3>1. m \in Nat
      OBVIOUS
    <3>2. m - 1 \in Nat /\ ~(m <= m - 1)
      BY <2>2, <3>1
    <3> HIDE DEF Bad
    <3> QED BY <2>1, <3>2
  <2>4. PICK s : UpTo(m - 1, s)
    <3> HIDE DEF UpTo
    <3> QED BY <2>3
  <2>5. \E t : UpTo(m - 1 + 1, t)
    <3> HIDE DEF UpTo
    <3> QED BY <1>4, <2>3, <2>4
  <2>6. m - 1 + 1 = m
    OBVIOUS
  <2>7. \E t : UpTo(m, t)
    <3> HIDE DEF UpTo
    <3> QED BY <2>5, <2>6
  <2> HIDE DEF UpTo
  <2> QED BY <2>7
<1>6. PICK s : UpTo(Cardinality(S), s)
  <2> HIDE DEF UpTo
  <2> QED BY <1>2, <1>5
<1> QED BY <1>2, <1>6 DEF IsClosing

(* However many connections are closed, the others keep their timers.       *)
LEMMA CloseSound ==
    ASSUME NEW t, NEW time, NEW low, Sound(t, time, low), NEW S \in SUBSET Conns
    PROVE  LET u == CloseAll(t, S) IN Sound(u, time, low) /\ u.set = t.set \ S
<1> DEFINE W == S \cap t.set
           s == CHOOSE f : IsClosing(t, W, f)
           Good(T) == Sound(s[T], time, low) /\ s[T].set = t.set \ T
           Bad == {T \in SUBSET W : ~Good(T)}
<1>1. IsFiniteSet(W)
  BY TimersAssumption, FS_Subset
<1>2. IsClosing(t, W, s)
  BY <1>1, CloseExists
<1>3. CloseAll(t, S) = s[W]
  BY CloseChosen
<1> HIDE DEF s
<1>4. ASSUME Bad # {} PROVE FALSE
  <2>1. PICK T \in Bad : \A x \in T : T \ {x} \notin Bad
    <3>1. Bad \in SUBSET (SUBSET W)
      OBVIOUS
    <3> HIDE DEF Bad
    <3> QED BY <1>1, <1>4, <3>1, SmallestBad
  <2>2. T \in SUBSET W /\ s[T] = Closing(t, s, T)
    BY <1>2 DEF IsClosing
  <2>3. CASE T = {}
    BY <2>2, <2>3 DEF Closing
  <2>4. CASE T # {}
    <3>1. PICK x \in T : x = Some(T)
      BY <2>4, SomeIn
    <3>2. Good(T \ {x})
      BY <2>1, <2>2, <3>1
    <3>3. s[T] = ngx_event_del_timer(s[T \ {x}], x)
      BY <2>2, <2>4, <3>1 DEF Closing
    <3>4. x \in s[T \ {x}].set
      BY <2>2, <3>1, <3>2
    <3>5. Sound(s[T], time, low) /\ s[T].set = (t.set \ (T \ {x})) \ {x}
      <4>1. PICK v : v = s[T \ {x}]
        OBVIOUS
      <4>2. Sound(v, time, low) /\ v.set = t.set \ (T \ {x}) /\ x \in v.set
        BY <3>2, <3>4, <4>1
      <4>3. Sound(ngx_event_del_timer(v, x), time, low) /\ ngx_event_del_timer(v, x).set = v.set \ {x}
        BY <4>2, DelSound
      <4> QED BY <3>3, <4>1, <4>2, <4>3
    <3>6. Good(T)
      BY <3>1, <3>5
    <3> QED BY <2>1, <3>6
  <2> QED BY <2>3, <2>4
<1>5. Good(W)
  BY <1>4
<1>6. t.set \ W = t.set \ S
  OBVIOUS
<1> QED BY <1>3, <1>5, <1>6

(* Time goes on.                                                            *)
LEMMA OffSound ==
    ASSUME NEW time \in 0 .. Msecs - 1, NEW low, NEW t, Sound(t, time, low),
           NEW d \in Nat, d <= MaxDelay + MaxLag, NEW then \in Lows,
           \A k \in DOMAIN t.tree : Ahead(t.tree[k], time) - d >= then,
           NEW u, u = Off(t, d)
    PROVE  /\ (time + d) % Msecs \in 0 .. Msecs - 1
           /\ Sound(u, (time + d) % Msecs, then) /\ u.set = t.set
<1> DEFINE later == (time + d) % Msecs
<1>1. /\ t.tree \in Seq(Nodes) /\ t.set \subseteq Events /\ t.left \in [t.set -> Int]
      /\ t = [tree |-> t.tree, set |-> t.set, left |-> t.left]
      /\ InOrder(t, time) /\ OneEach(t) /\ Near(t, time, low)
  BY DEF Sound, Typed
<1>2. /\ MaxDelay \in Nat /\ MaxLag \in Nat /\ Half \in Nat /\ MaxDelay + MaxLag < Half /\ d < Half
      /\ then \in Int /\ -MaxLag <= then /\ LazyDelay \in Nat \ {0}
  BY Spread DEF Lows
<1>3. later \in 0 .. Msecs - 1
  BY <1>2, NewKey
<1>4. ASSUME NEW k \in DOMAIN t.tree
      PROVE  Ahead(t.tree[k], later) = Ahead(t.tree[k], time) - d /\ Ahead(t.tree[k], time) \in Int
  <2>1. t.tree[k] \in Nodes
    BY <1>1
  <2>2. t.tree[k].key \in 0 .. Msecs - 1
    BY <2>1 DEF Nodes
  <2>3. Ahead(t.tree[k], time) \in Int /\ Ahead(t.tree[k], time) - d >= then
    <3>1. -Msecs < t.tree[k].key - time /\ t.tree[k].key - time < Msecs /\ t.tree[k].key - time \in Int
      BY <2>2, Spread
    <3> QED BY <3>1, SignedIs DEF Ahead
  <2>4. Signed(t.tree[k].key - time) - d >= -Half
    BY <1>2, <2>3 DEF Ahead
  <2>5. Signed(t.tree[k].key - later) = Signed(t.tree[k].key - time) - d
    BY <1>2, <2>2, <2>4, Nearer
  <2> QED BY <2>3, <2>5 DEF Ahead
<1> HIDE DEF later
<1>5. /\ u.tree = t.tree /\ u.set = t.set /\ u = [tree |-> u.tree, set |-> u.set, left |-> u.left]
      /\ u.left = [e \in t.set |-> t.left[e] - d]
  BY <1>1 DEF Off
<1>6. Typed(u)
  BY <1>1, <1>5 DEF Typed
<1>7. OneEach(u)
  BY <1>1, <1>5 DEF OneEach
<1>8. InOrder(u, later)
  <2> SUFFICES ASSUME NEW j \in DOMAIN t.tree, NEW k \in DOMAIN t.tree, j < k
               PROVE  Ahead(t.tree[j], later) <= Ahead(t.tree[k], later)
    BY <1>5 DEF InOrder
  <2>1. Ahead(t.tree[j], time) <= Ahead(t.tree[k], time)
    BY <1>1 DEF InOrder
  <2> QED BY <1>4, <2>1
<1>9. Near(u, later, then)
  <2> SUFFICES ASSUME NEW k \in DOMAIN t.tree
               PROVE  /\ Ahead(t.tree[k], later) \in then .. MaxDelay
                      /\ Ahead(t.tree[k], later) - u.left[t.tree[k].ev] \in 1 - LazyDelay .. LazyDelay - 1
    BY <1>5 DEF Near
  <2>1. /\ Ahead(t.tree[k], time) <= MaxDelay
        /\ Ahead(t.tree[k], time) - t.left[t.tree[k].ev] \in 1 - LazyDelay .. LazyDelay - 1
    <3>1. Ahead(t.tree[k], time) \in low .. MaxDelay
      BY <1>1 DEF Near
    <3>2. Ahead(t.tree[k], time) - t.left[t.tree[k].ev] \in 1 - LazyDelay .. LazyDelay - 1
      BY <1>1 DEF Near
    <3>3. Ahead(t.tree[k], time) <= MaxDelay
      BY <3>1
    <3> QED BY <3>2, <3>3
  <2>2. Ahead(t.tree[k], later) = Ahead(t.tree[k], time) - d /\ Ahead(t.tree[k], time) \in Int
        /\ Ahead(t.tree[k], time) - d >= then
    BY <1>4
  <2>3. u.left[t.tree[k].ev] = t.left[t.tree[k].ev] - d /\ t.left[t.tree[k].ev] \in Int
    <3>1. t.tree[k].ev \in t.set
      BY <1>1 DEF OneEach
    <3> QED BY <1>1, <1>5, <3>1
  <2> QED BY <1>2, <2>1, <2>2, <2>3
<1>10. Sound(u, later, then)
  BY <1>6, <1>7, <1>8, <1>9 DEF Sound
<1> QED BY <1>3, <1>5, <1>10 DEF later

-----------------------------------------------------------------------------
(* The steps of the loops.                                                  *)

(* The bounds of how late a timer may be.                                   *)
LEMMA LowIs == 0 \in Lows /\ -MaxLag \in Lows /\ Low \in Lows
BY Spread DEF Lows, Low

(* What handlers do leaves the timers sound.                                *)
LEMMA HandlesSound ==
    ASSUME NEW t, now \in 0 .. Msecs - 1, NEW low \in Lows, Sound(t, now, low), Handles(t)
    PROVE  Sound(timers', now, low) /\ timers'.set \subseteq t.set \cup Conns
<1>1. CASE timers' = t
  BY <1>1
<1>2. ASSUME NEW c \in Conns, NEW d \in Delays, timers' = ngx_event_add_timer(t, c, now, d)
      PROVE  Sound(timers', now, low) /\ timers'.set \subseteq t.set \cup Conns
  <2>1. d \in 0 .. MaxDelay /\ c \in Events
    BY Spread DEF Events
  <2> QED BY <1>2, <2>1, AddSound
<1>3. ASSUME NEW c \in Conns \cap t.set, timers' = ngx_event_del_timer(t, c)
      PROVE  Sound(timers', now, low) /\ timers'.set \subseteq t.set \cup Conns
  BY <1>3, DelSound
<1> QED BY <1>1, <1>2, <1>3 DEF Handles

(* The events of connections are no others.                                 *)
LEMMA Apart == "manager" \notin Conns /\ "shutdown" \notin Conns /\ "resolver" \notin Conns
BY TimersAssumption

(* A worker begins with the timer of its resolver, if any, the cache        *)
(* manager with its own.                                                    *)
LEMMA TimersInvInit == TimersInit => TimersInv
<1> SUFFICES ASSUME TimersInit PROVE TimersInv
  OBVIOUS
<1>1. now \in 0 .. Msecs - 1 /\ now = 0 /\ Low = 0
  BY Spread DEF TimersInit, Low
<1>2. Sound(Empty, now, 0)
  BY DEF Sound, Typed, InOrder, OneEach, Near, Empty
<1>3. Empty.set = {}
  BY DEF Empty
<1>4. MaxDelay \in 0 .. MaxDelay /\ 0 \in 0 .. MaxDelay /\ "resolver" \in Events /\ "manager" \in Events
  BY Spread DEF Events, Cancelable
<1>5. CASE process = "worker" /\ at = "top"
           /\ timers \in {Empty, ngx_event_add_timer(Empty, "resolver", now, MaxDelay)}
  <2>1. Sound(timers, now, 0) /\ timers.set \subseteq {"resolver"}
    BY <1>1, <1>2, <1>3, <1>4, <1>5, LowIs, AddSound
  <2> QED BY <1>1, <1>5, <2>1 DEF TimersInv
<1>6. CASE process = "manager" /\ at = "flags"
           /\ timers = ngx_event_add_timer(Empty, "manager", now, 0)
  <2>1. Sound(timers, now, 0) /\ timers.set \subseteq {"manager"}
    BY <1>1, <1>2, <1>3, <1>4, <1>6, LowIs, AddSound
  <2> QED BY <1>1, <1>6, <2>1 DEF TimersInv
<1> QED BY <1>5, <1>6 DEF TimersInit

(* ngx_process_events_and_timers waits until the first timer is due, or     *)
(* MaxLag longer: none is more overdue than that.                           *)
LEMMA WaitStep ==
    ASSUME TimersInv, NEW d \in 0 .. MaxDelay + MaxLag, Wait(d)
    PROVE  TimersInv'
<1>1. /\ Sound(timers, now, 0) /\ now \in 0 .. Msecs - 1 /\ process \in {"worker", "manager"}
      /\ timers.tree \in Seq(Nodes) /\ InOrder(timers, now) /\ Near(timers, now, 0)
  <2>1. Low = 0
    BY DEF Wait, Low
  <2> QED BY <2>1 DEF TimersInv, Sound, Typed
<1>2. d \in Nat /\ d <= MaxDelay + MaxLag /\ MaxLag \in Nat /\ MaxDelay \in Nat
  BY Spread
<1> DEFINE then == IF d = 0 THEN 0 ELSE -MaxLag
<1>3. Low' = then /\ then \in Lows
  <2>1. at' = "events" /\ moved' = (d # 0)
    BY DEF Wait
  <2>2. then \in Lows
    BY LowIs
  <2>3. CASE d = 0
    <3>1. moved' = FALSE
      BY <2>1, <2>3
    <3> QED BY <2>1, <2>2, <2>3, <3>1 DEF Low
  <2>4. CASE d # 0
    <3>1. moved' = TRUE
      BY <2>1, <2>4
    <3> QED BY <2>1, <2>2, <2>4, <3>1 DEF Low
  <2> QED BY <2>3, <2>4
<1>4. ASSUME NEW k \in DOMAIN timers.tree PROVE Ahead(timers.tree[k], now) - d >= then
  <2>1. /\ Len(timers.tree) \in Nat /\ DOMAIN timers.tree = 1 .. Len(timers.tree)
        /\ 1 \in DOMAIN timers.tree /\ timers.tree # <<>> /\ k \in Int /\ 1 <= k
    BY <1>1, LenProperties
  <2>2. PICK a : a = Ahead(timers.tree[1], now)
    OBVIOUS
  <2>3. PICK b : b = Ahead(timers.tree[k], now)
    OBVIOUS
  <2>4. a \in 0 .. MaxDelay /\ b \in 0 .. MaxDelay
    BY <1>1, <2>1, <2>2, <2>3 DEF Near
  <2>5. a <= b
    BY <1>1, <2>1, <2>2, <2>3, <2>4 DEF InOrder
  <2>6. ngx_event_find_timer = a
    <3>1. ngx_event_find_timer = IF a > 0 THEN a ELSE 0
      BY <2>2 DEF ngx_event_find_timer, Ahead
    <3> QED BY <1>2, <2>4, <3>1
  <2>7. d <= a + MaxLag
    BY <2>1, <2>6 DEF Wait
  <2> QED BY <1>2, <2>3, <2>4, <2>5, <2>7
<1>5. timers' = Off(timers, d) /\ now' = (now + d) % Msecs /\ at' = "events" /\ UNCHANGED process
  BY DEF Wait
<1> HIDE DEF then
<1>6. now' \in 0 .. Msecs - 1 /\ Sound(timers', now', then) /\ timers'.set = timers.set
  BY <1>1, <1>2, <1>3, <1>4, <1>5, OffSound
<1> QED BY <1>1, <1>3, <1>5, <1>6 DEF TimersInv

(* ngx_event_expire_timers takes out one timer after the other, while       *)
(* handlers set and delete timers.                                          *)
LEMMA ExpireStep ==
    ASSUME TimersInv, ngx_event_expire_timers
    PROVE  TimersInv'
<1> DEFINE ev == timers.tree[1].ev
           t == [tree |-> Tail(timers.tree), set |-> timers.set \ {ev},
                 left |-> Without(timers.left, ev)]
<1>1. Low = -MaxLag /\ Low' = -MaxLag /\ -MaxLag \in Lows /\ at = "expire" /\ at' = "expire"
      /\ UNCHANGED process
  BY LowIs DEF ngx_event_expire_timers, Low
<1>2. Sound(timers, now, -MaxLag) /\ timers.tree # <<>> /\ now \in 0 .. Msecs - 1
      /\ IF process = "worker" THEN "manager" \notin timers.set ELSE timers.set \subseteq {"manager"}
  BY <1>1 DEF TimersInv, ngx_event_expire_timers, Expired
<1>3. Sound(t, now, -MaxLag) /\ t.set = timers.set \ {ev}
  BY <1>2, FirstSound
<1>4. ev \in timers.set /\ ev \in Events
  <2>1. timers.tree \in Seq(Nodes) /\ OneEach(timers) /\ timers.set \subseteq Events
    BY <1>2 DEF Sound, Typed
  <2>2. 1 \in DOMAIN timers.tree
    BY <1>2, <2>1, EmptySeq, LenProperties
  <2>3. ev \in timers.set
    BY <2>1, <2>2 DEF OneEach
  <2> QED BY <2>1, <2>3
<1>5. \/ ev \in Conns /\ Handles(t) /\ UNCHANGED now
      \/ ev = "shutdown" /\ ngx_shutdown_timer_handler(t) /\ UNCHANGED now
      \/ /\ ev = "resolver" /\ UNCHANGED now
         /\ timers' = ngx_event_add_timer(t, ev, now, MaxDelay)
      \/ ev = "manager" /\ ngx_cache_manager_process_handler(t)
  BY DEF ngx_event_expire_timers
<1> HIDE DEF ev, t
<1>6. SUFFICES /\ now' \in 0 .. Msecs - 1 /\ Sound(timers', now', -MaxLag)
               /\ IF process = "worker" THEN "manager" \notin timers'.set
                  ELSE timers'.set \subseteq {"manager"}
  BY <1>1 DEF TimersInv
<1>7. CASE ev \in Conns /\ Handles(t) /\ UNCHANGED now
  <2>1. Sound(timers', now, -MaxLag) /\ timers'.set \subseteq t.set \cup Conns
    BY <1>1, <1>2, <1>3, <1>7, HandlesSound
  <2> QED BY <1>2, <1>3, <1>4, <1>7, <2>1, Apart
<1>8. CASE ev = "shutdown" /\ ngx_shutdown_timer_handler(t) /\ UNCHANGED now
  <2>1. Sound(timers', now, -MaxLag) /\ timers'.set = t.set \ Conns
    BY <1>3, <1>8, CloseSound DEF ngx_shutdown_timer_handler
  <2> QED BY <1>2, <1>3, <1>8, <2>1
<1>9. CASE /\ ev = "resolver" /\ UNCHANGED now
           /\ timers' = ngx_event_add_timer(t, ev, now, MaxDelay)
  <2>1. MaxDelay \in 0 .. MaxDelay
    BY Spread
  <2>2. Sound(timers', now, -MaxLag) /\ timers'.set = t.set \cup {ev}
    BY <1>1, <1>2, <1>3, <1>4, <1>9, <2>1, AddSound
  <2> QED BY <1>2, <1>3, <1>4, <1>9, <2>2
<1>10. CASE ev = "manager" /\ ngx_cache_manager_process_handler(t)
  <2>1. PICK n \in {0} \cup Delays, lag \in 0 .. MaxLag :
            /\ now' = (now + lag) % Msecs
            /\ timers' = ngx_event_add_timer(Off(t, lag), "manager", now', AtLeastOne(n))
    BY <1>10 DEF ngx_cache_manager_process_handler
  <2>2. process # "worker" /\ timers.set = {"manager"} /\ t.set = {}
    BY <1>2, <1>3, <1>4, <1>10
  <2>3. DOMAIN t.tree = {}
    BY <1>3, <2>2 DEF Sound, OneEach
  <2>4. lag \in Nat /\ lag <= MaxDelay + MaxLag
    BY Spread
  <2>5. now' \in 0 .. Msecs - 1 /\ Sound(Off(t, lag), now', -MaxLag) /\ Off(t, lag).set = {}
    BY <1>1, <1>2, <1>3, <2>1, <2>2, <2>3, <2>4, OffSound
  <2>6. AtLeastOne(n) \in 0 .. MaxDelay
    BY Spread DEF AtLeastOne
  <2>7. PICK v : v = Off(t, lag)
    OBVIOUS
  <2>8. Sound(timers', now', -MaxLag) /\ timers'.set = v.set \cup {"manager"}
    BY <1>1, <1>4, <1>10, <2>1, <2>5, <2>6, <2>7, AddSound
  <2> QED BY <2>2, <2>5, <2>7, <2>8
<1> QED BY <1>5, <1>7, <1>8, <1>9, <1>10

(* The shutdown timer is set, idle connections are closed.                  *)
LEMMA FlagsStep ==
    ASSUME TimersInv, WorkerFlags
    PROVE  TimersInv'
<1>1. Low = 0 /\ Low' = 0 /\ at' = "top" /\ UNCHANGED <<process, now>> /\ process = "worker"
  BY DEF WorkerFlags, Low
<1>2. Sound(timers, now, 0) /\ now \in 0 .. Msecs - 1 /\ "manager" \notin timers.set
  BY <1>1 DEF TimersInv
<1>3. CASE UNCHANGED timers
  BY <1>1, <1>2, <1>3 DEF TimersInv
<1>4. CASE timers' # timers
  <2>1. PICK idle \in SUBSET Conns : timers' = CloseAll(ngx_set_shutdown_timer(timers), idle)
    BY <1>4 DEF WorkerFlags
  <2>2. PICK v : v = ngx_set_shutdown_timer(timers)
    OBVIOUS
  <2>3. ShutdownTimeout \in 0 .. MaxDelay /\ "shutdown" \in Events
    BY TimersAssumption, Spread DEF Events, Cancelable
  <2>4. Sound(v, now, 0) /\ v.set = timers.set \cup {"shutdown"}
    BY <1>2, <2>2, <2>3, LowIs, AddSound DEF ngx_set_shutdown_timer
  <2>5. Sound(timers', now, 0) /\ timers'.set = v.set \ idle
    BY <2>1, <2>2, <2>4, CloseSound
  <2> QED BY <1>1, <1>2, <2>4, <2>5 DEF TimersInv
<1> QED BY <1>3, <1>4

(* Every step of the worker and of the cache manager keeps the invariant.   *)
LEMMA TimersInvNext == TimersInv /\ [TimersNext]_timersVars => TimersInv'
<1> SUFFICES ASSUME TimersInv, [TimersNext]_timersVars PROVE TimersInv'
  OBVIOUS
<1>1. CASE Top
  BY <1>1 DEF Top, TimersInv, Low
<1>2. CASE HandleEvents
  <2>1. Low' = Low /\ UNCHANGED <<process, now>> /\ at' \in {"expire", "flags"}
    BY <1>2 DEF HandleEvents, Low
  <2>2. Sound(timers, now, Low) /\ now \in 0 .. Msecs - 1 /\ Low \in Lows
    BY LowIs DEF TimersInv
  <2>3. CASE UNCHANGED timers
    BY <2>1, <2>2, <2>3 DEF TimersInv
  <2>4. CASE process = "worker" /\ Handles(timers)
    <3>1. Sound(timers', now, Low) /\ timers'.set \subseteq timers.set \cup Conns
      BY <2>2, <2>4, HandlesSound
    <3> QED BY <2>1, <2>4, <3>1, Apart DEF TimersInv
  <2> QED BY <1>2, <2>3, <2>4 DEF HandleEvents
<1>3. CASE ngx_event_expire_timers
  BY <1>3, ExpireStep
<1>4. CASE AllExpired
  <2>1. Low = -MaxLag /\ Low' = 0 /\ UNCHANGED <<process, now, timers>> /\ at' = "flags"
    BY <1>4 DEF AllExpired, Low
  <2>2. Sound(timers, now, -MaxLag)
    BY <2>1 DEF TimersInv
  <2>3. ASSUME NEW k \in DOMAIN timers.tree PROVE Ahead(timers.tree[k], now) \in 0 .. MaxDelay
    <3>1. timers.tree \in Seq(Nodes) /\ InOrder(timers, now) /\ Near(timers, now, -MaxLag)
      BY <2>2 DEF Sound, Typed
    <3>2. /\ Len(timers.tree) \in Nat /\ DOMAIN timers.tree = 1 .. Len(timers.tree)
          /\ 1 \in DOMAIN timers.tree /\ timers.tree # <<>> /\ k \in Int /\ 1 <= k
      BY <3>1, LenProperties
    <3>3. PICK a : a = Ahead(timers.tree[1], now)
      OBVIOUS
    <3>4. PICK b : b = Ahead(timers.tree[k], now)
      OBVIOUS
    <3>5. a \in Int /\ b \in Int /\ b <= MaxDelay /\ MaxDelay \in Nat
      BY <3>1, <3>2, <3>3, <3>4, Spread DEF Near
    <3>6. a <= b
      BY <3>1, <3>2, <3>3, <3>4, <3>5 DEF InOrder
    <3>7. a > 0
      BY <1>4, <3>2, <3>3, <3>5 DEF AllExpired, Expired, Ahead
    <3> QED BY <3>4, <3>5, <3>6, <3>7
  <2>4. Sound(timers, now, 0)
    BY <2>2, <2>3 DEF Sound, Near
  <2> QED BY <2>1, <2>4 DEF TimersInv
<1>5. CASE WorkerFlags
  BY <1>5, FlagsStep
<1>6. CASE ManagerFlags
  BY <1>6 DEF ManagerFlags, TimersInv, Low
<1>7. CASE \E d \in 0 .. MaxDelay + MaxLag : Wait(d)
  BY <1>7, WaitStep
<1>8. CASE Quit
  BY <1>8 DEF Quit, TimersInv, Low
<1>9. CASE Terminate
  BY <1>9 DEF Terminate, TimersInv, Low
<1>10. CASE UNCHANGED timersVars
  BY <1>10 DEF timersVars, TimersInv, Low
<1> QED BY <1>1, <1>2, <1>3, <1>4, <1>5, <1>6, <1>7, <1>8, <1>9, <1>10 DEF TimersNext, Loop

(* The invariant of the timers.                                             *)
THEOREM TimersCorrect == TimersSpec => []TimersInv
<1> QED BY TimersInvInit, TimersInvNext, PTL DEF TimersSpec

(* The leftmost node is the next one to expire though keys wrap around, and *)
(* each event has one node, or none, as timer_set says                      *)
(* (ngx_rbtree_insert_timer_value, ngx_event_add_timer, ngx_event_del_timer). *)
THEOREM OrderedCorrect == TimersSpec => []TimersOrdered
<1>1. TimersInv => TimersOrdered
  <2> SUFFICES ASSUME TimersInv PROVE TimersOrdered
    OBVIOUS
  <2>1. /\ timers.tree \in Seq(Nodes) /\ InOrder(timers, now) /\ OneEach(timers)
        /\ Near(timers, now, Low) /\ timers.left \in [timers.set -> Int] /\ now \in 0 .. Msecs - 1
    BY DEF TimersInv, Sound, Typed
  <2>2. ASSUME NEW j \in DOMAIN timers.tree, NEW k \in DOMAIN timers.tree, j < k
        PROVE  Signed(timers.tree[k].key - timers.tree[j].key) >= 0
    <3>1. PICK a : a = Ahead(timers.tree[j], now)
      OBVIOUS
    <3>2. PICK b : b = Ahead(timers.tree[k], now)
      OBVIOUS
    <3>3. /\ Low \in Int /\ -MaxLag <= Low /\ MaxLag \in Nat /\ MaxDelay \in Nat /\ Half \in Nat
          /\ MaxDelay + MaxLag < Half
      BY LowIs, Spread DEF Lows
    <3>4. a \in Int /\ Low <= a /\ a <= MaxDelay /\ b \in Int /\ Low <= b /\ b <= MaxDelay
      BY <2>1, <3>1, <3>2, <3>3 DEF Near
    <3>5. a <= b
      BY <2>1, <2>2, <3>1, <3>2 DEF InOrder
    <3>6. timers.tree[j] \in Nodes /\ timers.tree[k] \in Nodes
      BY <2>1
    <3>7. timers.tree[j].key \in 0 .. Msecs - 1 /\ timers.tree[k].key \in 0 .. Msecs - 1
      BY <3>6 DEF Nodes
    <3>8. b - a \in 1 - Half .. Half - 1
      BY <3>3, <3>4, <3>5
    <3>9. Signed(timers.tree[k].key - timers.tree[j].key) = b - a
      BY <2>1, <3>1, <3>2, <3>7, <3>8, Difference DEF Ahead
    <3> QED BY <3>4, <3>5, <3>9
  <2>3. {n.ev : n \in Range(timers.tree)} = timers.set
    BY <2>1 DEF OneEach, Range
  <2> QED BY <2>1, <2>2, <2>3 DEF TimersOrdered, OneEach
<1> QED BY <1>1, TimersCorrect, PTL

(* A timer is less than NGX_TIMER_LAZY_DELAY off the time asked for last,   *)
(* and when the loop waits none is overdue by more (ngx_event_add_timer,    *)
(* ngx_event_find_timer, ngx_event_expire_timers).                          *)
THEOREM InTimeCorrect == TimersSpec => []InTime
<1>1. TimersInv => InTime
  <2> SUFFICES ASSUME TimersInv, NEW k \in DOMAIN timers.tree
               PROVE  /\ Ahead(timers.tree[k], now) - timers.left[timers.tree[k].ev] \in 1 - LazyDelay .. LazyDelay - 1
                      /\ at \notin {"events", "expire"} => timers.left[timers.tree[k].ev] > -LazyDelay
    BY DEF InTime, Ahead, Range
  <2>1. /\ OneEach(timers) /\ Near(timers, now, Low) /\ timers.left \in [timers.set -> Int]
    BY DEF TimersInv, Sound, Typed
  <2>2. PICK a : a = Ahead(timers.tree[k], now)
    OBVIOUS
  <2>3. PICK l : l = timers.left[timers.tree[k].ev]
    OBVIOUS
  <2>4. l \in Int /\ a \in Low .. MaxDelay /\ a - l \in 1 - LazyDelay .. LazyDelay - 1
    BY <2>1, <2>2, <2>3 DEF Near, OneEach
  <2>5. at \notin {"events", "expire"} => Low = 0
    BY DEF Low
  <2>6. at \notin {"events", "expire"} => l > -LazyDelay
    BY <2>4, <2>5, Spread
  <2> QED BY <2>2, <2>3, <2>4, <2>6
<1> QED BY <1>1, TimersCorrect, PTL
=============================================================================
