----------------------------------- MODULE Sums ----------------------------------
(***************************************************************************)
(* Induction over the subsets of a finite set, and what it says of sums of *)
(* numbers over finite sets (SumFunctionOnSet of Functions).               *)
(***************************************************************************)
EXTENDS Integers, FiniteSets, Functions, TLAPS, WellFoundedInduction, FiniteSetTheorems

(* Induction over the subsets of a finite set, with sets for predicates.    *)
LEMMA SmallestNumber ==
    ASSUME NEW T \in SUBSET Nat, T # {}
    PROVE  \E m \in T : \A k \in T : m <= k
<1>1. \E m \in T : \A k \in T : ~(<<k, m>> \in OpToRel(<, Nat))
  BY WFMin, NatLessThanWellFounded
<1>2. PICK m \in T : \A k \in T : ~(<<k, m>> \in OpToRel(<, Nat))
  BY <1>1
<1>3. \A k \in T : ~(k < m)
  BY <1>2 DEF OpToRel
<1> QED BY <1>3

LEMMA SmallestBad ==
    ASSUME NEW S, IsFiniteSet(S), NEW Bad \in SUBSET (SUBSET S), Bad # {}
    PROVE  \E T \in Bad : \A x \in T : T \ {x} \notin Bad
<1> DEFINE Sizes == {Cardinality(T) : T \in Bad}
<1>1. \A T \in SUBSET S : IsFiniteSet(T) /\ Cardinality(T) \in Nat
  BY FS_Subset, FS_CardinalityType
<1>2. Sizes \in SUBSET Nat /\ Sizes # {}
  BY <1>1
<1>3. PICK m \in Sizes : \A k \in Sizes : m <= k
  <2> HIDE DEF Sizes
  <2> QED BY <1>2, SmallestNumber
<1>4. PICK T \in Bad : Cardinality(T) = m
  OBVIOUS
<1>5. ASSUME NEW x \in T, T \ {x} \in Bad PROVE FALSE
  <2>1. Cardinality(T \ {x}) = m - 1
    BY <1>1, <1>4, FS_RemoveElement
  <2>2. m <= Cardinality(T \ {x}) /\ m \in Nat
    BY <1>2, <1>3, <1>5
  <2> QED BY <2>1, <2>2
<1> QED BY <1>5

-----------------------------------------------------------------------------
(* Sums.  SumFunctionOnSet takes the elements of a set in the order in      *)
(* which CHOOSE finds them; Total is one step of it.                        *)
Some(T) == CHOOSE x \in T : TRUE
Total(f, s, T) == IF T = {} THEN 0 ELSE f[Some(T)] + s[T \ {Some(T)}]
IsSum(f, S, s) == s = [T \in SUBSET S |-> Total(f, s, T)]

LEMMA SumChosen ==
    ASSUME NEW f, NEW S
    PROVE  SumFunctionOnSet(f, S) = (CHOOSE s : IsSum(f, S, s))[S]
BY DEF SumFunctionOnSet, FoldFunctionOnSet, MapThenFoldSet, IsSum, Total, Some

LEMMA SomeIn == ASSUME NEW T, T # {} PROVE Some(T) \in T
BY DEF Some

LEMMA SumExists ==
    ASSUME NEW S, IsFiniteSet(S), NEW f
    PROVE  \E s : IsSum(f, S, s)
<1> DEFINE Level(n) == {T \in SUBSET S : Cardinality(T) <= n}
           UpTo(n, s) == s = [T \in Level(n) |-> Total(f, s, T)]
           Bad == {n \in Nat : ~\E s : UpTo(n, s)}
<1>1. \A T \in SUBSET S : IsFiniteSet(T) /\ Cardinality(T) \in Nat
                          /\ Cardinality(T) <= Cardinality(S)
  BY FS_Subset, FS_CardinalityType
<1>2. Cardinality(S) \in Nat /\ Level(Cardinality(S)) = SUBSET S
  BY <1>1, FS_CardinalityType
<1>3. UpTo(0, [T \in Level(0) |-> 0])
  <2>1. ASSUME NEW T \in Level(0) PROVE T = {}
    <3>1. IsFiniteSet(T) /\ Cardinality(T) = 0
      BY <1>1, <2>1
    <3> QED BY <3>1, FS_EmptySet
  <2>2. [T \in Level(0) |-> 0]
          = [T \in Level(0) |-> Total(f, [U \in Level(0) |-> 0], T)]
    <3> HIDE DEF Level
    <3> QED BY <2>1 DEF Total
  <2> QED BY <2>2
<1>4. ASSUME NEW n \in Nat, NEW s, UpTo(n, s) PROVE \E t : UpTo(n + 1, t)
  <2> DEFINE t == [T \in Level(n + 1) |-> Total(f, s, T)]
  <2>1. ASSUME NEW T \in Level(n) PROVE T \in Level(n + 1) /\ t[T] = s[T]
    <3>1. T \in Level(n + 1)
      BY <1>1
    <3>2. s[T] = Total(f, s, T)
      <4> HIDE DEF Level
      <4> QED BY <1>4
    <3>3. t[T] = Total(f, s, T)
      <4> HIDE DEF Level
      <4> QED BY <3>1
    <3> QED BY <3>1, <3>2, <3>3
  <2>2. ASSUME NEW T \in Level(n + 1), T # {} PROVE T \ {Some(T)} \in Level(n)
    BY <1>1, <2>2, SomeIn, FS_RemoveElement
  <2> HIDE DEF Level
  <2>3. ASSUME NEW T \in Level(n + 1) PROVE Total(f, s, T) = Total(f, t, T)
    <3>1. CASE T = {}
      BY <3>1 DEF Total
    <3>2. CASE T # {}
      <4>1. t[T \ {Some(T)}] = s[T \ {Some(T)}]
        BY <2>1, <2>2, <3>2
      <4> HIDE DEF t
      <4> QED BY <4>1 DEF Total
    <3> QED BY <3>1, <3>2
  <2>4. UpTo(n + 1, t)
    <3>1. \A T \in Level(n + 1) : Total(f, s, T) = Total(f, t, T)
      BY <2>3
    <3>2. t = [T \in Level(n + 1) |-> Total(f, t, T)]
      BY <3>1
    <3> QED BY <3>2
  <2> QED BY <2>4
<1>5. ASSUME Bad # {} PROVE FALSE
  <2>1. PICK m \in Bad : \A k \in Bad : m <= k
    <3>1. Bad \in SUBSET Nat
      OBVIOUS
    <3> HIDE DEF Bad
    <3> QED BY <1>5, <3>1, SmallestNumber
  <2>2. m # 0
    <3> HIDE DEF UpTo
    <3> QED BY <1>3
  <2>3. m - 1 \in Nat /\ m - 1 \notin Bad
    <3>1. m \in Nat
      OBVIOUS
    <3>2. m - 1 \in Nat /\ ~(m <= m - 1)
      BY <2>2, <3>1
    <3> HIDE DEF Bad
    <3> QED BY <2>1, <3>2
  <2>4. PICK s : UpTo(m - 1, s)
    <3> HIDE DEF UpTo
    <3> QED BY <2>3
  <2>5. \E t : UpTo(m - 1 + 1, t)
    <3> HIDE DEF UpTo
    <3> QED BY <1>4, <2>3, <2>4
  <2>6. m - 1 + 1 = m
    OBVIOUS
  <2>7. \E t : UpTo(m, t)
    <3> HIDE DEF UpTo
    <3> QED BY <2>5, <2>6
  <2> HIDE DEF UpTo
  <2> QED BY <2>7
<1>6. PICK s : UpTo(Cardinality(S), s)
  <2> HIDE DEF UpTo
  <2> QED BY <1>2, <1>5
<1> QED BY <1>2, <1>6 DEF IsSum

LEMMA SumUnique ==
    ASSUME NEW S, IsFiniteSet(S), NEW f, NEW s, NEW t, IsSum(f, S, s), IsSum(f, S, t),
           NEW U \in SUBSET S
    PROVE  s[U] = t[U]
<1> DEFINE Bad == {T \in SUBSET S : s[T] # t[T]}
<1>1. ASSUME Bad # {} PROVE FALSE
  <2>1. PICK T \in Bad : \A x \in T : T \ {x} \notin Bad
    <3>1. Bad \in SUBSET (SUBSET S)
      OBVIOUS
    <3> HIDE DEF Bad
    <3> QED BY <1>1, <3>1, SmallestBad
  <2>2. s[T] = Total(f, s, T) /\ t[T] = Total(f, t, T)
    BY DEF IsSum
  <2>3. CASE T = {}
    BY <2>2, <2>3 DEF Total
  <2>4. CASE T # {}
    <3>1. s[T \ {Some(T)}] = t[T \ {Some(T)}]
      BY <2>1, <2>4, SomeIn
    <3> QED BY <2>2, <3>1 DEF Total
  <2> QED BY <2>3, <2>4
<1> QED BY <1>1

(* The sum over a part of S is a partial sum of the sum over S.             *)
LEMMA SumOfPart ==
    ASSUME NEW S, IsFiniteSet(S), NEW f, NEW s, IsSum(f, S, s), NEW T \in SUBSET S
    PROVE  SumFunctionOnSet(f, T) = s[T]
<1> DEFINE part == [U \in SUBSET T |-> s[U]]
<1>1. IsSum(f, T, part)
  <2>1. ASSUME NEW U \in SUBSET T PROVE s[U] = Total(f, part, U)
    <3>1. s[U] = Total(f, s, U)
      BY DEF IsSum
    <3>2. CASE U = {}
      BY <3>1, <3>2 DEF Total
    <3>3. CASE U # {}
      <4>1. part[U \ {Some(U)}] = s[U \ {Some(U)}]
        OBVIOUS
      <4> HIDE DEF part
      <4> QED BY <3>1, <4>1 DEF Total
    <3> QED BY <3>2, <3>3
  <2>2. part = [U \in SUBSET T |-> Total(f, part, U)]
    BY <2>1
  <2> QED BY <2>2 DEF IsSum
<1>2. IsFiniteSet(T)
  BY FS_Subset
<1> DEFINE c == CHOOSE t : IsSum(f, T, t)
<1>3. IsSum(f, T, c)
  BY <1>1
<1>4. c[T] = part[T]
  <2> HIDE DEF c, part
  <2> QED BY <1>1, <1>2, <1>3, SumUnique
<1> QED BY <1>4, SumChosen

LEMMA SumEmpty == ASSUME NEW f PROVE SumFunctionOnSet(f, {}) = 0
<1>1. IsFiniteSet({})
  BY FS_EmptySet
<1>2. PICK s : IsSum(f, {}, s)
  BY <1>1, SumExists
<1>3. s[{}] = 0
  BY <1>2 DEF IsSum, Total
<1> QED BY <1>1, <1>2, <1>3, SumOfPart

(* The sum of integers is an integer.                                       *)
LEMMA SumType ==
    ASSUME NEW S, IsFiniteSet(S), NEW f, \A x \in S : f[x] \in Int
    PROVE  SumFunctionOnSet(f, S) \in Int
<1>1. PICK s : IsSum(f, S, s)
  BY SumExists
<1> DEFINE Bad == {T \in SUBSET S : s[T] \notin Int}
<1>2. ASSUME Bad # {} PROVE FALSE
  <2>1. PICK T \in Bad : \A x \in T : T \ {x} \notin Bad
    <3>1. Bad \in SUBSET (SUBSET S)
      OBVIOUS
    <3> HIDE DEF Bad
    <3> QED BY <1>2, <3>1, SmallestBad
  <2>2. s[T] = Total(f, s, T)
    BY <1>1 DEF IsSum
  <2>3. CASE T = {}
    BY <2>2, <2>3 DEF Total
  <2>4. CASE T # {}
    <3>1. s[T \ {Some(T)}] \in Int /\ f[Some(T)] \in Int
      BY <2>1, <2>4, SomeIn
    <3> QED BY <2>2, <2>4, <3>1 DEF Total
  <2> QED BY <2>3, <2>4
<1>3. s[S] \in Int
  BY <1>2
<1> QED BY <1>1, <1>3, SumOfPart

(* An element can be taken out of a sum.                                    *)
LEMMA SumRemove ==
    ASSUME NEW S, IsFiniteSet(S), NEW f, \A y \in S : f[y] \in Int, NEW x \in S
    PROVE  SumFunctionOnSet(f, S) = f[x] + SumFunctionOnSet(f, S \ {x})
<1>1. PICK s : IsSum(f, S, s)
  BY SumExists
<1>2. \A T \in SUBSET S : s[T] = Total(f, s, T)
  BY <1>1 DEF IsSum
<1>3. ASSUME NEW T \in SUBSET S PROVE s[T] \in Int
  <2>1. IsFiniteSet(T) /\ \A y \in T : f[y] \in Int
    BY FS_Subset
  <2> QED BY <1>1, <2>1, SumOfPart, SumType
<1> DEFINE Bad == {T \in SUBSET S : \E y \in T : s[T] # f[y] + s[T \ {y}]}
<1>4. ASSUME Bad # {} PROVE FALSE
  <2>1. PICK T \in Bad : \A y \in T : T \ {y} \notin Bad
    <3>1. Bad \in SUBSET (SUBSET S)
      OBVIOUS
    <3> HIDE DEF Bad
    <3> QED BY <1>4, <3>1, SmallestBad
  <2>2. PICK y \in T : s[T] # f[y] + s[T \ {y}]
    OBVIOUS
  <2> DEFINE c == Some(T)
  <2>3. c \in T /\ c \in S /\ y \in S
    BY SomeIn
  <2>4. s[T] = f[c] + s[T \ {c}]
    BY <1>2, <2>2 DEF Total
  <2> HIDE DEF c
  <2>5. c # y
    BY <2>2, <2>4
  <2>6. s[T \ {c}] = f[y] + s[(T \ {c}) \ {y}]
    BY <2>1, <2>3, <2>5
  <2>7. s[T \ {y}] = f[c] + s[(T \ {y}) \ {c}]
    BY <2>1, <2>3, <2>5
  <2>8. (T \ {c}) \ {y} = (T \ {y}) \ {c}
    OBVIOUS
  <2>9. f[c] \in Int /\ f[y] \in Int /\ s[(T \ {y}) \ {c}] \in Int
    BY <1>3, <2>3
  <2>10. f[c] + (f[y] + s[(T \ {y}) \ {c}]) = f[y] + (f[c] + s[(T \ {y}) \ {c}])
    BY <2>9
  <2>11. s[T] = f[c] + (f[y] + s[(T \ {y}) \ {c}])
    BY <2>4, <2>6, <2>8
  <2>12. f[y] + s[T \ {y}] = f[y] + (f[c] + s[(T \ {y}) \ {c}])
    BY <2>7
  <2> HIDE DEF Bad
  <2> QED BY Zenon, <2>2, <2>10, <2>11, <2>12
<1>5. s[S] = f[x] + s[S \ {x}]
  BY <1>4
<1> QED BY <1>1, <1>5, SumOfPart

(* Sums of sums, of functions that are zero outside a set, and of smaller   *)
(* numbers.                                                                 *)
LEMMA SumPlus ==
    ASSUME NEW S, IsFiniteSet(S), NEW f, NEW g, NEW h,
           \A x \in S : f[x] \in Int /\ g[x] \in Int /\ h[x] = f[x] + g[x]
    PROVE  SumFunctionOnSet(h, S) = SumFunctionOnSet(f, S) + SumFunctionOnSet(g, S)
<1> DEFINE Sum(e, T) == SumFunctionOnSet(e, T)
           Bad == {T \in SUBSET S : Sum(h, T) # Sum(f, T) + Sum(g, T)}
<1>1. ASSUME Bad # {} PROVE FALSE
  <2>1. PICK T \in Bad : \A x \in T : T \ {x} \notin Bad
    <3>1. Bad \in SUBSET (SUBSET S)
      OBVIOUS
    <3> HIDE DEF Bad
    <3> QED BY <1>1, <3>1, SmallestBad
  <2>2. CASE T = {}
    BY <2>2, SumEmpty
  <2>3. CASE T # {}
    <3>1. PICK x \in T : TRUE
      BY <2>3
    <3>2. IsFiniteSet(T) /\ IsFiniteSet(T \ {x}) /\ x \in S
      BY FS_Subset
    <3>3. \A y \in T : f[y] \in Int /\ g[y] \in Int /\ h[y] \in Int
      OBVIOUS
    <3>4. /\ Sum(f, T \ {x}) \in Int /\ Sum(g, T \ {x}) \in Int
          /\ Sum(h, T \ {x}) \in Int
      BY <3>2, <3>3, SumType
    <3>5. /\ Sum(f, T) = f[x] + Sum(f, T \ {x})
          /\ Sum(g, T) = g[x] + Sum(g, T \ {x})
          /\ Sum(h, T) = h[x] + Sum(h, T \ {x})
      BY <3>2, <3>3, SumRemove
    <3>6. Sum(h, T \ {x}) = Sum(f, T \ {x}) + Sum(g, T \ {x})
      BY <2>1
    <3>7. Sum(h, T) # Sum(f, T) + Sum(g, T)
      OBVIOUS
    <3>8. f[x] \in Int /\ g[x] \in Int /\ h[x] = f[x] + g[x]
      BY <3>2
    <3> HIDE DEF Sum, Bad
    <3> QED BY <3>4, <3>5, <3>6, <3>7, <3>8
  <2> QED BY <2>2, <2>3
<1>2. Sum(h, S) = Sum(f, S) + Sum(g, S)
  BY <1>1
<1> QED BY <1>2

LEMMA SumOutside ==
    ASSUME NEW S, IsFiniteSet(S), NEW T \in SUBSET S, NEW f,
           \A x \in S : f[x] \in Int, \A x \in S \ T : f[x] = 0
    PROVE  SumFunctionOnSet(f, S) = SumFunctionOnSet(f, T)
<1> DEFINE Sum(U) == SumFunctionOnSet(f, U)
           Bad == {U \in SUBSET S : T \subseteq U /\ Sum(U) # Sum(T)}
<1>1. ASSUME Bad # {} PROVE FALSE
  <2>1. PICK U \in Bad : \A x \in U : U \ {x} \notin Bad
    <3>1. Bad \in SUBSET (SUBSET S)
      OBVIOUS
    <3> HIDE DEF Bad
    <3> QED BY <1>1, <3>1, SmallestBad
  <2>2. PICK x \in U : x \notin T
    OBVIOUS
  <2>3. IsFiniteSet(U) /\ IsFiniteSet(U \ {x}) /\ x \in S
    BY FS_Subset
  <2>4. Sum(U) = f[x] + Sum(U \ {x}) /\ Sum(U \ {x}) \in Int
    BY <2>3, SumRemove, SumType
  <2>5. Sum(U \ {x}) = Sum(T)
    BY <2>1, <2>2
  <2>6. Sum(U) # Sum(T) /\ f[x] = 0
    BY <2>2
  <2> HIDE DEF Sum, Bad
  <2> QED BY <2>4, <2>5, <2>6
<1>2. Sum(S) = Sum(T)
  BY <1>1
<1> QED BY <1>2

LEMMA SumZero ==
    ASSUME NEW S, IsFiniteSet(S), NEW f, \A x \in S : f[x] = 0
    PROVE  SumFunctionOnSet(f, S) = 0
BY SumOutside, SumEmpty

LEMMA SumAtMost ==
    ASSUME NEW S, IsFiniteSet(S), NEW f, NEW g,
           \A x \in S : f[x] \in Int /\ g[x] \in Int /\ f[x] <= g[x]
    PROVE  SumFunctionOnSet(f, S) <= SumFunctionOnSet(g, S)
<1> DEFINE Sum(e, T) == SumFunctionOnSet(e, T)
           Bad == {T \in SUBSET S : ~(Sum(f, T) <= Sum(g, T))}
<1>1. ASSUME Bad # {} PROVE FALSE
  <2>1. PICK T \in Bad : \A x \in T : T \ {x} \notin Bad
    <3>1. Bad \in SUBSET (SUBSET S)
      OBVIOUS
    <3> HIDE DEF Bad
    <3> QED BY <1>1, <3>1, SmallestBad
  <2>2. CASE T = {}
    BY <2>2, SumEmpty
  <2>3. CASE T # {}
    <3>1. PICK x \in T : TRUE
      BY <2>3
    <3>2. IsFiniteSet(T) /\ IsFiniteSet(T \ {x}) /\ x \in S
      BY FS_Subset
    <3>3. \A y \in T : f[y] \in Int /\ g[y] \in Int
      OBVIOUS
    <3>4. Sum(f, T \ {x}) \in Int /\ Sum(g, T \ {x}) \in Int
      BY <3>2, <3>3, SumType
    <3>5. /\ Sum(f, T) = f[x] + Sum(f, T \ {x})
          /\ Sum(g, T) = g[x] + Sum(g, T \ {x})
      BY <3>2, <3>3, SumRemove
    <3>6. Sum(f, T \ {x}) <= Sum(g, T \ {x})
      BY <2>1
    <3>7. ~(Sum(f, T) <= Sum(g, T))
      OBVIOUS
    <3>8. f[x] \in Int /\ g[x] \in Int /\ f[x] <= g[x]
      BY <3>2
    <3> HIDE DEF Sum, Bad
    <3> QED BY <3>4, <3>5, <3>6, <3>7, <3>8
  <2> QED BY <2>2, <2>3
<1>2. Sum(f, S) <= Sum(g, S)
  BY <1>1
<1> QED BY <1>2

(* Numbers that are not negative and add up to 0 are 0.                     *)
LEMMA SumOfNone ==
    ASSUME NEW S, IsFiniteSet(S), NEW f, \A x \in S : f[x] \in Nat,
           SumFunctionOnSet(f, S) = 0, NEW x \in S
    PROVE  f[x] = 0
<1> DEFINE zero == [y \in S |-> 0]
<1>1. IsFiniteSet(S \ {x})
  BY FS_Subset
<1>2. SumFunctionOnSet(zero, S \ {x}) = 0
  BY <1>1, SumZero
<1>3. SumFunctionOnSet(zero, S \ {x}) <= SumFunctionOnSet(f, S \ {x})
  BY <1>1, SumAtMost
<1>4. /\ SumFunctionOnSet(f, S) = f[x] + SumFunctionOnSet(f, S \ {x})
      /\ SumFunctionOnSet(f, S \ {x}) \in Int
  BY <1>1, SumRemove, SumType
<1> HIDE DEF zero
<1> QED BY <1>2, <1>3, <1>4

(* One element pays for all others.                                         *)
LEMMA SumOnePays ==
    ASSUME NEW S, IsFiniteSet(S), NEW T \in SUBSET S, NEW b \in T,
           NEW f, NEW e, NEW h, \A x \in S : f[x] \in Int, \A x \in T : e[x] \in Int,
           \A x \in S \ T : h[x] = f[x],
           \A x \in T \ {b} : h[x] = f[x] + e[x],
           h[b] = f[b] + e[b] - SumFunctionOnSet(e, T)
    PROVE  SumFunctionOnSet(h, S) = SumFunctionOnSet(f, S)
<1> DEFINE price == SumFunctionOnSet(e, T)
           paid == [x \in T |-> IF x = b THEN -price ELSE 0]
           gain == [x \in S |-> IF x \in T THEN e[x] + paid[x] ELSE 0]
<1>1. IsFiniteSet(T) /\ price \in Int
  BY FS_Subset, SumType
<1> HIDE DEF price
<1>2. SumFunctionOnSet(paid, T) = -price
  <2>1. /\ \A x \in T : paid[x] \in Int
        /\ \A x \in T \ {b} : paid[x] = 0
        /\ paid[b] = -price
    BY <1>1
  <2>2. IsFiniteSet(T \ {b})
    BY <1>1, FS_Subset
  <2> HIDE DEF paid
  <2>3. SumFunctionOnSet(paid, T) = paid[b] + SumFunctionOnSet(paid, T \ {b})
    BY <1>1, <2>1, SumRemove
  <2>4. SumFunctionOnSet(paid, T \ {b}) = 0
    BY <2>1, <2>2, SumZero
  <2> QED BY <1>1, <2>1, <2>3, <2>4
<1>3. \A x \in T : paid[x] \in Int
  BY <1>1
<1>4. SumFunctionOnSet(gain, T) = price + SumFunctionOnSet(paid, T)
  <2>1. \A x \in T : gain[x] = e[x] + paid[x]
    OBVIOUS
  <2> HIDE DEF gain, paid
  <2> QED BY <1>1, <1>3, <2>1, SumPlus DEF price
<1>5. /\ \A x \in S : gain[x] \in Int
      /\ \A x \in S \ T : gain[x] = 0
  <2> HIDE DEF paid
  <2> QED BY <1>3
<1>6. \A x \in S : h[x] = f[x] + gain[x]
  <2>1. ASSUME NEW x \in S \ T PROVE h[x] = f[x] + gain[x]
    BY <1>5
  <2>2. ASSUME NEW x \in T, x # b PROVE h[x] = f[x] + gain[x]
    <3>1. gain[x] = e[x]
      BY <2>2
    <3> QED BY <2>2, <3>1
  <2>3. h[b] = f[b] + gain[b]
    <3>1. gain[b] = e[b] - price /\ f[b] \in Int /\ e[b] \in Int
      BY <1>1
    <3>2. h[b] = f[b] + e[b] - price
      BY DEF price
    <3> HIDE DEF gain
    <3> QED BY <1>1, <3>1, <3>2
  <2> HIDE DEF gain
  <2> QED BY <2>1, <2>2, <2>3
<1> HIDE DEF gain, paid
<1>7. SumFunctionOnSet(h, S) = SumFunctionOnSet(f, S) + SumFunctionOnSet(gain, S)
  BY <1>5, <1>6, SumPlus
<1>8. SumFunctionOnSet(gain, S) = 0
  <2>1. SumFunctionOnSet(gain, S) = SumFunctionOnSet(gain, T)
    BY <1>5, SumOutside
  <2> QED BY <1>1, <1>2, <1>4, <2>1
<1>9. SumFunctionOnSet(f, S) \in Int
  BY SumType
<1> QED BY <1>7, <1>8, <1>9

LEMMA SumSame ==
    ASSUME NEW S, IsFiniteSet(S), NEW f, NEW g,
           \A x \in S : f[x] \in Int /\ g[x] = f[x]
    PROVE  SumFunctionOnSet(g, S) = SumFunctionOnSet(f, S)
<1>1. \A x \in S : f[x] \in Int /\ g[x] \in Int /\ f[x] <= g[x] /\ g[x] <= f[x]
  OBVIOUS
<1>2. /\ SumFunctionOnSet(f, S) <= SumFunctionOnSet(g, S)
      /\ SumFunctionOnSet(g, S) <= SumFunctionOnSet(f, S)
  BY <1>1, SumAtMost
<1>3. SumFunctionOnSet(f, S) \in Int /\ SumFunctionOnSet(g, S) \in Int
  BY <1>1, SumType
<1> QED BY <1>2, <1>3

(* A step that changes one element of a sum changes the sum by as much.     *)
LEMMA SumChange ==
    ASSUME NEW S, IsFiniteSet(S), NEW f, NEW g, NEW p \in S,
           \A x \in S : f[x] \in Int /\ g[x] \in Int, \A x \in S \ {p} : g[x] = f[x]
    PROVE  SumFunctionOnSet(g, S) = SumFunctionOnSet(f, S) + (g[p] - f[p])
<1>1. IsFiniteSet(S \ {p})
  BY FS_Subset
<1>2. SumFunctionOnSet(g, S \ {p}) = SumFunctionOnSet(f, S \ {p})
  BY <1>1, SumSame
<1>3. /\ SumFunctionOnSet(f, S) = f[p] + SumFunctionOnSet(f, S \ {p})
      /\ SumFunctionOnSet(g, S) = g[p] + SumFunctionOnSet(g, S \ {p})
  BY SumRemove
<1>4. SumFunctionOnSet(f, S \ {p}) \in Int /\ f[p] \in Int /\ g[p] \in Int
  BY <1>1, SumType
<1> QED BY <1>2, <1>3, <1>4

(* A sum of as many numbers that are not too small.                         *)
LEMMA SumAtLeast ==
    ASSUME NEW S, IsFiniteSet(S), NEW f, NEW c \in Int,
           \A x \in S : f[x] \in Int /\ c <= f[x]
    PROVE  Cardinality(S) * c <= SumFunctionOnSet(f, S)
<1> DEFINE Sum(T) == SumFunctionOnSet(f, T)
           Bad == {T \in SUBSET S : ~(Cardinality(T) * c <= Sum(T))}
<1>1. ASSUME Bad # {} PROVE FALSE
  <2>1. PICK T \in Bad : \A x \in T : T \ {x} \notin Bad
    <3>1. Bad \in SUBSET (SUBSET S)
      OBVIOUS
    <3> HIDE DEF Bad
    <3> QED BY <1>1, <3>1, SmallestBad
  <2>2. CASE T = {}
    BY <2>2, SumEmpty, FS_EmptySet
  <2>3. CASE T # {}
    <3>1. PICK x \in T : TRUE
      BY <2>3
    <3>2. IsFiniteSet(T) /\ IsFiniteSet(T \ {x}) /\ x \in S
      BY FS_Subset
    <3>3. Sum(T) = f[x] + Sum(T \ {x}) /\ Sum(T \ {x}) \in Int
      BY <3>2, SumRemove, SumType
    <3>4. PICK n \in Nat : n = Cardinality(T \ {x}) /\ Cardinality(T) = n + 1
      BY <3>2, FS_RemoveElement, FS_CardinalityType
    <3>5. n * c <= Sum(T \ {x})
      BY <2>1, <3>4
    <3>6. ~((n + 1) * c <= Sum(T))
      BY <3>4
    <3>7. f[x] \in Int /\ c <= f[x]
      BY <3>2
    <3>8. (n + 1) * c = n * c + c /\ n * c \in Int
      OBVIOUS
    <3> HIDE DEF Sum, Bad
    <3> QED BY <3>3, <3>5, <3>6, <3>7, <3>8
  <2> QED BY <2>2, <2>3
<1>2. Cardinality(S) * c <= Sum(S)
  BY <1>1
<1> QED BY <1>2
===============================================================================
