----------------------------- MODULE Pool_proof -----------------------------
(***************************************************************************)
(* Theorems about Pool, for any sizes, limits and bounds.                  *)
(***************************************************************************)
EXTENDS Pool, SequenceTheorems, FiniteSetTheorems, WellFoundedInduction, TLAPS

(* Natural numbers: least and greatest elements.                           *)
LEMMA LessThanWellFounded == IsWellFoundedOn({ss \in Nat \X Nat : ss[1] < ss[2]}, Nat)
BY NatLessThanWellFounded DEF OpToRel

LEMMA MinIn ==
    ASSUME NEW S, S \subseteq Nat, S # {}
    PROVE  Min(S) \in S /\ \A y \in S : Min(S) <= y
<1> DEFINE R == {ss \in Nat \X Nat : ss[1] < ss[2]}
<1>1. PICK x \in S : \A y \in S : <<y, x>> \notin R
  <2>1. IsWellFoundedOn(R, Nat)
    BY LessThanWellFounded
  <2> HIDE DEF R
  <2> QED BY <2>1, WFMin
<1>2. \A y \in S : x =< y
  <2> SUFFICES ASSUME NEW y \in S, y < x PROVE FALSE
    OBVIOUS
  <2>1. <<y, x>> \in Nat \X Nat /\ <<y, x>>[1] < <<y, x>>[2]
    OBVIOUS
  <2> QED BY <1>1, <2>1
<1> QED BY <1>2 DEF Min

LEMMA MaxIn ==
    ASSUME NEW n \in Nat, NEW S, S \subseteq 1 .. n, S # {}
    PROVE  Max(S) \in S
<1> DEFINE T == {n - x : x \in S}
<1>1. T \subseteq Nat
  OBVIOUS
<1>2. T # {}
  <2>1. PICK x \in S : TRUE
    OBVIOUS
  <2> QED BY <2>1
<1>3. Min(T) \in T /\ \A t \in T : Min(T) <= t
  <2> HIDE DEF T
  <2> QED BY <1>1, <1>2, MinIn
<1>4. PICK x \in S : Min(T) = n - x
  BY <1>3
<1>5. ASSUME NEW y \in S PROVE x >= y
  <2>1. n - y \in T
    OBVIOUS
  <2>2. n - x <= n - y
    BY <1>3, <1>4, <2>1
  <2> QED BY <2>2
<1> QED BY <1>5 DEF Max

(* Alignment.                                                              *)
LEMMA Division ==
    ASSUME NEW a \in Nat \ {0}, NEW y \in Nat
    PROVE  y \div a \in Nat /\ (y \div a) * a <= y /\ y < (y \div a) * a + a
OBVIOUS

LEMMA MultiplesOrder ==
    ASSUME NEW a \in Nat \ {0}, NEW q \in Nat, NEW k \in Nat, q * a < k * a + a
    PROVE  q * a <= k * a
<1>1. q <= k
  OBVIOUS
<1> QED BY <1>1

(* A start is moved up, and not past the end of a block.                   *)
LEMMA AlignedUp ==
    ASSUME NEW x \in Nat
    PROVE  Aligned(x) \in Nat /\ x <= Aligned(x) /\ (x <= BlockSize => Aligned(x) <= BlockSize)
<1> DEFINE y == x + Alignment - 1
           q == y \div Alignment
           k == BlockSize \div Alignment
<1>1. Alignment \in Nat \ {0} /\ BlockSize \in Nat /\ BlockSize % Alignment = 0
  BY PoolAssumption
<1>2. y \in Nat
  BY <1>1
<1>3. q \in Nat /\ q * Alignment <= y /\ y < q * Alignment + Alignment
  BY <1>1, <1>2, Division
<1>4. k \in Nat /\ BlockSize = k * Alignment
  BY <1>1
<1>5. ASSUME x <= BlockSize PROVE q * Alignment <= k * Alignment
  <2>1. q * Alignment < k * Alignment + Alignment
    BY <1>1, <1>3, <1>4, <1>5
  <2> QED BY <2>1, <1>1, <1>3, <1>4, MultiplesOrder
<1> QED BY <1>1, <1>3, <1>4, <1>5 DEF Aligned

-----------------------------------------------------------------------------
(* What a state of the pool is made of.                                    *)
BlockType == [last : Nat, failed : Nat]
PieceType == [b : Nat, from : Nat, to : Nat]
LargeType == [at : PieceType, alloc : Nat]
Handlers == FileHandlers \cup {"other", "none"}
CleanupType == [at : PieceType, handler : Handlers, fd : Nat]
HeadOf(b) == IF b = 1 THEN PoolHead ELSE DataHead

(* The small pieces of a state: each lies between the head of its block and *)
(* the place where the free part begins, apart from the others.             *)
BlocksSound(bs, c, ps) ==
    /\ bs \in Seq(BlockType) /\ c \in DOMAIN bs
    /\ \A b \in DOMAIN bs : HeadOf(b) <= bs[b].last /\ bs[b].last <= BlockSize
    /\ ps \subseteq PieceType
    /\ \A p \in ps : /\ p.b \in DOMAIN bs
                     /\ HeadOf(p.b) <= p.from /\ p.to <= bs[p.b].last
    /\ \A p, q \in ps : p # q => Apart(p, q)

StateType == [blocks : Seq(BlockType), current : Nat, large : Seq(LargeType),
              pieces : SUBSET PieceType, p : PieceType \cup {NoAlloc}]
StateSound(s) == s \in StateType /\ BlocksSound(s.blocks, s.current, s.pieces)

(* What a call that allocates leaves alone, and what it returns.           *)
Extends(s, t) ==
    /\ s.pieces \subseteq t.pieces /\ t.large = s.large
    /\ t.p # Nothing => t.p \in t.pieces

LEMMA SizesFit ==
    /\ PoolHead \in Nat /\ DataHead \in Nat /\ max \in Nat /\ BlockSize \in Nat
    /\ Aligned(DataHead) \in Nat /\ DataHead <= Aligned(DataHead)
    /\ Aligned(DataHead) + max <= BlockSize
    /\ {EntrySize, CleanupSize, FileSize} \subseteq 1 .. max
    /\ \A size \in Sizes : size \in Nat
    /\ \A b : HeadOf(b) \in Nat
    /\ PoolHead <= BlockSize /\ DataHead <= PoolHead
<1>1. DataHead \in Nat /\ BlockSize \in Nat
  BY PoolAssumption
<1>2. Aligned(DataHead) \in Nat /\ DataHead <= Aligned(DataHead)
  BY <1>1, AlignedUp
<1> QED BY <1>1, <1>2, PoolAssumption DEF max, HeadOf

(* A piece cut from a block with room.                                     *)
LEMMA CutSound ==
    ASSUME NEW s, StateSound(s), NEW size \in Nat, NEW align \in BOOLEAN,
           NEW b \in s.current .. Len(s.blocks), Room(s, b, size, align),
           NEW piece, piece = Piece(b, Start(s, b, align), size),
           NEW t, t = [s EXCEPT !.blocks[b].last = piece.to,
                                !.pieces = @ \cup {piece}, !.p = piece]
    PROVE  StateSound(t) /\ Extends(s, t)
<1>1. s \in StateType /\ BlocksSound(s.blocks, s.current, s.pieces)
  BY DEF StateSound
<1>2. b \in DOMAIN s.blocks /\ s.blocks[b] \in BlockType /\ s.blocks \in Seq(BlockType)
  BY <1>1 DEF BlocksSound
<1> DEFINE last == s.blocks[b].last
           start == Start(s, b, align)
<1>3. last \in Nat /\ HeadOf(b) <= last /\ last <= BlockSize
  BY <1>1, <1>2 DEF BlocksSound, BlockType
<1>4. start \in Nat /\ last <= start /\ start <= BlockSize
  BY <1>3, AlignedUp DEF Start
<1>5. start + size <= BlockSize
  BY <1>4, SizesFit DEF Room
<1>6. piece \in PieceType /\ piece.b = b /\ piece.from = start /\ piece.to = start + size
  BY <1>2, <1>4 DEF Piece, PieceType
<1>7. /\ t.blocks = [s.blocks EXCEPT ![b].last = piece.to] /\ t.current = s.current
      /\ t.large = s.large /\ t.pieces = s.pieces \cup {piece} /\ t.p = piece
  BY <1>1 DEF StateType
<1>8. /\ t.blocks \in Seq(BlockType) /\ DOMAIN t.blocks = DOMAIN s.blocks
      /\ t.blocks[b].last = start + size
      /\ \A c \in DOMAIN s.blocks \ {b} : t.blocks[c] = s.blocks[c]
  <2>1. piece.to \in Nat
    BY <1>6 DEF PieceType
  <2>2. PICK e \in BlockType : e = [s.blocks[b] EXCEPT !.last = piece.to]
    BY <1>2, <2>1 DEF BlockType
  <2>3. e.last = piece.to
    BY <1>2, <2>2 DEF BlockType
  <2>4. t.blocks = [s.blocks EXCEPT ![b] = e]
    BY <1>7, <2>2
  <2>5. /\ t.blocks \in Seq(BlockType) /\ DOMAIN t.blocks = DOMAIN s.blocks
        /\ t.blocks[b] = e /\ \A c \in DOMAIN s.blocks \ {b} : t.blocks[c] = s.blocks[c]
    BY <1>2, <2>4
  <2> QED BY <2>3, <2>5, <1>6
<1>9. \A c \in DOMAIN t.blocks : HeadOf(c) <= t.blocks[c].last /\ t.blocks[c].last <= BlockSize
  <2> SUFFICES ASSUME NEW c \in DOMAIN t.blocks
               PROVE  HeadOf(c) <= t.blocks[c].last /\ t.blocks[c].last <= BlockSize
    OBVIOUS
  <2>1. CASE c = b
    <3>1. start \in Nat /\ HeadOf(b) \in Nat /\ last \in Nat
      BY <1>3, <1>4, SizesFit
    <3>2. HeadOf(b) <= start + size /\ start + size <= BlockSize
      BY <3>1, <1>3, <1>4, <1>5
    <3> QED BY <2>1, <3>2, <1>8
  <2>2. CASE c # b
    BY <2>2, <1>1, <1>8 DEF BlocksSound
  <2> QED BY <2>1, <2>2
<1>10. \A p \in s.pieces : p \in PieceType /\ p.b \in DOMAIN s.blocks
                            /\ HeadOf(p.b) <= p.from /\ p.to <= s.blocks[p.b].last
  BY <1>1 DEF BlocksSound
<1>11. \A p \in t.pieces : /\ p.b \in DOMAIN t.blocks
                            /\ HeadOf(p.b) <= p.from /\ p.to <= t.blocks[p.b].last
  <2> SUFFICES ASSUME NEW p \in t.pieces
               PROVE  /\ p.b \in DOMAIN t.blocks
                      /\ HeadOf(p.b) <= p.from /\ p.to <= t.blocks[p.b].last
    OBVIOUS
  <2>1. CASE p = piece
    <3>1. start \in Nat /\ HeadOf(b) \in Nat /\ last \in Nat
      BY <1>3, <1>4, SizesFit
    <3>2. HeadOf(b) <= start /\ start + size <= start + size
      BY <3>1, <1>3, <1>4
    <3> QED BY <2>1, <3>2, <1>2, <1>6, <1>8
  <2>2. CASE p \in s.pieces /\ p.b = b
    <3>1. p.to \in Nat /\ p.to <= last
      BY <2>2, <1>10 DEF PieceType
    <3> QED BY <2>2, <3>1, <1>2, <1>3, <1>4, <1>8, <1>10
  <2>3. CASE p \in s.pieces /\ p.b # b
    BY <2>3, <1>8, <1>10
  <2> QED BY <1>7, <2>1, <2>2, <2>3
<1>12. ASSUME NEW p \in s.pieces PROVE Apart(p, piece) /\ Apart(piece, p)
  <2>1. CASE p.b = b
    <3>1. p.to \in Nat /\ p.to <= last
      BY <2>1, <1>10 DEF PieceType
    <3> QED BY <2>1, <3>1, <1>3, <1>4, <1>6 DEF Apart
  <2> QED BY <2>1, <1>6 DEF Apart
<1>13. \A p, q \in t.pieces : p # q => Apart(p, q)
  BY <1>1, <1>7, <1>12 DEF BlocksSound
<1>14. t \in StateType
  BY <1>1, <1>6, <1>7, <1>8 DEF StateType
<1>15. t.current \in DOMAIN t.blocks /\ t.pieces \subseteq PieceType
  BY <1>1, <1>6, <1>7, <1>8 DEF BlocksSound
<1> QED BY <1>7, <1>8, <1>9, <1>11, <1>13, <1>14, <1>15 DEF StateSound, BlocksSound, Extends

(* A piece at the start of a new block; the pool may begin with a later     *)
(* block than before.                                                      *)
LEMMA BlockSound ==
    ASSUME NEW s, StateSound(s), NEW size \in 0 .. max
    PROVE  StateSound(ngx_palloc_block(s, size)) /\ Extends(s, ngx_palloc_block(s, size))
<1> DEFINE from == Aligned(DataHead)
           n == Len(s.blocks) + 1
           piece == Piece(n, from, size)
           full == {b \in Passed(s) : s.blocks[b].failed > FailedLimit}
           t == ngx_palloc_block(s, size)
<1>1. s \in StateType /\ BlocksSound(s.blocks, s.current, s.pieces)
  BY DEF StateSound
<1>2. s.blocks \in Seq(BlockType) /\ n - 1 \in Nat /\ n \in Nat /\ s.current \in 1 .. n - 1
  BY <1>1 DEF BlocksSound
<1>3. from \in Nat /\ from + size \in Nat /\ from + size <= BlockSize /\ DataHead <= from
  BY SizesFit
<1>4. piece \in PieceType /\ piece.b = n /\ piece.from = from /\ piece.to = from + size
  BY <1>2, <1>3 DEF Piece, PieceType
<1>5. /\ t = [blocks |-> t.blocks, current |-> t.current, large |-> t.large,
               pieces |-> t.pieces, p |-> t.p]
      /\ t.blocks = Append(Counted(s), [last |-> piece.to, failed |-> 0])
      /\ t.current = Current(s) /\ t.large = s.large
      /\ t.pieces = s.pieces \cup {piece} /\ t.p = piece
  BY DEF ngx_palloc_block
<1>6. /\ Counted(s) \in Seq(BlockType) /\ Len(Counted(s)) = n - 1
      /\ \A b \in 1 .. n - 1 : Counted(s)[b].last = s.blocks[b].last
  <2>1. Counted(s) \in [1 .. n - 1 -> BlockType]
    <3> SUFFICES ASSUME NEW b \in 1 .. n - 1
                 PROVE  [last |-> s.blocks[b].last,
                         failed |-> IF b \in Passed(s) THEN s.blocks[b].failed + 1
                                    ELSE s.blocks[b].failed] \in BlockType
      BY <1>2 DEF Counted
    <3>1. s.blocks[b] \in BlockType
      BY <1>2
    <3> QED BY <3>1 DEF BlockType
  <2>2. \A b \in 1 .. n - 1 : Counted(s)[b].last = s.blocks[b].last
    BY <1>2 DEF Counted
  <2> QED BY <2>1, <2>2, <1>2
<1>7. /\ t.blocks \in Seq(BlockType) /\ DOMAIN t.blocks = 1 .. n
      /\ t.blocks[n].last = from + size
      /\ \A b \in 1 .. n - 1 : t.blocks[b].last = s.blocks[b].last
  <2>1. [last |-> piece.to, failed |-> 0] \in BlockType
    BY <1>3, <1>4 DEF BlockType
  <2>2. /\ t.blocks \in Seq(BlockType) /\ Len(t.blocks) = n
        /\ \A b \in 1 .. n - 1 : t.blocks[b] = Counted(s)[b]
        /\ t.blocks[n] = [last |-> piece.to, failed |-> 0]
    BY <2>1, <1>2, <1>5, <1>6, AppendProperties
  <2> QED BY <2>2, <1>4, <1>6
<1>8. Current(s) \in 1 .. n
  <2>1. full \subseteq 1 .. n - 1
    BY <1>2 DEF Passed
  <2>2. CASE full = {}
    BY <2>2, <1>2 DEF Current
  <2>3. CASE full # {}
    <3>1. Max(full) \in 1 .. n - 1
      <4> HIDE DEF full
      <4> QED BY <2>1, <2>3, <1>2, MaxIn
    <3> QED BY <2>3, <3>1, <1>2 DEF Current
  <2> QED BY <2>2, <2>3
<1> HIDE DEF t, piece, from
<1>9. \A b \in DOMAIN t.blocks : HeadOf(b) <= t.blocks[b].last /\ t.blocks[b].last <= BlockSize
  <2> SUFFICES ASSUME NEW b \in DOMAIN t.blocks
               PROVE  HeadOf(b) <= t.blocks[b].last /\ t.blocks[b].last <= BlockSize
    OBVIOUS
  <2>1. CASE b = n
    BY <2>1, <1>2, <1>3, <1>7, SizesFit DEF HeadOf
  <2>2. CASE b # n
    BY <2>2, <1>1, <1>2, <1>7 DEF BlocksSound
  <2> QED BY <2>1, <2>2
<1>10. \A p \in s.pieces : p \in PieceType /\ p.b \in 1 .. n - 1
                            /\ HeadOf(p.b) <= p.from /\ p.to <= s.blocks[p.b].last
  BY <1>1, <1>2 DEF BlocksSound
<1>11. \A p \in t.pieces : /\ p.b \in DOMAIN t.blocks
                            /\ HeadOf(p.b) <= p.from /\ p.to <= t.blocks[p.b].last
  <2> SUFFICES ASSUME NEW p \in t.pieces
               PROVE  /\ p.b \in DOMAIN t.blocks
                      /\ HeadOf(p.b) <= p.from /\ p.to <= t.blocks[p.b].last
    OBVIOUS
  <2>1. CASE p = piece
    <3>1. HeadOf(n) <= from
      BY <1>2, <1>3 DEF HeadOf
    <3>2. from + size <= from + size /\ n \in 1 .. n
      BY <1>2, <1>3
    <3> QED BY <2>1, <3>1, <3>2, <1>4, <1>7
  <2>2. CASE p \in s.pieces
    <3>1. /\ p.b \in 1 .. n - 1 /\ HeadOf(p.b) <= p.from /\ p.to <= s.blocks[p.b].last
      BY <2>2, <1>10
    <3>2. p.b \in 1 .. n /\ t.blocks[p.b].last = s.blocks[p.b].last
      BY <3>1, <1>2, <1>7
    <3> QED BY <3>1, <3>2, <1>7
  <2> QED BY <1>5, <2>1, <2>2
<1>12. \A p \in s.pieces : Apart(p, piece) /\ Apart(piece, p)
  BY <1>2, <1>4, <1>10 DEF Apart
<1>13. \A p, q \in t.pieces : p # q => Apart(p, q)
  BY <1>1, <1>5, <1>12 DEF BlocksSound
<1>14. t \in StateType
  <2>1. t.current \in Nat /\ t.pieces \in SUBSET PieceType /\ t.p \in PieceType
    BY <1>1, <1>2, <1>4, <1>5, <1>8 DEF StateType
  <2> QED BY <2>1, <1>1, <1>5, <1>7 DEF StateType
<1>15. t.current \in DOMAIN t.blocks /\ t.pieces \subseteq PieceType
  BY <1>1, <1>4, <1>5, <1>7, <1>8 DEF BlocksSound
<1>16. StateSound(t) /\ Extends(s, t)
  BY <1>5, <1>7, <1>9, <1>11, <1>13, <1>14, <1>15 DEF StateSound, BlocksSound, Extends
<1> QED BY <1>16 DEF t

LEMMA SmallSound ==
    ASSUME NEW s, StateSound(s), NEW size \in 0 .. max, NEW align \in BOOLEAN,
           NEW t \in ngx_palloc_small(s, size, align)
    PROVE  StateSound(t) /\ Extends(s, t)
<1> DEFINE with == {b \in s.current .. Len(s.blocks) : Room(s, b, size, align)}
           b == Min(with)
           piece == Piece(b, Start(s, b, align), size)
<1>1. s \in StateType /\ BlocksSound(s.blocks, s.current, s.pieces)
  BY DEF StateSound
<1>2. size \in Nat
  BY SizesFit
<1>3. CASE with # {}
  <2>1. b \in with
    <3>1. with \subseteq Nat
      BY <1>1 DEF BlocksSound
    <3> HIDE DEF with
    <3> QED BY <3>1, <1>3, MinIn
  <2>2. t = [s EXCEPT !.blocks[b].last = piece.to, !.pieces = @ \cup {piece}, !.p = piece]
    BY <1>3 DEF ngx_palloc_small
  <2>3. b \in s.current .. Len(s.blocks) /\ Room(s, b, size, align)
    BY <2>1
  <2> HIDE DEF b
  <2> QED BY <2>2, <2>3, <1>2, CutSound
<1>4. CASE with = {}
  <2>1. t = [s EXCEPT !.p = Nothing] \/ t = ngx_palloc_block(s, size)
    BY <1>4 DEF ngx_palloc_small
  <2>2. CASE t = [s EXCEPT !.p = Nothing]
    <3>1. Nothing \in PieceType
      BY DEF Nothing, PieceType, NoAlloc
    <3> QED BY <2>2, <3>1, <1>1 DEF StateType, StateSound, BlocksSound, Extends
  <2>3. CASE t = ngx_palloc_block(s, size)
    BY <2>3, BlockSound
  <2> QED BY <2>1, <2>2, <2>3
<1> QED BY <1>3, <1>4

-----------------------------------------------------------------------------
(* The inductive invariant: the blocks are sound while the pool is, every   *)
(* entry is among the pieces, and entries and what they are for correspond. *)
PoolType ==
    /\ large \in Seq(LargeType) /\ cleanup \in Seq(CleanupType)
    /\ heap \subseteq 1 .. MaxLarge /\ files \subseteq 1 .. MaxFiles
    /\ exists \in BOOLEAN /\ spoiled \in BOOLEAN

MemoryInv ==
    /\ exists => current \in DOMAIN blocks
    /\ exists /\ ~spoiled => BlocksSound(blocks, current, pieces)
    /\ ~exists => large = <<>> /\ cleanup = <<>> /\ pieces = {}
    /\ ~spoiled => /\ \A k \in DOMAIN large : large[k].at \in pieces
                   /\ \A k \in DOMAIN cleanup : cleanup[k].at \in pieces

LargeInv ==
    /\ \A id \in heap : \E k \in DOMAIN large : large[k].alloc = id
    /\ \A k \in DOMAIN large : large[k].alloc # NoAlloc => large[k].alloc \in heap
    /\ \A j, k \in DOMAIN large :
          large[j].alloc = large[k].alloc => j = k \/ large[j].alloc = NoAlloc

FileInv ==
    /\ \A fd \in files : \E k \in DOMAIN cleanup : ToClose(cleanup[k]) /\ cleanup[k].fd = fd
    /\ \A k \in DOMAIN cleanup : ToClose(cleanup[k]) => cleanup[k].fd \in files
    /\ \A j, k \in DOMAIN cleanup :
          ToClose(cleanup[j]) /\ ToClose(cleanup[k]) /\ cleanup[j].fd = cleanup[k].fd => j = k

PoolInv == PoolType /\ MemoryInv /\ LargeInv /\ FileInv

LEMMA InvSound == PoolInv => PoolSound
<1> SUFFICES ASSUME PoolInv PROVE PoolSound
  OBVIOUS
<1> USE DEF PoolInv, PoolType
<1>1. ~spoiled => \A p \in pieces : InBlock(p)
  <2> SUFFICES ASSUME ~spoiled, NEW p \in pieces PROVE InBlock(p)
    OBVIOUS
  <2>1. exists /\ BlocksSound(blocks, current, pieces)
    BY DEF MemoryInv
  <2>2. /\ p \in PieceType /\ p.b \in DOMAIN blocks /\ blocks \in Seq(BlockType)
        /\ HeadOf(p.b) <= p.from /\ p.to <= blocks[p.b].last /\ blocks[p.b].last <= BlockSize
    BY <2>1 DEF BlocksSound
  <2>3. blocks[p.b] \in BlockType
    BY <2>2
  <2>4. p.to \in Nat /\ blocks[p.b].last \in Nat
    BY <2>2, <2>3 DEF BlockType, PieceType
  <2>5. BlockSize \in Nat
    BY PoolAssumption
  <2>6. p.to <= blocks[p.b].last /\ blocks[p.b].last <= BlockSize
    BY <2>2
  <2> HIDE DEF PoolInv, PoolType
  <2>7. p.to <= BlockSize
    BY <2>4, <2>5, <2>6
  <2> QED BY <2>2, <2>7 DEF InBlock, HeadOf
<1>2. ~spoiled => \A p, q \in pieces : p # q => Apart(p, q)
  BY DEF MemoryInv, BlocksSound
<1>3. ~spoiled => Entries \subseteq pieces
  BY DEF MemoryInv, Entries, Range
<1>4. heap = Freed
  <2>1. \A id \in heap : id \in Freed
    <3> SUFFICES ASSUME NEW id \in heap PROVE id \in Freed
      OBVIOUS
    <3>1. PICK k \in DOMAIN large : large[k].alloc = id
      BY DEF LargeInv
    <3>2. id # NoAlloc
      BY DEF NoAlloc
    <3> QED BY <3>1, <3>2 DEF Freed, Range
  <2>2. \A id \in Freed : id \in heap
    <3> SUFFICES ASSUME NEW id \in Freed PROVE id \in heap
      OBVIOUS
    <3>1. PICK k \in DOMAIN large : large[k].alloc = id /\ id # NoAlloc
      BY DEF Freed, Range
    <3> QED BY <3>1 DEF LargeInv
  <2> QED BY <2>1, <2>2
<1>5. files = ClosedByHandlers
  <2>1. \A fd \in files : fd \in ClosedByHandlers
    <3> SUFFICES ASSUME NEW fd \in files PROVE fd \in ClosedByHandlers
      OBVIOUS
    <3>1. PICK k \in DOMAIN cleanup : ToClose(cleanup[k]) /\ cleanup[k].fd = fd
      BY DEF FileInv
    <3> QED BY <3>1 DEF ClosedByHandlers, Range, ToClose
  <2>2. \A fd \in ClosedByHandlers : fd \in files
    <3> SUFFICES ASSUME NEW fd \in ClosedByHandlers PROVE fd \in files
      OBVIOUS
    <3>1. PICK k \in DOMAIN cleanup : ToClose(cleanup[k]) /\ cleanup[k].fd = fd
      BY DEF ClosedByHandlers, Range, ToClose
    <3> QED BY <3>1 DEF FileInv
  <2> QED BY <2>1, <2>2
<1> QED BY <1>1, <1>2, <1>3, <1>4, <1>5 DEF MemoryInv, LargeInv, FileInv, PoolSound

LEMMA InvInit == PoolInit => PoolInv
<1> SUFFICES ASSUME PoolInit PROVE PoolInv
  OBVIOUS
<1>1. PoolType
  <2>1. exists \in BOOLEAN /\ spoiled \in BOOLEAN
    BY Zenon DEF PoolInit
  <2>2. <<>> \in Seq(LargeType) /\ <<>> \in Seq(CleanupType)
    OBVIOUS
  <2> QED BY <2>1, <2>2 DEF PoolInit, PoolType
<1>2. BlocksSound(blocks, current, pieces)
  BY SizesFit DEF PoolInit, BlocksSound, BlockType, PieceType, HeadOf
<1> QED BY <1>1, <1>2 DEF PoolInit, PoolInv, MemoryInv, LargeInv, FileInv, BlocksSound

(* A new element in front of a list.                                       *)
LEMMA InFront ==
    ASSUME NEW S, NEW q \in Seq(S), NEW x \in S
    PROVE  LET r == <<x>> \o q
           IN  /\ r \in Seq(S) /\ DOMAIN r = 1 .. Len(q) + 1 /\ r[1] = x
               /\ \A k \in DOMAIN r \ {1} : k - 1 \in DOMAIN q /\ r[k] = q[k - 1]
               /\ \A k \in DOMAIN q : k + 1 \in DOMAIN r /\ r[k + 1] = q[k]
OBVIOUS

(* An allocation in the state of the pool.                                 *)
LEMMA StateIsSound ==
    ASSUME PoolInv, exists, ~spoiled PROVE StateSound(State)
BY DEF PoolInv, PoolType, MemoryInv, BlocksSound, StateSound, StateType, State

LEMMA StepSound ==
    ASSUME NEW s, StateSound(s), Extends(State, s)
    PROVE  Step(s) => BlocksSound(blocks', current', pieces') /\ pieces \subseteq pieces'
                      /\ large' = large
BY DEF StateSound, Extends, Step, State

(* A large piece that is not in use.                                       *)
LEMMA FreshIsFree ==
    ASSUME PoolInv, Cardinality(heap) < MaxLarge
    PROVE  Fresh \in 1 .. MaxLarge /\ Fresh \notin heap
<1>1. MaxLarge \in Nat /\ heap \subseteq 1 .. MaxLarge
  BY PoolAssumption DEF PoolInv, PoolType
<1>2. 1 .. MaxLarge \ heap # {}
  <2>1. Cardinality(1 .. MaxLarge) = MaxLarge
    BY <1>1, FS_Interval
  <2>2. heap # 1 .. MaxLarge
    BY <1>1, <2>1
  <2> QED BY <1>1, <2>2
<1> DEFINE S == 1 .. MaxLarge \ heap
<1>3. S \subseteq Nat /\ S # {}
  BY <1>1, <1>2
<1>4. Min(S) \in S
  <2> HIDE DEF S
  <2> QED BY <1>3, MinIn
<1> QED BY <1>4 DEF Fresh

(* The memory after a step in which the pool stays as it is.               *)
LEMMA MemoryKept ==
    ASSUME PoolInv, exists, ~spoiled,
           BlocksSound(blocks', current', pieces'), pieces \subseteq pieces',
           exists' = exists, spoiled' = spoiled,
           \A k \in DOMAIN large' : large'[k].at \in pieces',
           \A k \in DOMAIN cleanup' : cleanup'[k].at \in pieces'
    PROVE  MemoryInv'
BY DEF MemoryInv, BlocksSound

(* The entries, large pieces and files that a step leaves as they are.      *)
LEMMA LargeKept ==
    ASSUME PoolInv, large' = large, heap' = heap PROVE LargeInv'
BY DEF PoolInv, LargeInv

LEMMA FilesKept ==
    ASSUME PoolInv, cleanup' = cleanup, files' = files PROVE FileInv'
BY DEF PoolInv, FileInv

(* An allocation that makes no entry.                                      *)
LEMMA AllocKeeps ==
    ASSUME PoolInv, exists, ~spoiled, NEW s, StateSound(s), Extends(State, s), Step(s),
           UNCHANGED <<cleanup, files, heap, exists, spoiled>>
    PROVE  PoolInv'
<1>1. /\ BlocksSound(blocks', current', pieces') /\ pieces \subseteq pieces'
      /\ large' = large
  BY StepSound
<1>2. /\ \A k \in DOMAIN large' : large'[k].at \in pieces'
      /\ \A k \in DOMAIN cleanup' : cleanup'[k].at \in pieces'
  BY <1>1 DEF PoolInv, MemoryInv
<1>3. PoolType'
  BY <1>1 DEF PoolInv, PoolType
<1> QED BY <1>1, <1>2, <1>3, MemoryKept, LargeKept, FilesKept DEF PoolInv

LEMMA PallocKeeps ==
    ASSUME PoolInv, ~spoiled, NEW size \in Sizes, NEW align \in BOOLEAN,
           ngx_palloc(size, align)
    PROVE  PoolInv'
<1>1. exists /\ size \in 0 .. max
  BY SizesFit DEF ngx_palloc
<1>2. PICK s \in ngx_palloc_small(State, size, align) : Step(s)
  BY DEF ngx_palloc
<1>3. StateSound(s) /\ Extends(State, s)
  BY <1>1, StateIsSound, SmallSound
<1> QED BY <1>1, <1>2, <1>3, AllocKeeps DEF ngx_palloc

(* A large piece that is entered after an allocation: an entry in front of   *)
(* the others, or one whose piece was given back.                          *)
EnteredIn(s) ==
    /\ BlocksSound(blocks', current', pieces') /\ s.pieces \subseteq pieces'
    /\ large' \in Seq(LargeType) /\ heap' \subseteq 1 .. MaxLarge
    /\ \A k \in DOMAIN large' : large'[k].at \in pieces'
    /\ LargeInv'

LEMMA NewEntryKeeps ==
    ASSUME PoolInv, exists, ~spoiled, Cardinality(heap) < MaxLarge,
           NEW r, StateSound(r), r.large = large, pieces \subseteq r.pieces, NewEntry(r)
    PROVE  EnteredIn(r)
<1>1. PICK s \in ngx_palloc_small(r, EntrySize, TRUE) :
          IF s.p = Nothing THEN Step(s) /\ UNCHANGED heap
          ELSE Step(Enter(s, Fresh)) /\ heap' = heap \cup {Fresh}
  BY DEF NewEntry
<1>2. StateSound(s) /\ Extends(r, s)
  <2>1. EntrySize \in 0 .. max
    BY SizesFit
  <2> QED BY <2>1, SmallSound
<1>3. /\ s.large = large /\ pieces \subseteq s.pieces
      /\ BlocksSound(s.blocks, s.current, s.pieces)
  BY <1>2 DEF Extends, StateSound
<1>4. CASE s.p = Nothing
  <2>1. /\ blocks' = s.blocks /\ current' = s.current /\ pieces' = s.pieces
        /\ large' = large /\ heap' = heap
    BY <1>1, <1>3, <1>4 DEF Step
  <2>2. \A k \in DOMAIN large' : large'[k].at \in pieces'
    BY <1>3, <2>1 DEF PoolInv, MemoryInv
  <2>3. large' \in Seq(LargeType) /\ heap' \subseteq 1 .. MaxLarge
    BY <2>1 DEF PoolInv, PoolType
  <2> QED BY <1>2, <1>3, <2>1, <2>2, <2>3, LargeKept DEF EnteredIn, Extends
<1>5. CASE s.p # Nothing
  <2> DEFINE e == [at |-> s.p, alloc |-> Fresh]
  <2>1. Fresh \in 1 .. MaxLarge /\ Fresh \notin heap /\ Fresh # NoAlloc /\ Fresh \in Nat
    BY FreshIsFree, PoolAssumption DEF NoAlloc
  <2>2. /\ blocks' = s.blocks /\ current' = s.current /\ pieces' = s.pieces
        /\ large' = <<e>> \o large /\ heap' = heap \cup {Fresh}
    BY <1>1, <1>2, <1>3, <1>5 DEF Step, Enter, StateSound, StateType
  <2>3. /\ BlocksSound(blocks', current', pieces') /\ pieces \subseteq pieces'
        /\ s.p \in pieces' /\ r.pieces \subseteq pieces'
    BY <1>2, <1>3, <1>5, <2>2 DEF Extends
  <2>4. e \in LargeType /\ large \in Seq(LargeType)
    BY <2>1, <2>3 DEF LargeType, BlocksSound, PoolInv, PoolType
  <2>5. /\ large' \in Seq(LargeType) /\ DOMAIN large' = 1 .. Len(large) + 1 /\ large'[1] = e
        /\ \A k \in DOMAIN large' \ {1} : k - 1 \in DOMAIN large /\ large'[k] = large[k - 1]
        /\ \A k \in DOMAIN large : k + 1 \in DOMAIN large' /\ large'[k + 1] = large[k]
    <3> HIDE DEF e
    <3> QED BY <2>2, <2>4, InFront
  <2>6. e.alloc = Fresh /\ e.at = s.p
    OBVIOUS
  <2> HIDE DEF e
  <2>7. \A k \in DOMAIN large' : large'[k].at \in pieces'
    <3>1. \A k \in DOMAIN large : large[k].at \in pieces'
      BY <2>3 DEF PoolInv, MemoryInv
    <3> QED BY <3>1, <2>3, <2>5, <2>6
  <2>8. heap' \subseteq 1 .. MaxLarge
    BY <2>1, <2>2 DEF PoolInv, PoolType
  <2>9. LargeInv'
    <3>1. \A id \in heap' : \E k \in DOMAIN large' : large'[k].alloc = id
      <4> SUFFICES ASSUME NEW id \in heap' PROVE \E k \in DOMAIN large' : large'[k].alloc = id
        OBVIOUS
      <4>1. CASE id = Fresh
        <5>1. 1 \in DOMAIN large'
          BY <2>4, <2>5
        <5> QED BY <4>1, <5>1, <2>5, <2>6
      <4>2. CASE id \in heap
        BY <4>2, <2>5 DEF PoolInv, LargeInv
      <4> QED BY <4>1, <4>2, <2>2
    <3>2. \A k \in DOMAIN large' : large'[k].alloc # NoAlloc => large'[k].alloc \in heap'
      BY <2>2, <2>5, <2>6 DEF PoolInv, LargeInv
    <3>3. \A k \in DOMAIN large' \ {1} : large'[k].alloc # Fresh
      BY <2>1, <2>5 DEF PoolInv, LargeInv
    <3>4. ASSUME NEW j \in DOMAIN large', NEW k \in DOMAIN large',
                 large'[j].alloc = large'[k].alloc, large'[j].alloc # NoAlloc
          PROVE  j = k
      <4>1. CASE j = 1 \/ k = 1
        BY <4>1, <3>3, <3>4, <2>5, <2>6
      <4>2. CASE j # 1 /\ k # 1
        <5>1. /\ j - 1 \in DOMAIN large /\ large'[j] = large[j - 1]
              /\ k - 1 \in DOMAIN large /\ large'[k] = large[k - 1]
          BY <4>2, <2>5
        <5>2. j - 1 = k - 1
          BY <3>4, <5>1 DEF PoolInv, LargeInv
        <5>3. j \in Int /\ k \in Int
          BY <2>4, <2>5
        <5> QED BY <5>2, <5>3
      <4> QED BY <4>1, <4>2
    <3> QED BY <3>1, <3>2, <3>4 DEF LargeInv
  <2> QED BY <2>3, <2>5, <2>7, <2>8, <2>9 DEF EnteredIn
<1> QED BY <1>4, <1>5

(* An entry that changes what it is for.                                   *)
LEMMA EntryChanged ==
    ASSUME NEW q \in Seq(LargeType), NEW i \in DOMAIN q, NEW a \in Nat,
           NEW r, r = [q EXCEPT ![i].alloc = a]
    PROVE  /\ r \in Seq(LargeType) /\ DOMAIN r = DOMAIN q /\ r[i].alloc = a
           /\ \A k \in DOMAIN q \ {i} : r[k] = q[k]
           /\ \A k \in DOMAIN q : r[k].at = q[k].at
<1> DEFINE e == [q[i] EXCEPT !.alloc = a]
<1>1. q[i] \in LargeType
  OBVIOUS
<1>2. e \in LargeType /\ e.alloc = a /\ e.at = q[i].at
  BY <1>1 DEF LargeType
<1>3. r = [q EXCEPT ![i] = e]
  OBVIOUS
<1> HIDE DEF e
<1>4. /\ r \in Seq(LargeType) /\ DOMAIN r = DOMAIN q /\ r[i] = e
      /\ \A k \in DOMAIN q \ {i} : r[k] = q[k]
  BY <1>2, <1>3
<1> QED BY <1>2, <1>4

LEMMA LargePieceKeeps ==
    ASSUME PoolInv, exists, ~spoiled,
           NEW s, StateSound(s), s.large = large, pieces \subseteq s.pieces, LargePiece(s)
    PROVE  EnteredIn(s)
<1>1. Cardinality(heap) < MaxLarge
  BY DEF LargePiece
<1>2. CASE Reuse = {}
  BY <1>1, <1>2, NewEntryKeeps DEF LargePiece
<1>3. CASE Reuse # {}
  <2> DEFINE i == Min(Reuse)
  <2>1. /\ large \in Seq(LargeType) /\ s.large = large /\ pieces \subseteq s.pieces
        /\ s \in StateType /\ BlocksSound(s.blocks, s.current, s.pieces)
    BY DEF PoolInv, PoolType, StateSound
  <2>2. i \in DOMAIN large /\ large[i].alloc = NoAlloc
    <3>1. Reuse \subseteq Nat
      BY <2>1 DEF Reuse, Unused
    <3>2. Min(Reuse) \in Reuse
      BY <1>3, <3>1, MinIn
    <3> QED BY <3>2 DEF Reuse, Unused
  <2>3. /\ large' = [large EXCEPT ![i].alloc = Fresh] /\ heap' = heap \cup {Fresh}
        /\ blocks' = s.blocks /\ current' = s.current /\ pieces' = s.pieces
    <3>1. Step([s EXCEPT !.large[i].alloc = Fresh]) /\ heap' = heap \cup {Fresh}
      BY <1>3 DEF LargePiece
    <3> HIDE DEF i
    <3> QED BY <3>1, <2>1 DEF Step, StateType
  <2> HIDE DEF i
  <2>4. Fresh \in 1 .. MaxLarge /\ Fresh \notin heap /\ Fresh # NoAlloc /\ Fresh \in Nat
    BY <1>1, FreshIsFree, PoolAssumption DEF NoAlloc
  <2>5. /\ large' \in Seq(LargeType) /\ DOMAIN large' = DOMAIN large
        /\ large'[i].alloc = Fresh
        /\ \A k \in DOMAIN large \ {i} : large'[k] = large[k]
        /\ \A k \in DOMAIN large : large'[k].at = large[k].at
    <3>1. PICK a \in Nat : a = Fresh
      BY <2>4
    <3> DEFINE r == large'
    <3>2. r = [large EXCEPT ![i].alloc = a]
      BY <2>3, <3>1
    <3> HIDE DEF r
    <3>3. /\ r \in Seq(LargeType) /\ DOMAIN r = DOMAIN large /\ r[i].alloc = a
          /\ \A k \in DOMAIN large \ {i} : r[k] = large[k]
          /\ \A k \in DOMAIN large : r[k].at = large[k].at
      BY <2>1, <2>2, <3>2, EntryChanged
    <3> QED BY <3>1, <3>3 DEF r
  <2>6. \A k \in DOMAIN large' : large'[k].at \in pieces'
    BY <2>1, <2>3, <2>5 DEF PoolInv, MemoryInv
  <2>7. heap' \subseteq 1 .. MaxLarge
    BY <2>3, <2>4 DEF PoolInv, PoolType
  <2>8. LargeInv'
    <3>1. \A id \in heap' : \E k \in DOMAIN large' : large'[k].alloc = id
      <4> SUFFICES ASSUME NEW id \in heap' PROVE \E k \in DOMAIN large' : large'[k].alloc = id
        OBVIOUS
      <4>1. CASE id = Fresh
        BY <4>1, <2>2, <2>5
      <4>2. CASE id \in heap
        <5>1. PICK k \in DOMAIN large : large[k].alloc = id
          BY <4>2 DEF PoolInv, LargeInv
        <5>2. id # NoAlloc
          BY <4>2 DEF NoAlloc, PoolInv, PoolType
        <5> QED BY <5>1, <5>2, <2>2, <2>5
      <4> QED BY <4>1, <4>2, <2>3
    <3>2. \A k \in DOMAIN large' : large'[k].alloc # NoAlloc => large'[k].alloc \in heap'
      BY <2>3, <2>5 DEF PoolInv, LargeInv
    <3>3. \A k \in DOMAIN large \ {i} : large'[k].alloc # Fresh
      BY <2>4, <2>5 DEF PoolInv, LargeInv
    <3>4. \A j, k \in DOMAIN large' :
              large'[j].alloc = large'[k].alloc => j = k \/ large'[j].alloc = NoAlloc
      BY <2>5, <3>3 DEF PoolInv, LargeInv
    <3> QED BY <3>1, <3>2, <3>4 DEF LargeInv
  <2> QED BY <2>1, <2>3, <2>5, <2>6, <2>7, <2>8 DEF EnteredIn
<1> QED BY <1>2, <1>3

(* A large piece for the caller.                                           *)
LEMMA Entered ==
    ASSUME PoolInv, exists, ~spoiled, EnteredIn(State),
           UNCHANGED <<cleanup, files, exists, spoiled>>
    PROVE  PoolInv'
<1>1. /\ BlocksSound(blocks', current', pieces') /\ pieces \subseteq pieces'
      /\ \A k \in DOMAIN large' : large'[k].at \in pieces'
  BY DEF EnteredIn, State
<1>2. \A k \in DOMAIN cleanup' : cleanup'[k].at \in pieces'
  BY <1>1 DEF PoolInv, MemoryInv
<1>3. MemoryInv'
  BY <1>1, <1>2, MemoryKept
<1> QED BY <1>3, FilesKept DEF EnteredIn, PoolInv, PoolType

LEMMA LargeKeeps ==
    ASSUME PoolInv, ~spoiled, ngx_palloc_large \/ ngx_pmemalign PROVE PoolInv'
<1>1. exists /\ UNCHANGED <<cleanup, files, exists, spoiled>>
  BY DEF ngx_palloc_large, ngx_pmemalign
<1>2. StateSound(State) /\ State.large = large /\ State.pieces = pieces
  BY <1>1, StateIsSound DEF State
<1>3. EnteredIn(State)
  BY <1>1, <1>2, LargePieceKeeps, NewEntryKeeps DEF ngx_palloc_large, ngx_pmemalign
<1> QED BY <1>1, <1>3, Entered

(* A large piece is given back: its entry, the only one, keeps its place.   *)
LEMMA PfreeKeeps ==
    ASSUME PoolInv, ~spoiled, NEW id \in heap, ngx_pfree(id) PROVE PoolInv'
<1> DEFINE K == {j \in DOMAIN large : large[j].alloc = id}
           k == Min(K)
<1>1. /\ exists /\ large' = [large EXCEPT ![k].alloc = NoAlloc] /\ heap' = heap \ {id}
      /\ UNCHANGED <<blocks, current, cleanup, files, pieces, exists, spoiled>>
  BY DEF ngx_pfree
<1>2. large \in Seq(LargeType)
  BY DEF PoolInv, PoolType
<1>3. k \in DOMAIN large /\ large[k].alloc = id
  <2>1. K \subseteq Nat /\ K # {}
    BY <1>2 DEF PoolInv, LargeInv
  <2>2. Min(K) \in K
    <3> HIDE DEF K
    <3> QED BY <2>1, MinIn
  <2> QED BY <2>2
<1> HIDE DEF k
<1>4. /\ large' \in Seq(LargeType) /\ DOMAIN large' = DOMAIN large
      /\ large'[k].alloc = NoAlloc
      /\ \A j \in DOMAIN large \ {k} : large'[j] = large[j]
      /\ \A j \in DOMAIN large : large'[j].at = large[j].at
  <2>1. NoAlloc \in Nat
    BY DEF NoAlloc
  <2>2. large' = [large EXCEPT ![k].alloc = NoAlloc]
    BY <1>1
  <2> DEFINE r == large'
  <2>3. r = [large EXCEPT ![k].alloc = NoAlloc]
    BY <2>2
  <2> HIDE DEF r
  <2>4. /\ r \in Seq(LargeType) /\ DOMAIN r = DOMAIN large /\ r[k].alloc = NoAlloc
        /\ \A j \in DOMAIN large \ {k} : r[j] = large[j]
        /\ \A j \in DOMAIN large : r[j].at = large[j].at
    BY <1>2, <1>3, <2>1, <2>3, EntryChanged
  <2> QED BY <2>4 DEF r
<1>5. id # NoAlloc
  BY DEF NoAlloc, PoolInv, PoolType
<1>6. \A j \in DOMAIN large \ {k} : large[j].alloc # id
  BY <1>3, <1>5 DEF PoolInv, LargeInv
<1>7. /\ \A j \in DOMAIN large' : large'[j].at \in pieces'
      /\ \A j \in DOMAIN cleanup' : cleanup'[j].at \in pieces'
  BY <1>1, <1>4 DEF PoolInv, MemoryInv
<1>8. PoolType'
  BY <1>1, <1>4 DEF PoolInv, PoolType
<1>9. LargeInv'
  <2>1. \A i \in heap' : \E j \in DOMAIN large' : large'[j].alloc = i
    <3> SUFFICES ASSUME NEW i \in heap' PROVE \E j \in DOMAIN large' : large'[j].alloc = i
      OBVIOUS
    <3>1. i \in heap /\ i # id
      BY <1>1
    <3>2. PICK j \in DOMAIN large : large[j].alloc = i
      BY <3>1 DEF PoolInv, LargeInv
    <3> QED BY <3>1, <3>2, <1>3, <1>4
  <2>2. \A j \in DOMAIN large' : large'[j].alloc # NoAlloc => large'[j].alloc \in heap'
    BY <1>1, <1>4, <1>6 DEF PoolInv, LargeInv
  <2>3. \A j, l \in DOMAIN large' :
            large'[j].alloc = large'[l].alloc => j = l \/ large'[j].alloc = NoAlloc
    BY <1>4 DEF PoolInv, LargeInv
  <2> QED BY <2>1, <2>2, <2>3 DEF LargeInv
<1>10. BlocksSound(blocks', current', pieces')
  BY <1>1 DEF PoolInv, MemoryInv
<1> QED BY <1>1, <1>7, <1>8, <1>9, <1>10, MemoryKept, FilesKept DEF PoolInv

(* The entries for files: a new one in front, for a file just opened.      *)
LEMMA NewFileEntry ==
    ASSUME PoolInv, NEW c \in CleanupType, cleanup' = <<c>> \o cleanup,
           files' = files \cup ({c.fd} \ {None}),
           IF ToClose(c) THEN c.fd \in 1 .. MaxFiles \ files ELSE c.fd = None
    PROVE  FileInv' /\ cleanup' \in Seq(CleanupType) /\ files' \subseteq 1 .. MaxFiles
<1>1. cleanup \in Seq(CleanupType) /\ files \subseteq 1 .. MaxFiles
  BY DEF PoolInv, PoolType
<1>2. /\ cleanup' \in Seq(CleanupType) /\ DOMAIN cleanup' = 1 .. Len(cleanup) + 1
      /\ cleanup'[1] = c
      /\ \A k \in DOMAIN cleanup' \ {1} : k - 1 \in DOMAIN cleanup /\ cleanup'[k] = cleanup[k - 1]
      /\ \A k \in DOMAIN cleanup : k + 1 \in DOMAIN cleanup' /\ cleanup'[k + 1] = cleanup[k]
  BY <1>1, InFront
<1>3. MaxFiles \in Nat
  BY PoolAssumption
<1>4. files' = IF ToClose(c) THEN files \cup {c.fd} ELSE files
  BY <1>3 DEF None
<1>5. \A fd \in files' :
          \E k \in DOMAIN cleanup' : ToClose(cleanup'[k]) /\ cleanup'[k].fd = fd
  <2> SUFFICES ASSUME NEW fd \in files'
               PROVE  \E k \in DOMAIN cleanup' : ToClose(cleanup'[k]) /\ cleanup'[k].fd = fd
    OBVIOUS
  <2>1. CASE fd \in files
    <3>1. PICK k \in DOMAIN cleanup : ToClose(cleanup[k]) /\ cleanup[k].fd = fd
      BY <2>1 DEF PoolInv, FileInv
    <3> QED BY <3>1, <1>2 DEF ToClose
  <2>2. CASE fd \notin files
    <3>1. ToClose(c) /\ fd = c.fd
      BY <2>2, <1>4
    <3>2. 1 \in DOMAIN cleanup'
      BY <1>1, <1>2
    <3> QED BY <3>1, <3>2, <1>2
  <2> QED BY <2>1, <2>2
<1>6. \A k \in DOMAIN cleanup' : ToClose(cleanup'[k]) => cleanup'[k].fd \in files'
  BY <1>2, <1>4 DEF PoolInv, FileInv
<1>7. ASSUME NEW j \in DOMAIN cleanup', NEW k \in DOMAIN cleanup',
             ToClose(cleanup'[j]), ToClose(cleanup'[k]), cleanup'[j].fd = cleanup'[k].fd
      PROVE  j = k
  <2>1. \A i \in DOMAIN cleanup' \ {1} : ToClose(cleanup'[i]) => cleanup'[i].fd \in files
    BY <1>2 DEF PoolInv, FileInv
  <2>2. CASE j = 1 \/ k = 1
    BY <2>1, <2>2, <1>2, <1>7
  <2>3. CASE j # 1 /\ k # 1
    <3>1. /\ j - 1 \in DOMAIN cleanup /\ cleanup'[j] = cleanup[j - 1]
          /\ k - 1 \in DOMAIN cleanup /\ cleanup'[k] = cleanup[k - 1]
      BY <2>3, <1>2
    <3>2. j - 1 = k - 1
      BY <3>1, <1>7 DEF PoolInv, FileInv
    <3>3. j \in Int /\ k \in Int
      BY <1>1, <1>2
    <3> QED BY <3>2, <3>3
  <2> QED BY <2>2, <2>3
<1>8. FileInv'
  BY <1>5, <1>6, <1>7 DEF FileInv, ToClose
<1> QED BY <1>2, <1>3, <1>4, <1>8, <1>1

LEMMA CleanupKeeps ==
    ASSUME PoolInv, ~spoiled, NEW size \in 0 .. max, NEW handler \in Handlers,
           NEW fd \in Nat, ngx_pool_cleanup_add(size, handler, fd),
           IF handler \in FileHandlers THEN fd \in 1 .. MaxFiles \ files ELSE fd = None
    PROVE  PoolInv'
<1>1. exists /\ UNCHANGED <<heap, exists, spoiled>>
  BY DEF ngx_pool_cleanup_add
<1>2. PICK s \in ngx_palloc_small(State, CleanupSize, TRUE) :
        \/ s.p = Nothing /\ Step(s) /\ UNCHANGED <<cleanup, files>>
        \/ /\ s.p # Nothing
           /\ \E t \in IF size = 0 THEN {s} ELSE ngx_palloc_small(s, size, TRUE) :
                /\ Step(t)
                /\ IF t.p = Nothing THEN UNCHANGED <<cleanup, files>>
                   ELSE /\ cleanup' = <<Entry(s.p, handler, fd)>> \o cleanup
                        /\ files' = files \cup ({fd} \ {None})
  BY DEF ngx_pool_cleanup_add
<1>3. StateSound(s) /\ Extends(State, s)
  <2>1. CleanupSize \in 0 .. max
    BY SizesFit
  <2> QED BY <2>1, <1>1, StateIsSound, SmallSound
<1>4. CASE s.p = Nothing
  BY <1>1, <1>2, <1>3, <1>4, AllocKeeps
<1>5. CASE s.p # Nothing
  <2>1. PICK t \in IF size = 0 THEN {s} ELSE ngx_palloc_small(s, size, TRUE) :
                /\ Step(t)
                /\ IF t.p = Nothing THEN UNCHANGED <<cleanup, files>>
                   ELSE /\ cleanup' = <<Entry(s.p, handler, fd)>> \o cleanup
                        /\ files' = files \cup ({fd} \ {None})
    BY <1>2, <1>5
  <2>2. StateSound(t) /\ Extends(State, t) /\ s.p \in t.pieces
    <3>1. CASE size = 0
      BY <3>1, <2>1, <1>3, <1>5 DEF Extends
    <3>2. CASE size # 0
      <4>1. StateSound(t) /\ Extends(s, t)
        BY <3>2, <2>1, <1>3, SmallSound
      <4> QED BY <4>1, <1>3, <1>5 DEF Extends
    <3> QED BY <3>1, <3>2
  <2>3. CASE t.p = Nothing
    BY <2>1, <2>2, <2>3, <1>1, AllocKeeps
  <2>4. CASE t.p # Nothing
    <3> DEFINE c == Entry(s.p, handler, fd)
    <3>1. /\ BlocksSound(blocks', current', pieces') /\ pieces \subseteq pieces'
          /\ large' = large /\ pieces' = t.pieces
      BY <2>1, <2>2, StepSound DEF Step
    <3>2. s.p \in pieces' /\ s.p \in PieceType
      BY <2>2, <3>1 DEF BlocksSound
    <3>3. c \in CleanupType /\ c.at = s.p /\ c.handler = handler /\ c.fd = fd
      BY <3>2 DEF Entry, CleanupType
    <3>4. cleanup' = <<c>> \o cleanup /\ files' = files \cup ({c.fd} \ {None})
      BY <2>1, <2>4, <3>3
    <3> HIDE DEF c
    <3>5. IF ToClose(c) THEN c.fd \in 1 .. MaxFiles \ files ELSE c.fd = None
      BY <3>3 DEF ToClose
    <3>6. FileInv' /\ cleanup' \in Seq(CleanupType) /\ files' \subseteq 1 .. MaxFiles
      BY <3>3, <3>4, <3>5, NewFileEntry
    <3>7. PoolType'
      BY <1>1, <3>1, <3>6 DEF PoolInv, PoolType
    <3>8. \A k \in DOMAIN cleanup' : cleanup'[k].at \in pieces'
      <4>1. cleanup \in Seq(CleanupType)
        BY DEF PoolInv, PoolType
      <4>2. /\ cleanup'[1] = c
            /\ \A k \in DOMAIN cleanup' \ {1} :
                  k - 1 \in DOMAIN cleanup /\ cleanup'[k] = cleanup[k - 1]
        BY <3>3, <3>4, <4>1, InFront
      <4> QED BY <4>2, <3>1, <3>2, <3>3 DEF PoolInv, MemoryInv
    <3>9. \A k \in DOMAIN large' : large'[k].at \in pieces'
      BY <3>1 DEF PoolInv, MemoryInv
    <3> QED BY <1>1, <3>1, <3>6, <3>7, <3>8, <3>9, MemoryKept, LargeKept DEF PoolInv
  <2> QED BY <2>3, <2>4
<1> QED BY <1>4, <1>5

(* An entry whose data is a large piece.                                   *)
LEMMA CleanupLargeKeeps ==
    ASSUME PoolInv, ~spoiled, ngx_pool_cleanup_add_large PROVE PoolInv'
<1>1. exists /\ UNCHANGED <<files, exists, spoiled>>
  BY DEF ngx_pool_cleanup_add_large
<1>2. PICK s \in ngx_palloc_small(State, CleanupSize, TRUE) :
        \/ Step(s) /\ UNCHANGED <<cleanup, heap>>
        \/ /\ s.p # Nothing /\ LargePiece(s)
           /\ cleanup' = IF heap' = heap THEN cleanup
                         ELSE <<Entry(s.p, "other", None)>> \o cleanup
  BY DEF ngx_pool_cleanup_add_large
<1>3. StateSound(s) /\ Extends(State, s)
  <2>1. CleanupSize \in 0 .. max
    BY SizesFit
  <2> QED BY <2>1, <1>1, StateIsSound, SmallSound
<1>4. CASE Step(s) /\ UNCHANGED <<cleanup, heap>>
  BY <1>1, <1>3, <1>4, AllocKeeps
<1>5. CASE s.p # Nothing /\ LargePiece(s)
           /\ cleanup' = IF heap' = heap THEN cleanup
                         ELSE <<Entry(s.p, "other", None)>> \o cleanup
  <2> DEFINE c == Entry(s.p, "other", None)
  <2>1. EnteredIn(s)
    <3>1. s.large = large /\ pieces \subseteq s.pieces
      BY <1>3 DEF Extends, State
    <3> QED BY <3>1, <1>1, <1>3, <1>5, LargePieceKeeps
  <2>2. /\ BlocksSound(blocks', current', pieces') /\ pieces \subseteq pieces'
        /\ \A k \in DOMAIN large' : large'[k].at \in pieces'
        /\ s.p \in pieces' /\ s.p \in PieceType
    BY <1>3, <1>5, <2>1 DEF EnteredIn, Extends, State, BlocksSound
  <2>3. c \in CleanupType /\ c.at = s.p /\ c.fd = None /\ ~ToClose(c)
    BY <2>2 DEF Entry, CleanupType, Handlers, FileHandlers, ToClose, None
  <2>4. cleanup' = cleanup \/ cleanup' = <<c>> \o cleanup
    BY <1>5
  <2> HIDE DEF c
  <2>5. FileInv' /\ cleanup' \in Seq(CleanupType) /\ files' \subseteq 1 .. MaxFiles
    <3>1. CASE cleanup' = cleanup
      BY <3>1, <1>1, FilesKept DEF PoolInv, PoolType
    <3>2. CASE cleanup' = <<c>> \o cleanup
      <4>1. files' = files \cup ({c.fd} \ {None})
        BY <1>1, <2>3
      <4> QED BY <3>2, <4>1, <2>3, NewFileEntry
    <3> QED BY <2>4, <3>1, <3>2
  <2>6. \A k \in DOMAIN cleanup' : cleanup'[k].at \in pieces'
    <3>1. \A k \in DOMAIN cleanup : cleanup[k].at \in pieces'
      BY <1>1, <2>2 DEF PoolInv, MemoryInv
    <3>2. CASE cleanup' = <<c>> \o cleanup
      <4>1. cleanup \in Seq(CleanupType)
        BY DEF PoolInv, PoolType
      <4>2. /\ cleanup'[1] = c
            /\ \A k \in DOMAIN cleanup' \ {1} :
                  k - 1 \in DOMAIN cleanup /\ cleanup'[k] = cleanup[k - 1]
        BY <2>3, <3>2, <4>1, InFront
      <4> QED BY <4>2, <3>1, <2>2, <2>3
    <3> QED BY <2>4, <3>1, <3>2
  <2>7. MemoryInv'
    BY <1>1, <2>2, <2>6, MemoryKept
  <2> QED BY <1>1, <2>1, <2>5, <2>7 DEF EnteredIn, PoolInv, PoolType
<1> QED BY <1>2, <1>4, <1>5

LEMMA AddCleanupKeeps ==
    ASSUME PoolInv, ~spoiled, AddCleanup PROVE PoolInv'
<1>1. CASE \E size \in {0} \cup Sizes : ngx_pool_cleanup_add(size, "other", None)
  <2>1. PICK size \in {0} \cup Sizes : ngx_pool_cleanup_add(size, "other", None)
    BY <1>1
  <2>2. size \in 0 .. max
    BY <2>1, SizesFit DEF ngx_pool_cleanup_add
  <2>3. "other" \notin FileHandlers /\ "other" \in Handlers /\ None \in Nat
    BY DEF FileHandlers, Handlers, None
  <2> QED BY <2>1, <2>2, <2>3, CleanupKeeps
<1>2. CASE \E handler \in FileHandlers, fd \in 1 .. MaxFiles :
               Opens(fd) /\ ngx_pool_cleanup_add(FileSize, handler, fd)
  <2>1. PICK handler \in FileHandlers, fd \in 1 .. MaxFiles :
               Opens(fd) /\ ngx_pool_cleanup_add(FileSize, handler, fd)
    BY <1>2
  <2>2. handler \in Handlers /\ fd \in Nat /\ fd \in 1 .. MaxFiles \ files
    BY <2>1, PoolAssumption DEF Handlers, Opens
  <2>3. FileSize \in 0 .. max
    BY SizesFit
  <2> QED BY <2>1, <2>2, <2>3, CleanupKeeps
<1>3. CASE ngx_pool_cleanup_add_large
  BY <1>3, CleanupLargeKeeps
<1> QED BY <1>1, <1>2, <1>3 DEF AddCleanup

(* A file closed early: its entry, the only one, has no handler.           *)
LEMMA RunCleanupKeeps ==
    ASSUME PoolInv, ~spoiled, NEW fd \in files, ngx_pool_run_cleanup_file(fd)
    PROVE  PoolInv'
<1>1. /\ exists /\ files' = files \ {fd}
      /\ UNCHANGED <<blocks, current, large, exists, heap, pieces, spoiled>>
  BY DEF ngx_pool_run_cleanup_file
<1>2. PICK k \in DOMAIN cleanup :
          For(cleanup[k], fd) /\ cleanup' = [cleanup EXCEPT ![k].handler = "none"]
  BY DEF ngx_pool_run_cleanup_file
<1>3. cleanup \in Seq(CleanupType) /\ files \subseteq 1 .. MaxFiles
  BY DEF PoolInv, PoolType
<1>4. ToClose(cleanup[k]) /\ cleanup[k].fd = fd
  BY <1>2 DEF For, ToClose, FileHandlers
<1> DEFINE e == [cleanup[k] EXCEPT !.handler = "none"]
<1>5. e \in CleanupType /\ ~ToClose(e) /\ e.at = cleanup[k].at
  <2>1. cleanup[k] \in CleanupType
    BY <1>3
  <2> QED BY <2>1 DEF CleanupType, Handlers, ToClose, FileHandlers
<1>6. cleanup' = [cleanup EXCEPT ![k] = e]
  BY <1>2
<1> HIDE DEF e
<1>7. /\ cleanup' \in Seq(CleanupType) /\ DOMAIN cleanup' = DOMAIN cleanup /\ cleanup'[k] = e
      /\ \A j \in DOMAIN cleanup \ {k} : cleanup'[j] = cleanup[j]
  BY <1>3, <1>5, <1>6
<1>8. \A j \in DOMAIN cleanup \ {k} : ToClose(cleanup[j]) => cleanup[j].fd # fd
  BY <1>4 DEF PoolInv, FileInv
<1>9. FileInv'
  <2>1. \A f \in files' : \E j \in DOMAIN cleanup' : ToClose(cleanup'[j]) /\ cleanup'[j].fd = f
    <3> SUFFICES ASSUME NEW f \in files'
                 PROVE  \E j \in DOMAIN cleanup' : ToClose(cleanup'[j]) /\ cleanup'[j].fd = f
      OBVIOUS
    <3>1. f \in files /\ f # fd
      BY <1>1
    <3>2. PICK j \in DOMAIN cleanup : ToClose(cleanup[j]) /\ cleanup[j].fd = f
      BY <3>1 DEF PoolInv, FileInv
    <3> QED BY <3>1, <3>2, <1>4, <1>7
  <2>2. \A j \in DOMAIN cleanup' : ToClose(cleanup'[j]) => cleanup'[j].fd \in files'
    BY <1>1, <1>5, <1>7, <1>8 DEF PoolInv, FileInv
  <2>3. \A i, j \in DOMAIN cleanup' :
           ToClose(cleanup'[i]) /\ ToClose(cleanup'[j]) /\ cleanup'[i].fd = cleanup'[j].fd => i = j
    BY <1>5, <1>7 DEF PoolInv, FileInv
  <2> QED BY <2>1, <2>2, <2>3 DEF FileInv, ToClose
<1>10. PoolType'
  BY <1>1, <1>7 DEF PoolInv, PoolType
<1>11. /\ \A j \in DOMAIN large' : large'[j].at \in pieces'
       /\ \A j \in DOMAIN cleanup' : cleanup'[j].at \in pieces'
  BY <1>1, <1>2, <1>5, <1>7 DEF PoolInv, MemoryInv
<1>12. BlocksSound(blocks', current', pieces')
  BY <1>1 DEF PoolInv, MemoryInv
<1> QED BY <1>1, <1>9, <1>10, <1>11, <1>12, MemoryKept, LargeKept DEF PoolInv

-----------------------------------------------------------------------------
(* What is given back is what is in use.                                   *)
LEMMA AllFreed == ASSUME PoolInv PROVE heap \ Freed = {} /\ files \ ClosedByHandlers = {}
BY InvSound DEF PoolSound

LEMMA ResetKeeps ==
    ASSUME PoolInv, ~spoiled, ngx_reset_pool PROVE PoolInv'
<1>1. /\ exists /\ heap' = {} /\ large' = <<>> /\ current' = 1
      /\ blocks' = [b \in DOMAIN blocks |-> [last |-> PoolHead, failed |-> 0]]
      /\ pieces' = {c.at : c \in Range(cleanup)}
      /\ spoiled' = (spoiled \/ cleanup # <<>>) /\ UNCHANGED <<cleanup, files, exists>>
  BY AllFreed DEF ngx_reset_pool
<1>2. blocks \in Seq(BlockType) /\ current \in DOMAIN blocks
  BY <1>1 DEF PoolInv, MemoryInv, BlocksSound
<1>3. /\ blocks' \in Seq(BlockType) /\ DOMAIN blocks' = DOMAIN blocks /\ 1 \in DOMAIN blocks'
      /\ \A b \in DOMAIN blocks' : blocks'[b].last = PoolHead
  <2>1. [last |-> PoolHead, failed |-> 0] \in BlockType
    BY SizesFit DEF BlockType
  <2> QED BY <2>1, <1>1, <1>2
<1>4. cleanup = <<>> => BlocksSound(blocks', current', pieces') /\ pieces' = {}
  BY <1>1, <1>3, SizesFit DEF BlocksSound, HeadOf, Range
<1>5. spoiled' \in BOOLEAN /\ (~spoiled' => cleanup = <<>>)
  BY <1>1
<1>6. PoolType'
  <2>1. <<>> \in Seq(LargeType)
    OBVIOUS
  <2> QED BY <2>1, <1>1, <1>5 DEF PoolInv, PoolType
<1>7. MemoryInv'
  BY <1>1, <1>3, <1>4, <1>5 DEF MemoryInv
<1>8. LargeInv'
  BY <1>1 DEF LargeInv
<1> QED BY <1>1, <1>6, <1>7, <1>8, FilesKept DEF PoolInv

LEMMA DestroyKeeps ==
    ASSUME PoolInv, ~spoiled, ngx_destroy_pool PROVE PoolInv'
<1>1. /\ ~exists' /\ exists' = FALSE /\ files' = {} /\ heap' = {} /\ large' = <<>>
      /\ cleanup' = <<>> /\ pieces' = {} /\ spoiled' = spoiled
  BY AllFreed DEF ngx_destroy_pool
<1>2. PoolType'
  <2>1. <<>> \in Seq(LargeType) /\ <<>> \in Seq(CleanupType)
    OBVIOUS
  <2> QED BY <2>1, <1>1 DEF PoolInv, PoolType
<1> QED BY <1>1, <1>2 DEF PoolInv, MemoryInv, LargeInv, FileInv

LEMMA NextKeeps == PoolInv /\ [PoolNext]_poolVars => PoolInv'
<1> SUFFICES ASSUME PoolInv, [PoolNext]_poolVars PROVE PoolInv'
  OBVIOUS
<1>1. CASE UNCHANGED poolVars
  BY <1>1 DEF poolVars, pool, PoolInv, PoolType, MemoryInv, LargeInv, FileInv, BlocksSound, ToClose
<1>2. CASE PoolNext
  <2>1. ~spoiled
    BY <1>2 DEF PoolNext
  <2>2. CASE \E size \in Sizes, align \in BOOLEAN : ngx_palloc(size, align)
    BY <2>1, <2>2, PallocKeeps
  <2>3. CASE ngx_palloc_large
    BY <2>1, <2>3, LargeKeeps
  <2>4. CASE ngx_pmemalign
    BY <2>1, <2>4, LargeKeeps
  <2>5. CASE \E id \in heap : ngx_pfree(id)
    BY <2>1, <2>5, PfreeKeeps
  <2>6. CASE AddCleanup
    BY <2>1, <2>6, AddCleanupKeeps
  <2>7. CASE \E fd \in files : ngx_pool_run_cleanup_file(fd)
    BY <2>1, <2>7, RunCleanupKeeps
  <2>8. CASE ngx_reset_pool
    BY <2>1, <2>8, ResetKeeps
  <2>9. CASE ngx_destroy_pool
    BY <2>1, <2>9, DestroyKeeps
  <2> QED BY <1>2, <2>2, <2>3, <2>4, <2>5, <2>6, <2>7, <2>8, <2>9 DEF PoolNext
<1> QED BY <1>1, <1>2

(* Whatever is allocated, freed and reset, and however often there is no    *)
(* memory for a block: no two pieces that a pool gave share memory, none    *)
(* reaches past its block, and every large piece and every file has the one *)
(* entry by which the pool gives it back.                                  *)
THEOREM PoolCorrect == PoolSpec => []PoolSound
<1>1. PoolInit => PoolInv
  BY InvInit
<1>2. PoolInv /\ [PoolNext]_poolVars => PoolInv'
  BY NextKeeps
<1>3. PoolInv => PoolSound
  BY InvSound
<1> QED BY <1>1, <1>2, <1>3, PTL DEF PoolSpec
=============================================================================
