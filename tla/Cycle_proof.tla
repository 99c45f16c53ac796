---------------------------- MODULE Cycle_proof ----------------------------
(***************************************************************************)
(* Loading configurations in Cycle: whatever fails, the cycle in force has *)
(* its files, sockets, zones and pools, and between loads nothing is left  *)
(* of other cycles.  For any configurations, numbers of loads and          *)
(* failures, and any sockets inherited from another binary.                *)
(***************************************************************************)
EXTENDS CycleProperties, Sums, SequenceTheorems

(* What the records of a cycle are made of.                                 *)
Decls == UNION {Range(c.zones) : c \in Confs}
ZoneNames == {d.name : d \in Decls}
Segments == [by : Nat, name : ZoneNames]
ZoneRecs == [name : ZoneNames, size : {d.size : d \in Decls}, tag : {d.tag : d \in Decls},
             addr : Segments \cup {NoSegment}]
FileRecs == [name : UNION {Range(c.files) : c \in Confs}, fd : Int]
Wheres == (UNION {Range(c.listen) : c \in Confs})
          \cup {Inherited[k].at : k \in DOMAIN Inherited}
SocketRecs == [at : Wheres, fd : Int, open : BOOLEAN, remain : BOOLEAN, ignore : BOOLEAN]
Cycles == [id : Nat, conf : Confs \cup {NoConf}, zones : Seq(ZoneRecs),
           files : Seq(FileRecs), listening : Seq(SocketRecs), environment : BOOLEAN]

Loading == at \in {"pidfile", "paths", "files", "zones", "listen", "open", "commit", "failed"}
Between == at \in {"idle", "reopen"}

CycleTypes ==
    /\ mode \in {"master", "single", "test"}
    /\ Loading \/ Committed \/ Between \/ at = "exited"
    /\ i \in Nat \ {0} /\ made \in Nat
    /\ old \in Cycles /\ new \in Cycles
    /\ fds = [n \in DOMAIN fds |-> fds[n]]
    /\ IsFiniteSet(DOMAIN fds) /\ DOMAIN fds \subseteq Nat
    /\ shm \subseteq Segments
    /\ old_cycles \in Seq(Nat)

(* Cycles are numbered in the order in which they were read.                *)
Numbered ==
    /\ old.id <= made
    /\ IF Between THEN new = NoCycle ELSE new.id = made /\ old.id < new.id
    /\ committed \subseteq 0 .. made /\ (Loading => new.id \notin committed)
    /\ Committed => new.id \in committed

-----------------------------------------------------------------------------
(* Files.                                                                   *)
Opens(f) == f.fd \in DOMAIN fds /\ fds[f.fd] = FileOf(f.name)
Own(f) == f.fd # Invalid /\ f.name # Stderr
OldFiles == IF at = "finish" THEN {} ELSE DOMAIN old.files

FilesDistinct(files) ==
    \A j, k \in DOMAIN files : Own(files[j]) /\ files[j].fd = files[k].fd => j = k
FilesUntouched ==
    \A k \in DOMAIN new.files :
        /\ at \in {"pidfile", "paths"} \/ (at = "files" /\ k >= i) => ~Own(new.files[k])
        /\ Committed \/ at \in {"zones", "listen", "open", "commit"} \/ (at = "files" /\ k < i)
           => new.files[k].fd # Invalid
StderrOpen ==
    /\ 0 \in DOMAIN fds /\ fds[0] = FileOf(Stderr)
    /\ \A c \in {old, new} : \A k \in DOMAIN c.files :
          c.files[k].fd = 0 <=> c.files[k].name = Stderr

FilesInv ==
    /\ \A k \in OldFiles : Opens(old.files[k])
    /\ \A k \in DOMAIN new.files : new.files[k].fd # Invalid => Opens(new.files[k])
    /\ FilesDistinct(old.files) /\ FilesDistinct(new.files)
    /\ \A j \in OldFiles, k \in DOMAIN new.files :
          Own(new.files[k]) => old.files[j].fd # new.files[k].fd
    /\ FilesUntouched /\ StderrOpen

-----------------------------------------------------------------------------
(* Sockets.                                                                 *)
Serves(l) ==
    /\ l.fd \in DOMAIN fds /\ "at" \in DOMAIN fds[l.fd] /\ fds[l.fd].at = l.at
    /\ l.at.addr \in Unix => l.at.addr \in sockfiles
OldSockets == IF at \in {"close_files", "finish"} THEN {} ELSE DOMAIN old.listening
NewSockets == {k \in DOMAIN new.listening : new.listening[k].fd # Invalid}

PathsOnce(c) ==
    \A j, k \in DOMAIN c.listening :
        c.listening[j].at.addr = c.listening[k].at.addr /\ c.listening[k].at.addr \in Unix
        => j = k
SocketsDistinct ==
    /\ \A j, k \in DOMAIN old.listening : old.listening[j].fd = old.listening[k].fd => j = k
    /\ \A j, k \in NewSockets : new.listening[j].fd = new.listening[k].fd => j = k

(* A new socket is either an old one that remains, or its own.              *)
TakenOver(k) ==
    \E j \in OldSockets : /\ old.listening[j].remain
                          /\ old.listening[j].fd = new.listening[k].fd
                          /\ old.listening[j].at = new.listening[k].at
OfItsOwn(k) ==
    \A j \in OldSockets :
        /\ old.listening[j].fd # new.listening[k].fd
        /\ new.listening[k].at.addr \in Unix => old.listening[j].at.addr # new.listening[k].at.addr
EitherOr ==
    \A k \in NewSockets :
        IF new.listening[k].open THEN OfItsOwn(k) ELSE at \in {"close_files", "finish"} \/ TakenOver(k)
RemainsTaken ==
    at \in {"listen", "open", "commit", "free", "close"} =>
        \A j \in OldSockets : old.listening[j].remain =>
            \E k \in NewSockets : new.listening[k].fd = old.listening[j].fd
SocketsUntouched ==
    \A k \in DOMAIN new.listening :
        /\ at \in {"pidfile", "paths", "files", "zones"} \/ (at = "listen" /\ k >= i)
           => new.listening[k].fd = Invalid /\ ~new.listening[k].open
        /\ (at = "open" \/ (at = "listen" /\ k < i)) /\ new.listening[k].fd = Invalid
           => new.listening[k].open
        /\ Committed \/ at = "commit" => new.listening[k].fd # Invalid

SocketsInv ==
    /\ \A k \in OldSockets : Serves(old.listening[k])
    /\ \A k \in NewSockets : Serves(new.listening[k])
    /\ PathsOnce(old) /\ PathsOnce(new)
    /\ SocketsDistinct /\ EitherOr /\ RemainsTaken /\ SocketsUntouched

(* No descriptor is without a user.                                         *)
UsedBy(n) ==
    \/ \E k \in OldFiles : Own(old.files[k]) /\ old.files[k].fd = n
    \/ \E k \in DOMAIN new.files : Own(new.files[k]) /\ new.files[k].fd = n
    \/ \E k \in OldSockets : old.listening[k].fd = n
    \/ \E k \in NewSockets : new.listening[k].fd = n
Accounted == \A n \in DOMAIN fds \ {0} : fds[n] = PidFd \/ UsedBy(n)

-----------------------------------------------------------------------------
(* Zones.                                                                   *)
NamesDistinct(zones) == \A j, k \in DOMAIN zones : zones[j].name = zones[k].name => j = k
Reusable(z) == {j \in DOMAIN old.zones : Same(z, old.zones[j]) /\ z.tag \notin NoReuse}

InPlace(c, z) == z.addr \in shm /\ z.addr.name = z.name /\ z.addr.by <= c.id
Settled(z) ==
    /\ InPlace(new, z)
    /\ IF Reusable(z) = {} THEN z.addr.by = new.id
       ELSE \E j \in Reusable(z) : z.addr = old.zones[j].addr

(* Places at which the zones of the old cycle still exist.                  *)
ZonesKept == at \notin {"close", "close_files", "finish"}
ZonesInv ==
    /\ NamesDistinct(old.zones) /\ NamesDistinct(new.zones)
    /\ ZonesKept => \A z \in Range(old.zones) : InPlace(old, z)
    /\ \A k \in DOMAIN new.zones :
          /\ at \in {"pidfile", "paths", "files"} \/ (at = "zones" /\ k >= i)
             => new.zones[k].addr = NoSegment
          /\ Committed \/ at \in {"listen", "open", "commit"} \/ (at = "zones" /\ k < i)
             => Settled(new.zones[k])
    /\ \A s \in shm :
        /\ s.by <= made
        /\ ~Between /\ s.by = new.id => \E z \in Range(new.zones) : z.addr = s
        /\ s.by \in committed =>
              \/ ZonesKept /\ \E z \in Range(old.zones) : z.addr = s
              \/ Committed /\ \E z \in Range(new.zones) : z.addr = s

-----------------------------------------------------------------------------
(* Pools.                                                                   *)
PoolsInv ==
    /\ \A k \in DOMAIN old_cycles : old_cycles[k] = 0 \/ old_cycles[k] < old.id
    /\ pools = {old.id} \cup (IF Between THEN {} ELSE {new.id}) \cup (Range(old_cycles) \ {0})
    /\ live \subseteq pools \ {0} /\ (~Between => new.id \notin live)
    /\ mode = "master" => live = {}

Inv == at # "exited" => /\ CycleTypes /\ Numbered /\ FilesInv /\ SocketsInv /\ Accounted
                        /\ ZonesInv /\ PoolsInv

-----------------------------------------------------------------------------
(* The configuration that is read.                                          *)

(* The names of declared zones are distinct once the configuration is read: *)
(* the fold that reads them is followed set by set of declarations.         *)
Nothing == [ok |-> TRUE, zones |-> <<>>]
Reads(ds, s, T) ==
    IF T = {} THEN Nothing ELSE ngx_shared_memory_add(s[T \ {Max(T)}], ds[Max(T)])
IsRead(ds, s) == s = [T \in SUBSET DOMAIN ds |-> Reads(ds, s, T)]

(* Reading the zones of a configuration, one ngx_shared_memory_add after    *)
(* the other, as a function of the sets of declarations read so far.        *)
LEMMA ParsedChosen ==
    ASSUME NEW c
    PROVE  Parsed(c) = (CHOOSE s : IsRead(c.zones, s))[DOMAIN c.zones]
BY DEF Parsed, FoldLeft, MapThenFoldSet, IsRead, Reads, Nothing

(* Each step of the reading takes the last declaration that is left.        *)
LEMMA MaxIn ==
    ASSUME NEW n \in Nat, NEW T \in SUBSET (1 .. n), T # {}
    PROVE  Max(T) \in T
<1> DEFINE D == {n - x : x \in T}
<1>1. D \in SUBSET Nat /\ D # {}
  <2>1. ASSUME NEW x \in T PROVE n - x \in Nat
    <3>1. x \in Int /\ n \in Int /\ x <= n
      OBVIOUS
    <3> QED BY <3>1
  <2> QED BY <2>1
<1>2. PICK m \in D : \A k \in D : m <= k
  <2> HIDE DEF D
  <2> QED BY <1>1, SmallestNumber
<1>3. PICK x \in T : m = n - x
  OBVIOUS
<1>4. ASSUME NEW y \in T PROVE x >= y
  <2>1. n - y \in D
    OBVIOUS
  <2> HIDE DEF D
  <2>2. n - x <= n - y
    BY <1>2, <1>3, <2>1
  <2>3. n \in Int /\ x \in Int /\ y \in Int
    OBVIOUS
  <2> QED BY <2>2, <2>3
<1> QED BY <1>4 DEF Max

(* The function that reads the declarations exists, for any number of them. *)
LEMMA ReadExists ==
    ASSUME NEW n \in Nat, NEW ds, DOMAIN ds = 1 .. n
    PROVE  \E s : IsRead(ds, s)
<1> DEFINE S == DOMAIN ds
           Level(m) == {T \in SUBSET S : Cardinality(T) <= m}
           UpTo(m, s) == s = [T \in Level(m) |-> Reads(ds, s, T)]
           Bad == {m \in Nat : ~\E s : UpTo(m, s)}
<1>0. IsFiniteSet(S)
  <2>1. 1 \in Int /\ n \in Int
    OBVIOUS
  <2> QED BY <2>1, FS_Interval
<1>1. \A T \in SUBSET S : IsFiniteSet(T) /\ Cardinality(T) \in Nat
                          /\ Cardinality(T) <= Cardinality(S)
  BY <1>0, FS_Subset, FS_CardinalityType
<1>2. Cardinality(S) \in Nat /\ Level(Cardinality(S)) = SUBSET S
  BY <1>0, <1>1, FS_CardinalityType
<1>3. UpTo(0, [T \in Level(0) |-> Nothing])
  <2>1. ASSUME NEW T \in Level(0) PROVE T = {}
    <3>1. IsFiniteSet(T) /\ Cardinality(T) = 0
      BY <1>1, <2>1
    <3> QED BY <3>1, FS_EmptySet
  <2>2. [T \in Level(0) |-> Nothing]
          = [T \in Level(0) |-> Reads(ds, [U \in Level(0) |-> Nothing], T)]
    <3> HIDE DEF Level
    <3> QED BY <2>1 DEF Reads
  <2> QED BY <2>2
<1>4. ASSUME NEW m \in Nat, NEW s, UpTo(m, s) PROVE \E t : UpTo(m + 1, t)
  <2> DEFINE t == [T \in Level(m + 1) |-> Reads(ds, s, T)]
  <2>1. ASSUME NEW T \in Level(m) PROVE T \in Level(m + 1) /\ t[T] = s[T]
    <3>1. T \in Level(m + 1)
      BY <1>1
    <3>2. s[T] = Reads(ds, s, T)
      <4> HIDE DEF Level
      <4> QED BY <1>4
    <3>3. t[T] = Reads(ds, s, T)
      <4> HIDE DEF Level
      <4> QED BY <3>1
    <3> QED BY <3>1, <3>2, <3>3
  <2>2. ASSUME NEW T \in Level(m + 1), T # {} PROVE T \ {Max(T)} \in Level(m)
    <3>1. Max(T) \in T
      BY <2>2, MaxIn
    <3> HIDE DEF S
    <3> QED BY <1>1, <3>1, FS_RemoveElement
  <2> HIDE DEF Level
  <2>3. ASSUME NEW T \in Level(m + 1) PROVE Reads(ds, s, T) = Reads(ds, t, T)
    <3>1. CASE T = {}
      BY <3>1 DEF Reads
    <3>2. CASE T # {}
      <4>1. t[T \ {Max(T)}] = s[T \ {Max(T)}]
        BY <2>1, <2>2, <3>2
      <4> HIDE DEF t
      <4> QED BY <4>1 DEF Reads
    <3> QED BY <3>1, <3>2
  <2>4. UpTo(m + 1, t)
    <3>1. \A T \in Level(m + 1) : Reads(ds, s, T) = Reads(ds, t, T)
      BY <2>3
    <3>2. t = [T \in Level(m + 1) |-> Reads(ds, t, T)]
      BY <3>1
    <3> QED BY <3>2
  <2> QED BY <2>4
<1>5. ASSUME Bad # {} PROVE FALSE
  <2>1. PICK m \in Bad : \A k \in Bad : m <= k
    <3>1. Bad \in SUBSET Nat
      OBVIOUS
    <3> HIDE DEF Bad
    <3> QED BY <1>5, <3>1, SmallestNumber
  <2>2. m # 0
    <3> HIDE DEF UpTo
    <3> QED BY <1>3
  <2>3. m - 1 \in Nat /\ m - 1 \notin Bad
    <3>1. m \in Nat
      OBVIOUS
    <3>2. m - 1 \in Nat /\ ~(m <= m - 1)
      BY <2>2, <3>1
    <3> HIDE DEF Bad
    <3> QED BY <2>1, <3>2
  <2>4. PICK s : UpTo(m - 1, s)
    <3> HIDE DEF UpTo
    <3> QED BY <2>3
  <2>5. \E t : UpTo(m - 1 + 1, t)
    <3> HIDE DEF UpTo
    <3> QED BY <1>4, <2>3, <2>4
  <2>6. m - 1 + 1 = m
    OBVIOUS
  <2>7. \E t : UpTo(m, t)
    <3> HIDE DEF UpTo
    <3> QED BY <2>5, <2>6
  <2> HIDE DEF UpTo
  <2> QED BY <2>7
<1>6. PICK s : UpTo(Cardinality(S), s)
  <2> HIDE DEF UpTo
  <2> QED BY <1>2, <1>5
<1> QED BY <1>2, <1>6 DEF IsRead

(* What the zones that were read so far are.                                *)
ReadRecs == [name : ZoneNames, size : {d.size : d \in Decls}, tag : {d.tag : d \in Decls},
             addr : {NoSegment}]
WellRead(acc) == acc.zones \in Seq(ReadRecs) /\ NamesDistinct(acc.zones)

(* ngx_shared_memory_add keeps the names distinct: a second declaration of  *)
(* a name gets the record of the first one or is refused.                   *)
LEMMA AddWellRead ==
    ASSUME NEW acc, WellRead(acc), acc = [ok |-> acc.ok, zones |-> acc.zones], NEW d \in Decls
    PROVE  LET next == ngx_shared_memory_add(acc, d) IN
           WellRead(next) /\ next = [ok |-> next.ok, zones |-> next.zones]
<1> DEFINE same == {k \in DOMAIN acc.zones : acc.zones[k].name = d.name}
           z == [name |-> d.name, size |-> d.size, tag |-> d.tag, addr |-> NoSegment]
           next == ngx_shared_memory_add(acc, d)
<1>1. z \in ReadRecs
  BY DEF ReadRecs, ZoneNames
<1>2. acc.zones \in Seq(ReadRecs) /\ NamesDistinct(acc.zones)
  BY DEF WellRead
<1>3. CASE same = {}
  <2> DEFINE r == Append(acc.zones, z)
  <2>1. next = [ok |-> acc.ok, zones |-> r]
    BY <1>3 DEF ngx_shared_memory_add
  <2>2. /\ r \in Seq(ReadRecs) /\ DOMAIN r = 1 .. Len(acc.zones) + 1
        /\ DOMAIN acc.zones = 1 .. Len(acc.zones) /\ Len(acc.zones) \in Nat
        /\ \A k \in 1 .. Len(acc.zones) : r[k] = acc.zones[k]
        /\ r[Len(acc.zones) + 1] = z
    BY <1>1, <1>2, AppendProperties
  <2> HIDE DEF r
  <2>3. \A k \in DOMAIN acc.zones : acc.zones[k].name # z.name
    BY <1>3
  <2>4. \A k \in DOMAIN r : k \in DOMAIN acc.zones \/ k = Len(acc.zones) + 1
    BY <2>2
  <2> HIDE DEF z
  <2>5. NamesDistinct(r)
    BY <1>2, <2>2, <2>3, <2>4 DEF NamesDistinct
  <2>6. next.zones = r /\ next = [ok |-> next.ok, zones |-> next.zones]
    <3> HIDE DEF next
    <3> QED BY <2>1
  <2> QED BY <2>2, <2>5, <2>6, Zenon DEF WellRead
<1>4. CASE same # {}
  <2>1. PICK k \in DOMAIN acc.zones : k = CHOOSE s \in same : TRUE
    BY <1>4
  <2> DEFINE e == [acc.zones[k] EXCEPT !.size = IF @ = 0 THEN d.size ELSE @]
             r == [acc.zones EXCEPT ![k] = e]
  <2>2. e \in ReadRecs /\ e.name = acc.zones[k].name
    <3>1. acc.zones[k] \in ReadRecs
      BY <1>2, <2>1
    <3>2. (IF acc.zones[k].size = 0 THEN d.size ELSE acc.zones[k].size) \in {x.size : x \in Decls}
      BY <3>1 DEF ReadRecs
    <3> QED BY <3>1, <3>2 DEF ReadRecs
  <2> HIDE DEF e
  <2>3. /\ r \in Seq(ReadRecs) /\ DOMAIN r = DOMAIN acc.zones
        /\ \A j \in DOMAIN r : r[j].name = acc.zones[j].name
    <3>1. r \in Seq(ReadRecs)
      BY <1>2, <2>1, <2>2
    <3> QED BY <2>1, <2>2, <3>1
  <2>4. next.zones = r /\ next = [ok |-> next.ok, zones |-> next.zones]
    BY <1>4, <2>1 DEF ngx_shared_memory_add, e
  <2> HIDE DEF r
  <2>5. NamesDistinct(r)
    BY <1>2, <2>3 DEF NamesDistinct
  <2> QED BY <2>3, <2>4, <2>5, Zenon DEF WellRead
<1> QED BY <1>3, <1>4

(* What ngx_conf_parse leaves of the declared zones: records with distinct  *)
(* names and no memory yet.                                                 *)
LEMMA ParsedWellRead ==
    ASSUME NEW c \in Confs
    PROVE  WellRead(Parsed(c))
<1> DEFINE ds == c.zones
           s == CHOOSE t : IsRead(ds, t)
           Good(T) == WellRead(s[T]) /\ s[T] = [ok |-> s[T].ok, zones |-> s[T].zones]
           Bad == {T \in SUBSET DOMAIN ds : ~Good(T)}
<1>1. ds \in Seq(Range(ds)) /\ \A k \in DOMAIN ds : ds[k] \in Decls
  <2>1. c.zones \in Seq(Range(c.zones))
    BY CycleAssumption
  <2> QED BY <2>1 DEF Decls, Range
<1>2. PICK n \in Nat : DOMAIN ds = 1 .. n
  BY <1>1
<1>3. IsRead(ds, s)
  BY <1>2, ReadExists
<1>4. IsFiniteSet(DOMAIN ds)
  <2>1. 1 \in Int /\ n \in Int
    OBVIOUS
  <2> QED BY <1>2, <2>1, FS_Interval
<1>5. Parsed(c) = s[DOMAIN ds]
  BY ParsedChosen
<1> HIDE DEF s
<1>6. ASSUME Bad # {} PROVE FALSE
  <2>1. PICK T \in Bad : \A x \in T : T \ {x} \notin Bad
    <3>1. Bad \in SUBSET (SUBSET DOMAIN ds)
      OBVIOUS
    <3> HIDE DEF Bad
    <3> QED BY <1>4, <1>6, <3>1, SmallestBad
  <2>2. T \in SUBSET DOMAIN ds /\ s[T] = Reads(ds, s, T)
    BY <1>3 DEF IsRead
  <2>3. CASE T = {}
    <3>1. s[T] = Nothing
      BY <2>2, <2>3 DEF Reads
    <3>2. Nothing.zones \in Seq(ReadRecs) /\ DOMAIN Nothing.zones = {}
      BY DEF Nothing
    <3>3. WellRead(Nothing) /\ Nothing = [ok |-> Nothing.ok, zones |-> Nothing.zones]
      BY <3>2 DEF WellRead, NamesDistinct, Nothing
    <3> QED BY <3>1, <3>3
  <2>4. CASE T # {}
    <3>1. Max(T) \in T
      BY <1>2, <2>2, <2>4, MaxIn
    <3>2. Good(T \ {Max(T)}) /\ ds[Max(T)] \in Decls
      BY <1>1, <2>1, <2>2, <3>1
    <3>3. s[T] = ngx_shared_memory_add(s[T \ {Max(T)}], ds[Max(T)])
      BY <2>2, <2>4 DEF Reads
    <3> QED BY <3>2, <3>3, AddWellRead
  <2> QED BY <2>3, <2>4
<1>7. Good(DOMAIN ds)
  BY <1>6
<1> QED BY <1>5, <1>7

-----------------------------------------------------------------------------
(* Descriptors, and records of cycles.                                      *)

(* open() and socket() return a descriptor that is not in use.              *)
LEMMA FreeIsNew ==
    ASSUME CycleTypes
    PROVE  Free \in Nat /\ Free \notin DOMAIN fds
<1> DEFINE D == DOMAIN fds
<1>1. IsFiniteSet(D) /\ D \subseteq Nat /\ Cardinality(D) \in Nat
  BY FS_CardinalityType DEF CycleTypes
<1>2. PICK N \in Nat : N = Cardinality(D)
  BY <1>1
<1>3. IsFiniteSet(0 .. N) /\ Cardinality(0 .. N) = N + 1
  <2>1. 0 \in Int /\ N \in Int /\ N - 0 + 1 = N + 1 /\ ~(0 > N)
    OBVIOUS
  <2> QED BY <2>1, FS_Interval
<1>4. ~((0 .. N) \subseteq D)
  <2>1. N \in Int /\ ~(N + 1 <= N)
    OBVIOUS
  <2> HIDE DEF D
  <2> QED BY <1>1, <1>2, <1>3, <2>1, FS_Subset
<1> DEFINE H == {n \in 0 .. N : n \notin D}
<1>5. H \in SUBSET Nat /\ H # {}
  BY <1>4
<1>6. PICK m \in H : \A k \in H : m <= k
  <2> HIDE DEF H
  <2> QED BY <1>5, SmallestNumber
<1>7. m \in 0 .. N /\ m \notin D /\ \A k \in 0 .. m - 1 : k \in D
  <2>1. m \in 0 .. N /\ m \in Int /\ N \in Int /\ m \notin D
    OBVIOUS
  <2>2. ASSUME NEW k \in 0 .. m - 1, k \notin D PROVE FALSE
    <3>1. k \in Int /\ k \in 0 .. N /\ ~(m <= k)
      BY <2>1
    <3>2. k \in H
      BY <2>2, <3>1
    <3> HIDE DEF H
    <3> QED BY <1>6, <3>1, <3>2
  <2> QED BY <2>1, <2>2
<1>8. Free \in 0 .. N /\ Free \notin D
  <2>1. Free = CHOOSE n \in 0 .. N : n \notin D /\ \A k \in 0 .. n - 1 : k \in D
    BY <1>2 DEF Free
  <2> HIDE DEF D
  <2> QED BY <1>7, <2>1
<1> QED BY <1>8

(* Opening a descriptor adds it to the table and changes no other.          *)
LEMMA OpenedOne ==
    ASSUME CycleTypes, NEW what, NEW t, t = Opened(what)
    PROVE  /\ DOMAIN t = DOMAIN fds \cup {Free} /\ t = [n \in DOMAIN t |-> t[n]]
           /\ IsFiniteSet(DOMAIN t) /\ DOMAIN t \subseteq Nat
           /\ t[Free] = what /\ \A n \in DOMAIN fds : t[n] = fds[n]
<1>1. IsFiniteSet(DOMAIN fds \cup {Free})
  BY FS_AddElement DEF CycleTypes
<1> QED BY <1>1, FreeIsNew DEF Opened, CycleTypes

(* Closing descriptors takes them out of the table and changes no other.    *)
LEMMA ClosedSome ==
    ASSUME CycleTypes, NEW S, NEW t, t = Closed(S)
    PROVE  /\ DOMAIN t = DOMAIN fds \ S /\ t = [n \in DOMAIN t |-> t[n]]
           /\ IsFiniteSet(DOMAIN t) /\ DOMAIN t \subseteq Nat
           /\ \A n \in DOMAIN t : t[n] = fds[n]
<1>1. IsFiniteSet(DOMAIN fds \ S)
  BY FS_Subset DEF CycleTypes
<1> QED BY <1>1 DEF Closed, CycleTypes

(* What changes in a cycle when one of its records changes.                 *)
Frame(c, d) == d.id = c.id /\ d.conf = c.conf /\ d.environment = c.environment

(* Storing the descriptor of an opened file changes nothing else of a       *)
(* cycle.                                                                   *)
LEMMA FileChanged ==
    ASSUME NEW c \in Cycles, NEW k \in DOMAIN c.files, NEW n \in Int,
           NEW d, d = [c EXCEPT !.files[k].fd = n]
    PROVE  /\ d \in Cycles /\ Frame(c, d) /\ d.zones = c.zones /\ d.listening = c.listening
           /\ DOMAIN d.files = DOMAIN c.files /\ Len(d.files) = Len(c.files)
           /\ d.files[k].name = c.files[k].name /\ d.files[k].fd = n
           /\ \A j \in DOMAIN c.files \ {k} : d.files[j] = c.files[j]
<1> DEFINE e == [c.files[k] EXCEPT !.fd = n]
           s == [c.files EXCEPT ![k] = e]
<1>1. c.files \in Seq(FileRecs) /\ c.files[k] \in FileRecs
  BY DEF Cycles
<1>2. e \in FileRecs /\ e.name = c.files[k].name /\ e.fd = n
  BY <1>1 DEF FileRecs
<1> HIDE DEF e
<1>3. s \in Seq(FileRecs) /\ DOMAIN s = DOMAIN c.files /\ Len(s) = Len(c.files)
  BY <1>1, <1>2
<1>4. s[k] = e /\ \A j \in DOMAIN c.files \ {k} : s[j] = c.files[j]
  BY <1>1
<1>5. d = [c EXCEPT !.files = s]
  BY DEF e
<1> HIDE DEF s
<1>6. d \in Cycles /\ Frame(c, d) /\ d.zones = c.zones /\ d.listening = c.listening
      /\ d.files = s
  BY <1>3, <1>5 DEF Cycles, Frame
<1> QED BY <1>2, <1>3, <1>4, <1>6

(* Storing the address of a zone changes nothing else of a cycle.           *)
LEMMA ZoneChanged ==
    ASSUME NEW c \in Cycles, NEW k \in DOMAIN c.zones, NEW a \in Segments \cup {NoSegment},
           NEW d, d = [c EXCEPT !.zones[k].addr = a]
    PROVE  /\ d \in Cycles /\ Frame(c, d) /\ d.files = c.files /\ d.listening = c.listening
           /\ DOMAIN d.zones = DOMAIN c.zones /\ Len(d.zones) = Len(c.zones)
           /\ d.zones[k].addr = a /\ Same(c.zones[k], d.zones[k])
           /\ \A j \in DOMAIN c.zones \ {k} : d.zones[j] = c.zones[j]
<1> DEFINE e == [c.zones[k] EXCEPT !.addr = a]
           s == [c.zones EXCEPT ![k] = e]
<1>1. c.zones \in Seq(ZoneRecs) /\ c.zones[k] \in ZoneRecs
  BY DEF Cycles
<1>2. e \in ZoneRecs /\ Same(c.zones[k], e) /\ e.addr = a
  BY <1>1 DEF ZoneRecs, Same
<1> HIDE DEF e
<1>3. s \in Seq(ZoneRecs) /\ DOMAIN s = DOMAIN c.zones /\ Len(s) = Len(c.zones)
  BY <1>1, <1>2
<1>4. s[k] = e /\ \A j \in DOMAIN c.zones \ {k} : s[j] = c.zones[j]
  BY <1>1
<1>5. d = [c EXCEPT !.zones = s]
  BY DEF e
<1> HIDE DEF s
<1>6. d \in Cycles /\ Frame(c, d) /\ d.files = c.files /\ d.listening = c.listening
      /\ d.zones = s
  BY <1>3, <1>5 DEF Cycles, Frame
<1> QED BY <1>2, <1>3, <1>4, <1>6

SocketOnly(c, k, d) ==
    /\ d \in Cycles /\ Frame(c, d) /\ d.files = c.files /\ d.zones = c.zones
    /\ DOMAIN d.listening = DOMAIN c.listening /\ Len(d.listening) = Len(c.listening)
    /\ d.listening[k].at = c.listening[k].at
    /\ d.listening[k].ignore = c.listening[k].ignore
    /\ \A j \in DOMAIN c.listening \ {k} : d.listening[j] = c.listening[j]

(* Storing the descriptor of a listening socket changes nothing else of a   *)
(* cycle.                                                                   *)
LEMMA FdChanged ==
    ASSUME NEW c \in Cycles, NEW k \in DOMAIN c.listening, NEW n \in Int,
           NEW d, d = [c EXCEPT !.listening[k].fd = n]
    PROVE  /\ SocketOnly(c, k, d) /\ d.listening[k].fd = n
           /\ d.listening[k].open = c.listening[k].open
           /\ d.listening[k].remain = c.listening[k].remain
<1> DEFINE e == [c.listening[k] EXCEPT !.fd = n]
<1>1. c.listening[k] \in SocketRecs
  BY DEF Cycles
<1>2. /\ e \in SocketRecs /\ e.at = c.listening[k].at /\ e.ignore = c.listening[k].ignore
      /\ e.fd = n /\ e.open = c.listening[k].open /\ e.remain = c.listening[k].remain
  BY <1>1 DEF SocketRecs
<1> DEFINE s == [c.listening EXCEPT ![k] = e]
<1>3. d = [c EXCEPT !.listening = s]
  OBVIOUS
<1> HIDE DEF e
<1>4. c.listening \in Seq(SocketRecs)
  BY DEF Cycles
<1>5. /\ s \in Seq(SocketRecs) /\ DOMAIN s = DOMAIN c.listening /\ Len(s) = Len(c.listening)
      /\ s[k] = e /\ \A j \in DOMAIN c.listening \ {k} : s[j] = c.listening[j]
  BY <1>2, <1>4
<1> HIDE DEF s
<1>6. d \in Cycles /\ Frame(c, d) /\ d.files = c.files /\ d.zones = c.zones
      /\ d.listening = s
  BY <1>3, <1>5 DEF Cycles, Frame
<1> QED BY <1>2, <1>5, <1>6, Zenon DEF SocketOnly

(* Marking a listening socket as one to open changes nothing else of a      *)
(* cycle.                                                                   *)
LEMMA OpenChanged ==
    ASSUME NEW c \in Cycles, NEW k \in DOMAIN c.listening,
           NEW d, d = [c EXCEPT !.listening[k].open = TRUE]
    PROVE  /\ SocketOnly(c, k, d) /\ d.listening[k].open
           /\ d.listening[k].fd = c.listening[k].fd
           /\ d.listening[k].remain = c.listening[k].remain
<1> DEFINE e == [c.listening[k] EXCEPT !.open = TRUE]
<1>1. c.listening[k] \in SocketRecs
  BY DEF Cycles
<1>2. /\ e \in SocketRecs /\ e.at = c.listening[k].at /\ e.ignore = c.listening[k].ignore
      /\ e.fd = c.listening[k].fd /\ e.remain = c.listening[k].remain
  BY <1>1 DEF SocketRecs
<1>7. e.open = TRUE
  BY <1>1 DEF SocketRecs
<1> DEFINE s == [c.listening EXCEPT ![k] = e]
<1>3. d = [c EXCEPT !.listening = s]
  OBVIOUS
<1> HIDE DEF e
<1>4. c.listening \in Seq(SocketRecs)
  BY DEF Cycles
<1>5. /\ s \in Seq(SocketRecs) /\ DOMAIN s = DOMAIN c.listening /\ Len(s) = Len(c.listening)
      /\ s[k] = e /\ \A j \in DOMAIN c.listening \ {k} : s[j] = c.listening[j]
  BY <1>2, <1>4
<1> HIDE DEF s
<1>6. d \in Cycles /\ Frame(c, d) /\ d.files = c.files /\ d.zones = c.zones
      /\ d.listening = s
  BY <1>3, <1>5 DEF Cycles, Frame
<1> QED BY <1>2, <1>7, <1>5, <1>6, Zenon DEF SocketOnly

(* Marking an old listening socket as remaining changes nothing else of a   *)
(* cycle.                                                                   *)
LEMMA RemainChanged ==
    ASSUME NEW c \in Cycles, NEW k \in DOMAIN c.listening,
           NEW d, d = [c EXCEPT !.listening[k].remain = TRUE]
    PROVE  /\ SocketOnly(c, k, d) /\ d.listening[k].remain
           /\ d.listening[k].fd = c.listening[k].fd
           /\ d.listening[k].open = c.listening[k].open
<1> DEFINE e == [c.listening[k] EXCEPT !.remain = TRUE]
<1>1. c.listening[k] \in SocketRecs
  BY DEF Cycles
<1>2. /\ e \in SocketRecs /\ e.at = c.listening[k].at /\ e.ignore = c.listening[k].ignore
      /\ e.fd = c.listening[k].fd /\ e.open = c.listening[k].open
  BY <1>1 DEF SocketRecs
<1>7. e.remain = TRUE
  BY <1>1 DEF SocketRecs
<1> DEFINE s == [c.listening EXCEPT ![k] = e]
<1>3. d = [c EXCEPT !.listening = s]
  OBVIOUS
<1> HIDE DEF e
<1>4. c.listening \in Seq(SocketRecs)
  BY DEF Cycles
<1>5. /\ s \in Seq(SocketRecs) /\ DOMAIN s = DOMAIN c.listening /\ Len(s) = Len(c.listening)
      /\ s[k] = e /\ \A j \in DOMAIN c.listening \ {k} : s[j] = c.listening[j]
  BY <1>2, <1>4
<1> HIDE DEF s
<1>6. d \in Cycles /\ Frame(c, d) /\ d.files = c.files /\ d.zones = c.zones
      /\ d.listening = s
  BY <1>3, <1>5 DEF Cycles, Frame
<1> QED BY <1>2, <1>7, <1>5, <1>6, Zenon DEF SocketOnly

(* The loop that clears remain of all old sockets changes nothing else of a *)
(* cycle.                                                                   *)
LEMMA RemainReset ==
    ASSUME NEW c \in Cycles,
           NEW d, d = [c EXCEPT !.listening = [k \in DOMAIN @ |-> [@[k] EXCEPT !.remain = FALSE]]]
    PROVE  /\ d \in Cycles /\ Frame(c, d) /\ d.files = c.files /\ d.zones = c.zones
           /\ DOMAIN d.listening = DOMAIN c.listening
           /\ \A k \in DOMAIN c.listening :
                 /\ d.listening[k].at = c.listening[k].at /\ d.listening[k].fd = c.listening[k].fd
                 /\ ~d.listening[k].remain
                 /\ d.listening[k].ignore = c.listening[k].ignore
                 /\ d.listening[k].open = c.listening[k].open
<1> DEFINE e(k) == [c.listening[k] EXCEPT !.remain = FALSE]
           s == [k \in DOMAIN c.listening |-> e(k)]
<1>1. c.listening \in Seq(SocketRecs)
  BY DEF Cycles
<1>2. ASSUME NEW k \in DOMAIN c.listening
      PROVE  /\ e(k) \in SocketRecs /\ e(k).at = c.listening[k].at
             /\ e(k).ignore = c.listening[k].ignore /\ e(k).fd = c.listening[k].fd
             /\ ~e(k).remain /\ e(k).open = c.listening[k].open
  <2>1. c.listening[k] \in SocketRecs
    BY <1>1
  <2> QED BY <2>1 DEF SocketRecs
<1>3. d = [c EXCEPT !.listening = s]
  OBVIOUS
<1> HIDE DEF e
<1>4. s \in Seq(SocketRecs) /\ DOMAIN s = DOMAIN c.listening
      /\ \A k \in DOMAIN c.listening : s[k] = e(k)
  BY <1>1, <1>2
<1> HIDE DEF s
<1>5. d \in Cycles /\ Frame(c, d) /\ d.files = c.files /\ d.zones = c.zones
      /\ d.listening = s
  BY <1>3, <1>4 DEF Cycles, Frame
<1> QED BY <1>2, <1>4, <1>5

-----------------------------------------------------------------------------
(* What the steps do to cycles, descriptors, sockets and segments.  Most    *)
(* only move on in the code.                                                *)
Fails == Loading /\ at' = "failed"
Onward == at' = at /\ i' = i + 1
Moves ==
    \/ Between /\ at' \in {"idle", "reopen"}
    \/ Fails
    \/ at = "pidfile" /\ at' = "paths"
    \/ at = "paths" /\ at' = "files" /\ i' = 1
    \/ at = "files" /\ i \in DOMAIN new.files /\ new.files[i].name = Stderr /\ Onward
    \/ at = "files" /\ i > Len(new.files) /\ at' = "zones" /\ i' = 1
    \/ at = "listen" /\ i > Len(new.listening) /\ at' = "open"
    \/ at = "open" /\ Onward
    \/ at = "open" /\ at' = "commit"
       /\ \A k \in DOMAIN new.listening : new.listening[k].fd # Invalid
    \/ at = "commit" /\ at' = "free"
Quiet == Moves /\ UNCHANGED <<old, new, fds, shm, sockfiles>>
LeavesPid ==
    /\ at = "pidfile" /\ Fails /\ fds' = Opened(PidFd)
    /\ UNCHANGED <<old, new, shm, sockfiles>>
OpensFile ==
    /\ at = "files" /\ i \in DOMAIN new.files /\ new.files[i].name # Stderr
    /\ fds' = Opened(FileOf(new.files[i].name))
    /\ new' = [new EXCEPT !.files[i].fd = Free]
    /\ Onward \/ Fails
    /\ UNCHANGED <<old, shm, sockfiles>>
TakesZone(a) ==
    /\ at = "zones" /\ i \in DOMAIN new.zones
    /\ IF Reused = {} THEN a = Segment /\ shm' = shm \cup {Segment}
       ELSE (\E k \in Reused : a = old.zones[k].addr) /\ shm' = shm
    /\ new' = [new EXCEPT !.zones[i].addr = a]
    /\ Onward \/ Fails
    /\ UNCHANGED <<old, fds, sockfiles>>
OpensSocket ==
    /\ at = "open" /\ i \in DOMAIN new.listening /\ new.listening[i].fd = Invalid
    /\ {new.listening[i].at.addr} \cap Unix \cap sockfiles = {}
    /\ fds' = Opened(Socket(new.listening[i].at, i))
    /\ sockfiles' = sockfiles \cup ({new.listening[i].at.addr} \cap Unix)
    /\ new' = [new EXCEPT !.listening[i].fd = Free]
    /\ Onward /\ UNCHANGED <<old, shm>>
ReopensFile ==
    /\ at = "reopen" /\ at' = "reopen" /\ i \in DOMAIN old.files /\ old.files[i].name # Stderr
    /\ fds' = [n \in (DOMAIN fds \ {old.files[i].fd}) \cup {Free} |->
                  IF n = Free THEN FileOf(old.files[i].name) ELSE fds[n]]
    /\ old' = [old EXCEPT !.files[i].fd = Free]
    /\ UNCHANGED <<new, shm, sockfiles>>

Changes ==
    \/ \E c \in Confs : ReadConf(c)
    \/ OpensFile \/ (\E a : TakesZone(a)) \/ ZonesDone \/ InheritSocket \/ OpensSocket
    \/ FreeZones \/ CloseSockets \/ CloseFiles \/ Finish \/ Rollback \/ ReopensFile

(* The positions in the lists of the two cycles.                            *)
LEMMA Indices ==
    ASSUME CycleTypes
    PROVE  /\ DOMAIN new.files = 1 .. Len(new.files) /\ Len(new.files) \in Nat
           /\ DOMAIN new.zones = 1 .. Len(new.zones) /\ Len(new.zones) \in Nat
           /\ DOMAIN new.listening = 1 .. Len(new.listening) /\ Len(new.listening) \in Nat
           /\ DOMAIN old.files = 1 .. Len(old.files) /\ Len(old.files) \in Nat
<1>1. /\ new.files \in Seq(FileRecs) /\ new.zones \in Seq(ZoneRecs)
      /\ new.listening \in Seq(SocketRecs) /\ old.files \in Seq(FileRecs)
  BY DEF CycleTypes, Cycles
<1> QED BY <1>1

(* A loop over a list that has not come to its end is at a position of the  *)
(* list.                                                                    *)
LEMMA Within ==
    ASSUME CycleTypes, NEW n \in Nat, i <= n
    PROVE  i \in 1 .. n
BY DEF CycleTypes

(* Every step of the program is one of these: it moves on, leaves a pid     *)
(* file behind, or changes one of the things a cycle uses in one of a few   *)
(* ways.                                                                    *)
LEMMA Kinds ==
    ASSUME CycleTypes, Next, at # "exited", at' # "exited"
    PROVE  mode' = mode /\ (Quiet \/ LeavesPid \/ Changes)
<1>1. CASE \E c \in Confs : ReadConf(c) \/ RefuseConf(c)
  BY <1>1, Zenon DEF ReadConf, RefuseConf, Changes, Quiet, Moves, Between, oldCycles, disk
<1>2. CASE Pass
  <2> USE DEF Quiet, Moves, Goto, Onward, Loading, Fails, disk
  <2>0. mode' = mode /\ UNCHANGED <<old, new, fds, shm, sockfiles>>
    BY <1>2 DEF Pass
  <2>1. CASE KeepPid \/ FilesOpen \/ ZeroZone \/ InheritDone \/ SkipSocket
    BY <2>0, <2>1 DEF KeepPid, FilesOpen, ZeroZone, InheritDone, SkipSocket
  <2>2. CASE SocketsOpen
    BY <2>0, <2>2 DEF SocketsOpen
  <2>3. CASE Reopened
    BY <2>0, <2>3 DEF Reopened, Between
  <2> QED BY <1>2, <2>1, <2>2, <2>3 DEF Pass
<1>3. CASE ngx_create_pidfile \/ Paths \/ Commit
  BY <1>3 DEF ngx_create_pidfile, Paths, Commit, Quiet, Moves, Goto, Loading, Fails, disk
<1>4. CASE PidFileFails
  BY <1>4 DEF PidFileFails, Quiet, LeavesPid, Moves, Goto, Loading, Fails, disk
<1>5. CASE OpenFile
  <2>1. i \in DOMAIN new.files
    BY <1>5, Indices, Within DEF OpenFile
  <2> QED BY <1>5, <2>1 DEF OpenFile, OpensFile, Changes, Quiet, Moves, Goto, Onward, Loading, Fails, disk
<1>6. CASE ReuseZone
  <2>1. i \in DOMAIN new.zones
    BY <1>6, Indices, Within DEF ReuseZone
  <2>2. PICK k \in Reused : new' = [new EXCEPT !.zones[i].addr = old.zones[k].addr]
    BY <1>6 DEF ReuseZone
  <2>3. TakesZone(old.zones[k].addr) /\ mode' = mode
    BY <1>6, <2>1, <2>2 DEF ReuseZone, TakesZone, Goto, Onward, Loading, Fails, disk
  <2> QED BY <2>3 DEF Changes
<1>7. CASE AllocZone
  <2>1. i \in DOMAIN new.zones
    BY <1>7, Indices, Within DEF AllocZone
  <2>2. CASE shm' = shm \cup {Segment} /\ new' = [new EXCEPT !.zones[i].addr = Segment]
    <3>1. at = "zones" /\ Reused = {} /\ UNCHANGED <<mode, old, fds, sockfiles>>
          /\ (Onward \/ Fails)
      BY <1>7 DEF AllocZone, Goto, Onward, Loading, Fails, disk
    <3>2. TakesZone(Segment)
      BY <2>1, <2>2, <3>1, Zenon DEF TakesZone
    <3> QED BY <3>1, <3>2 DEF Changes
  <2>3. CASE Goto("failed") /\ UNCHANGED <<shm, new>>
    BY <1>7, <2>3 DEF AllocZone, Quiet, Moves, Goto, Loading, Fails, disk
  <2> QED BY <1>7, <2>2, <2>3, Zenon DEF AllocZone
<1>8. CASE ZonesDone \/ InheritSocket \/ FreeZones \/ CloseSockets \/ CloseFiles \/ Finish
           \/ KeepFails \/ Rollback
  BY <1>8 DEF ZonesDone, InheritSocket, FreeZones, CloseSockets, CloseFiles, Finish, KeepFails,
              Rollback, Changes, Goto
<1>9. CASE OpenSocket
  <2>1. i \in DOMAIN new.listening
    BY <1>9, Indices, Within DEF OpenSocket
  <2>2. UNCHANGED <<mode, old, shm>> /\ at = "open" /\ new.listening[i].fd = Invalid
    BY <1>9 DEF OpenSocket
  <2>3. CASE UNCHANGED <<fds, sockfiles, new>> /\ ((i' = i + 1 /\ UNCHANGED at) \/ Goto("failed"))
    BY <2>2, <2>3 DEF Quiet, Moves, Goto, Onward, Loading, Fails
  <2>4. CASE OpensSocket
    BY <2>2, <2>4 DEF Changes
  <2>5. CASE ~OpensSocket
    <3>1. UNCHANGED <<fds, sockfiles, new>> /\ ((i' = i + 1 /\ UNCHANGED at) \/ Goto("failed"))
      BY <1>9, <2>1, <2>2, <2>5 DEF OpenSocket, OpensSocket, Onward
    <3> QED BY <2>3, <3>1
  <2> QED BY <2>4, <2>5
<1>10. CASE Reopen \/ Accept \/ (\E c \in live : CloseConnections(c)) \/ ngx_clean_old_cycles \/ Exit
  BY <1>10 DEF Reopen, Accept, CloseConnections, ngx_clean_old_cycles, Exit, Idle, Quiet, Moves,
               Goto, Between, disk
<1>11. CASE ReopenFile
  <2>1. i \in DOMAIN old.files
    BY <1>11, Indices, Within DEF ReopenFile
  <2> QED BY <1>11, <2>1 DEF ReopenFile, ReopensFile, Changes, Quiet, Moves, Between, disk
<1> QED BY <1>1, <1>2, <1>3, <1>4, <1>5, <1>6, <1>7, <1>8, <1>9, <1>10, <1>11, Zenon DEF Next, Load

-----------------------------------------------------------------------------
(* Types.                                                                   *)

(* A cycle that was just created has read its configuration and owns        *)
(* nothing yet: no file, no socket and no zone.                             *)
LEMMA NewCycleTyped ==
    ASSUME CycleTypes, NEW c \in Confs, NEW d, d = NewCycle(c)
    PROVE  /\ d \in Cycles /\ d.id = made + 1
           /\ NamesDistinct(d.zones) /\ \A k \in DOMAIN d.zones : d.zones[k].addr = NoSegment
           /\ \A k \in DOMAIN d.files : d.files[k].fd = IF d.files[k].name = Stderr THEN 0 ELSE Invalid
           /\ \A k \in DOMAIN d.listening : d.listening[k].fd = Invalid /\ ~d.listening[k].open
           /\ PathsOnce(d)
<1> DEFINE zs == Parsed(c).zones
           fs == [k \in DOMAIN c.files |->
                   [name |-> c.files[k], fd |-> IF c.files[k] = Stderr THEN 0 ELSE Invalid]]
           ls == [k \in DOMAIN c.listen |->
                   [at |-> c.listen[k], fd |-> Invalid, open |-> FALSE, remain |-> FALSE,
                    ignore |-> FALSE]]
<1>1. zs \in Seq(ZoneRecs) /\ NamesDistinct(zs) /\ \A k \in DOMAIN zs : zs[k].addr = NoSegment
  <2>1. ReadRecs \subseteq ZoneRecs
    BY DEF ReadRecs, ZoneRecs
  <2>2. zs \in Seq(ReadRecs) /\ NamesDistinct(zs)
    BY ParsedWellRead DEF WellRead
  <2> HIDE DEF zs
  <2>3. \A k \in DOMAIN zs : zs[k] \in ReadRecs
    BY <2>2
  <2>4. \A k \in DOMAIN zs : zs[k].addr = NoSegment
    BY <2>3 DEF ReadRecs
  <2> QED BY <2>1, <2>2, <2>4
<1>2. c.files \in Seq(Range(c.files)) /\ c.listen \in Seq(Range(c.listen)) /\ c.environment \in BOOLEAN
  BY CycleAssumption
<1>3. fs \in Seq(FileRecs)
  <2>1. PICK n \in Nat : DOMAIN c.files = 1 .. n
    BY <1>2
  <2>2. \A k \in DOMAIN fs : fs[k] \in FileRecs
    BY DEF FileRecs, Range, Invalid
  <2>3. DOMAIN fs = 1 .. n
    BY <2>1
  <2>4. fs = [k \in 1 .. n |-> fs[k]]
    BY <2>1
  <2> HIDE DEF fs
  <2> QED BY <2>2, <2>3, <2>4
<1>4. ls \in Seq(SocketRecs)
  <2>1. PICK n \in Nat : DOMAIN c.listen = 1 .. n
    BY <1>2
  <2>2. ASSUME NEW k \in DOMAIN ls PROVE ls[k] \in SocketRecs
    <3>1. c.listen[k] \in Wheres
      BY DEF Wheres, Range
    <3> QED BY <3>1 DEF SocketRecs, Invalid
  <2>3. DOMAIN ls = 1 .. n
    BY <2>1
  <2>4. ls = [k \in 1 .. n |-> ls[k]]
    BY <2>1
  <2> HIDE DEF ls
  <2> QED BY <2>2, <2>3, <2>4
<1>5. \A j, k \in DOMAIN ls :
          ls[j].at.addr = ls[k].at.addr /\ ls[k].at.addr \in Unix => j = k
  <2>1. \A j, k \in DOMAIN c.listen :
           c.listen[j].addr = c.listen[k].addr /\ c.listen[k].addr \in Unix => j = k
    BY CycleAssumption
  <2> QED BY <2>1
<1>6. d = [id |-> made + 1, conf |-> c, zones |-> zs, files |-> fs, listening |-> ls,
           environment |-> c.environment]
  BY DEF NewCycle
<1>7. /\ \A k \in DOMAIN fs : fs[k].fd = IF fs[k].name = Stderr THEN 0 ELSE Invalid
      /\ \A k \in DOMAIN ls : ls[k].fd = Invalid /\ ~ls[k].open
  OBVIOUS
<1> HIDE DEF zs, fs, ls
<1>8. made + 1 \in Nat
  BY DEF CycleTypes
<1>9. d \in Cycles
  BY <1>1, <1>2, <1>3, <1>4, <1>6, <1>8 DEF Cycles
<1> QED BY <1>1, <1>5, <1>6, <1>7, <1>9 DEF PathsOnce

(* The cycle of a process that has no configuration is a cycle like the     *)
(* others.                                                                  *)
LEMMA NoCycleTyped == NoCycle \in Cycles
BY DEF NoCycle, Cycles

(* Positions, numbers of cycles and the list of old cycles keep their       *)
(* types.                                                                   *)
LEMMA PlainTypes ==
    ASSUME CycleTypes, Next, old.id \in Nat
    PROVE  i' \in Nat \ {0} /\ made' \in Nat /\ old_cycles' \in Seq(Nat)
<1> USE DEF CycleTypes, Goto, oldCycles
<1>1. CASE \E c \in Confs : ReadConf(c) \/ RefuseConf(c)
  BY <1>1 DEF ReadConf, RefuseConf
<1>2. CASE Pass
  <2>1. made' = made /\ old_cycles' = old_cycles
    BY <1>2 DEF Pass
  <2>2. i' \in Nat \ {0}
    BY <1>2 DEF Pass, KeepPid, FilesOpen, ZeroZone, InheritDone, SkipSocket, SocketsOpen, Reopened
  <2> QED BY <2>1, <2>2
<1>3. CASE ngx_create_pidfile \/ PidFileFails \/ Paths \/ OpenFile \/ ReuseZone \/ AllocZone
           \/ ZonesDone \/ InheritSocket \/ OpenSocket \/ Commit
           \/ FreeZones \/ CloseSockets \/ CloseFiles \/ KeepFails \/ Rollback
  <2>1. made' = made /\ old_cycles' = old_cycles
    BY <1>3 DEF ngx_create_pidfile, PidFileFails, Paths, OpenFile, ReuseZone, AllocZone, ZonesDone,
                InheritSocket, OpenSocket, Commit, FreeZones, CloseSockets, CloseFiles,
                KeepFails, Rollback
  <2>2. i' = 1 \/ i' = i + 1
    BY <1>3, Zenon DEF ngx_create_pidfile, PidFileFails, Paths, OpenFile, ReuseZone, AllocZone,
                ZonesDone, InheritSocket, OpenSocket, Commit, FreeZones, CloseSockets, CloseFiles,
                KeepFails, Rollback
  <2> QED BY <2>1, <2>2
<1>4. CASE Finish
  <2>1. i' = 1 /\ made' = made
    BY <1>4 DEF Finish
  <2>2. old_cycles' = old_cycles \/ old_cycles' = Append(old_cycles, old.id)
    BY <1>4, Zenon DEF Finish
  <2>3. Append(old_cycles, old.id) \in Seq(Nat)
    BY DEF CycleTypes
  <2>4. made \in Nat /\ old_cycles \in Seq(Nat)
    BY DEF CycleTypes
  <2>5. old_cycles' \in Seq(Nat)
    BY <2>2, <2>3, <2>4, Zenon
  <2>6. i' \in Nat \ {0} /\ made' \in Nat
    BY <2>1, <2>4
  <2> QED BY <2>5, <2>6, Zenon
<1>5. CASE Reopen \/ ReopenFile \/ Accept \/ (\E c \in live : CloseConnections(c)) \/ Exit
  BY <1>5 DEF Reopen, ReopenFile, Accept, CloseConnections, Exit
<1>6. CASE ngx_clean_old_cycles
  <2> DEFINE kept == [k \in DOMAIN old_cycles |-> IF old_cycles[k] \in live THEN old_cycles[k] ELSE 0]
  <2>1. kept \in Seq(Nat)
    OBVIOUS
  <2> QED BY <1>6, <2>1 DEF ngx_clean_old_cycles
<1> QED BY <1>1, <1>2, <1>3, <1>4, <1>5, <1>6, Zenon DEF Next, Load

(* A new socket takes over an old one at the same address (the nested loops *)
(* over listening sockets in ngx_init_cycle).                               *)
LEMMA TakesFirst ==
    ASSUME CycleTypes, InheritSocket, Candidates # {}
    PROVE  \E k \in Candidates :
              /\ k \in DOMAIN old.listening
              /\ new' = [new EXCEPT !.listening[i].fd = old.listening[k].fd]
              /\ old' = [old EXCEPT !.listening[k].remain = TRUE]
<1>1. Candidates \in SUBSET Nat
  BY DEF Candidates, CycleTypes, Cycles
<1>2. \E c \in Candidates : \A d \in Candidates : c <= d
  BY <1>1, SmallestNumber
<1>3. PICK k \in Candidates : k = CHOOSE c \in Candidates : \A d \in Candidates : c <= d
  BY <1>2
<1>4. k \in DOMAIN old.listening
  BY DEF Candidates
<1> QED BY <1>3, <1>4 DEF InheritSocket

(* Every step keeps the types.                                              *)
LEMMA TypesStep ==
    ASSUME CycleTypes, Next, at # "exited", at' # "exited"
    PROVE  CycleTypes'
<1> USE DEF CycleTypes
<1> DEFINE Table == /\ fds' = [n \in DOMAIN fds' |-> fds'[n]]
                    /\ IsFiniteSet(DOMAIN fds') /\ DOMAIN fds' \subseteq Nat
           Places == (Loading \/ Committed \/ Between)'
<1>1. mode' = mode /\ i' \in Nat \ {0} /\ made' \in Nat /\ old_cycles' \in Seq(Nat)
  BY Kinds, PlainTypes DEF Cycles
<1>2. old.id \in Nat /\ new.id \in Nat /\ Free \in Int /\ Invalid \in Int
  BY FreeIsNew DEF Cycles, Invalid
<1> USE DEF Loading, Committed, Between, Fails, Onward, Goto, Frame
<1>3. CASE Quiet
  BY <1>1, <1>3 DEF Quiet, Moves
<1>4. CASE LeavesPid
  BY <1>1, <1>4, OpenedOne DEF LeavesPid
<1>5. CASE \E c \in Confs : ReadConf(c)
  <2>1. PICK c \in Confs : ReadConf(c)
    BY <1>5
  <2>2. new' \in Cycles
    BY <2>1, NewCycleTyped DEF ReadConf
  <2> QED BY <1>1, <2>1, <2>2 DEF ReadConf
<1>6. CASE OpensFile
  <2>1. new' \in Cycles
    BY <1>2, <1>6, FileChanged DEF OpensFile
  <2>2. Table
    BY <1>6, OpenedOne DEF OpensFile
  <2> QED BY <1>1, <1>6, <2>1, <2>2 DEF OpensFile
<1>7. CASE \E a : TakesZone(a)
  <2>1. PICK a : TakesZone(a)
    BY <1>7
  <2>2. a \in Segments \cup {NoSegment} /\ shm' \subseteq Segments
    <3>0. Zone \in ZoneRecs
      BY <2>1 DEF TakesZone, Zone, Cycles
    <3>1. Segment \in Segments
      BY <1>2, <3>0 DEF Segment, Segments, ZoneRecs
    <3>2. \A k \in Reused : old.zones[k].addr \in Segments \cup {NoSegment}
      <4>1. \A k \in Reused : old.zones[k] \in ZoneRecs
        BY DEF Reused, Cycles
      <4> QED BY <4>1 DEF ZoneRecs
    <3>3. \/ a = Segment /\ shm' = shm \cup {Segment}
          \/ (\E k \in Reused : a = old.zones[k].addr) /\ shm' = shm
      BY <2>1, Zenon DEF TakesZone
    <3> HIDE DEF CycleTypes
    <3>4. shm \subseteq Segments
      BY DEF CycleTypes
    <3> QED BY <3>1, <3>2, <3>3, <3>4
  <2>3. new' \in Cycles
    BY <2>1, <2>2, ZoneChanged DEF TakesZone
  <2> QED BY <1>1, <2>1, <2>2, <2>3 DEF TakesZone
<1>8. CASE ZonesDone
  BY <1>1, <1>8, RemainReset DEF ZonesDone
<1>9. CASE InheritSocket
  <2>1. i \in DOMAIN new.listening
    BY <1>9, Indices, Within DEF InheritSocket
  <2>2. new' \in Cycles /\ old' \in Cycles
    <3>1. CASE Candidates = {}
      BY <1>9, <2>1, <3>1, OpenChanged DEF InheritSocket, SocketOnly
    <3>2. CASE Candidates # {}
      <4>1. PICK k \in DOMAIN old.listening :
              /\ new' = [new EXCEPT !.listening[i].fd = old.listening[k].fd]
              /\ old' = [old EXCEPT !.listening[k].remain = TRUE]
        BY <1>9, <3>2, TakesFirst
      <4>2. old.listening[k].fd \in Int
        <5>1. old.listening[k] \in SocketRecs
          BY DEF Cycles
        <5> QED BY <5>1 DEF SocketRecs
      <4> QED BY <2>1, <4>1, <4>2, FdChanged, RemainChanged DEF SocketOnly
    <3> QED BY <3>1, <3>2
  <2> QED BY <1>1, <1>9, <2>2 DEF InheritSocket
<1>10. CASE OpensSocket
  <2>1. new' \in Cycles
    BY <1>2, <1>10, FdChanged DEF OpensSocket, SocketOnly
  <2>2. Table
    BY <1>10, OpenedOne DEF OpensSocket
  <2> QED BY <1>1, <1>10, <2>1, <2>2 DEF OpensSocket
<1>11. CASE FreeZones
  BY <1>1, <1>11 DEF FreeZones
<1>12. CASE CloseSockets \/ CloseFiles
  <2>1. PICK S : fds' = Closed(S)
    BY <1>12, Zenon DEF CloseSockets, CloseFiles
  <2>2. Table
    <3> HIDE DEF CycleTypes
    <3> QED BY <2>1, ClosedSome, Zenon
  <2> QED BY <1>1, <1>12, <2>2 DEF CloseSockets, CloseFiles
<1>13. CASE Finish
  <2>1. [new EXCEPT !.environment = TRUE] \in Cycles
    BY DEF Cycles
  <2>2. old' \in Cycles /\ new' \in Cycles
    BY <1>13, <2>1, NoCycleTyped DEF Finish
  <2> QED BY <1>1, <1>13, <2>2 DEF Finish
<1>14. CASE Rollback
  <2>1. PICK S : fds' = Closed(S)
    BY <1>14, Zenon DEF Rollback
  <2>2. Table
    <3> HIDE DEF CycleTypes
    <3> QED BY <2>1, ClosedSome, Zenon
  <2> QED BY <1>1, <1>14, <2>2, NoCycleTyped DEF Rollback
<1>15. CASE ReopensFile
  <2>1. old' \in Cycles
    BY <1>2, <1>15, FileChanged DEF ReopensFile
  <2>2. Table
    <3>0. IsFiniteSet(DOMAIN fds \ {old.files[i].fd})
      BY FS_RemoveElement
    <3>1. IsFiniteSet((DOMAIN fds \ {old.files[i].fd}) \cup {Free})
      BY <3>0, FS_AddElement
    <3> QED BY <1>15, <3>1, FreeIsNew DEF ReopensFile
  <2> QED BY <1>1, <1>15, <2>1, <2>2 DEF ReopensFile
<1> QED BY Kinds, <1>3, <1>4, <1>5, <1>6, <1>7, <1>8, <1>9, <1>10, <1>11, <1>12, <1>13, <1>14, <1>15, Zenon DEF Changes

-----------------------------------------------------------------------------
(* Numbers of cycles, and pools.                                            *)

(* Cycles come and go in three steps only.                                  *)
SameCycles ==
    /\ old'.id = old.id /\ new'.id = new.id /\ old'.conf = old.conf /\ new'.conf = new.conf
    /\ IF Between THEN Between' /\ new' = new ELSE ~Between'
    /\ Loading' => Loading

(* Which cycles there are changes at three places only: a configuration is  *)
(* read, the new cycle replaces the old one, or it is rolled back.          *)
LEMMA CyclesStay ==
    ASSUME CycleTypes, Next, at # "exited", at' # "exited"
    PROVE  SameCycles \/ (\E c \in Confs : ReadConf(c)) \/ Finish \/ Rollback
<1> USE DEF SameCycles, Between, Loading, Fails, Onward, Goto
<1>1. old \in Cycles /\ new \in Cycles /\ Free \in Int
  BY FreeIsNew DEF CycleTypes
<1>2. CASE Quiet \/ LeavesPid
  BY <1>2 DEF Quiet, LeavesPid, Moves
<1>3. CASE OpensFile \/ ReopensFile
  BY <1>1, <1>3, FileChanged DEF OpensFile, ReopensFile, Frame
<1>4. CASE \E a : TakesZone(a)
  <2>1. PICK a : TakesZone(a)
    BY <1>4
  <2>2. new'.id = new.id /\ new'.conf = new.conf
    BY <2>1, <1>1 DEF TakesZone, Cycles
  <2> QED BY <2>1, <2>2 DEF TakesZone
<1>5. CASE ZonesDone
  BY <1>1, <1>5, RemainReset DEF ZonesDone, Frame
<1>6. CASE InheritSocket
  <2>1. CASE Candidates = {}
    BY <1>1, <1>6, <2>1 DEF InheritSocket, Cycles
  <2>2. CASE Candidates # {}
    BY <1>1, <1>6, <2>2, TakesFirst DEF InheritSocket, Cycles
  <2> QED BY <2>1, <2>2
<1>7. CASE OpensSocket
  BY <1>1, <1>7, FdChanged DEF OpensSocket, SocketOnly, Frame
<1>8. CASE FreeZones \/ CloseSockets \/ CloseFiles
  BY <1>8 DEF FreeZones, CloseSockets, CloseFiles
<1> QED BY Kinds, <1>2, <1>3, <1>4, <1>5, <1>6, <1>7, <1>8 DEF Changes

(* The numbers of cycles, the committed ones, the pools and the old cycles  *)
(* change at a few places only.                                             *)
LEMMA CountsStay ==
    ASSUME Next
    PROVE  \/ \E c \in Confs : ReadConf(c) \/ RefuseConf(c)
           \/ Commit \/ Finish \/ Rollback
           \/ Accept \/ (\E c \in live : CloseConnections(c)) \/ ngx_clean_old_cycles
           \/ UNCHANGED <<made, committed, pools, old_cycles, live>>
BY DEF Next, Load, Pass, ngx_create_pidfile, PidFileFails, Paths, OpenFile,
       ReuseZone, AllocZone, ZonesDone, InheritSocket, OpenSocket,
       FreeZones, CloseSockets, CloseFiles, KeepFails, Reopen, ReopenFile, Exit, history, oldCycles

(* Only a commit brings the process behind the commit.                      *)
LEMMA CommittedHow ==
    ASSUME Next, at' # "exited", Committed'
    PROVE  Commit \/ Committed
<1> USE DEF Goto, Idle, Committed
<1>1. CASE \E c \in Confs : ReadConf(c) \/ RefuseConf(c)
  BY <1>1 DEF ReadConf, RefuseConf
<1>2. CASE Pass
  BY <1>2 DEF Pass, KeepPid, FilesOpen, ZeroZone, InheritDone, SkipSocket, SocketsOpen, Reopened
<1>3. CASE ngx_create_pidfile \/ PidFileFails \/ Paths \/ ReuseZone \/ AllocZone
  BY <1>3 DEF ngx_create_pidfile, PidFileFails, Paths, ReuseZone, AllocZone
<1>4. CASE OpenFile
  BY <1>4 DEF OpenFile
<1>5. CASE OpenSocket
  BY <1>5 DEF OpenSocket
<1>6. CASE ZonesDone \/ InheritSocket \/ FreeZones \/ CloseSockets \/ CloseFiles \/ Finish
           \/ KeepFails \/ Rollback
  BY <1>6 DEF ZonesDone, InheritSocket, FreeZones, CloseSockets, CloseFiles, Finish, KeepFails,
              Rollback
<1>7. CASE Reopen \/ ReopenFile \/ Accept \/ (\E c \in live : CloseConnections(c))
           \/ ngx_clean_old_cycles \/ Exit
  BY <1>7 DEF Reopen, ReopenFile, Accept, CloseConnections, ngx_clean_old_cycles, Exit
<1> QED BY <1>1, <1>2, <1>3, <1>4, <1>5, <1>6, <1>7, Zenon DEF Next, Load

(* Every step keeps the order of the cycles: the one that is being loaded   *)
(* is the last one read, not committed before its commit and then           *)
(* committed.                                                               *)
LEMMA NumberedStep ==
    ASSUME CycleTypes, Numbered, Next, at # "exited", at' # "exited"
    PROVE  Numbered'
<1> USE DEF Numbered, Between, Loading, Committed, Goto
<1>1. PICK o \in Nat, n \in Nat, m \in Nat : o = old.id /\ n = new.id /\ m = made
  BY DEF CycleTypes, Cycles
<1>2. CASE \E c \in Confs : ReadConf(c)
  <2>1. PICK c \in Confs : ReadConf(c)
    BY <1>2
  <2>2. new'.id = made + 1 /\ UNCHANGED <<old, committed>> /\ made' = made + 1 /\ at' = "pidfile"
    BY <2>1, NewCycleTyped DEF ReadConf
  <2> QED BY <1>1, <2>2
<1>3. CASE \E c \in Confs : RefuseConf(c)
  <2>1. UNCHANGED <<old, new, committed>> /\ made' = made + 1 /\ at = "idle" /\ at' = at
    BY <1>3 DEF RefuseConf, history
  <2> QED BY <1>1, <2>1
<1>4. CASE Commit
  <2>1. /\ UNCHANGED <<old, new, made>> /\ at = "commit" /\ at' = "free"
        /\ committed' = committed \cup {new.id}
    BY <1>4 DEF Commit
  <2>2. n = m /\ o < n /\ committed \subseteq 0 .. m
    BY <1>1, <2>1
  <2>3. committed' \subseteq 0 .. m
    BY <1>1, <2>1, <2>2
  <2> QED BY <1>1, <2>1, <2>2, <2>3
<1>5. CASE Finish
  <2>1. old'.id = new.id
    BY <1>5 DEF Finish, CycleTypes, Cycles
  <2>2. UNCHANGED <<made, committed>> /\ at = "finish" /\ at' = "idle" /\ new' = NoCycle
    BY <1>5 DEF Finish, history
  <2> QED BY <1>1, <2>1, <2>2
<1>6. CASE Rollback
  <2>1. UNCHANGED <<old, made, committed>> /\ at = "failed" /\ at' = "idle" /\ new' = NoCycle
    BY <1>6 DEF Rollback, history
  <2> QED BY <1>1, <2>1
<1>7. CASE UNCHANGED <<made, committed>> /\ SameCycles /\ ~Commit
  <2>1. Committed' => Committed
    BY <1>7, CommittedHow
  <2> HIDE DEF Committed
  <2> QED BY <1>7, <2>1 DEF SameCycles
<1>8. CASE Accept \/ (\E c \in live : CloseConnections(c)) \/ ngx_clean_old_cycles
  BY <1>8 DEF Idle, Accept, CloseConnections, ngx_clean_old_cycles, history
<1> QED BY CyclesStay, CountsStay, <1>2, <1>3, <1>4, <1>5, <1>6, <1>7, <1>8, Zenon

(* Every step keeps the pools: those of the cycle in force, of the one that *)
(* is being loaded and of the old cycles with connections, and no other     *)
(* (ngx_destroy_pool in ngx_init_cycle and ngx_clean_old_cycles).           *)
LEMMA PoolsStep ==
    ASSUME CycleTypes, Numbered, PoolsInv, Next, at # "exited", at' # "exited"
    PROVE  PoolsInv'
<1> USE DEF Between, Goto, Range
<1>1. PICK o \in Nat, n \in Nat, m \in Nat : o = old.id /\ n = new.id /\ m = made
  BY DEF CycleTypes, Cycles
<1>2. PICK s \in Seq(Nat) : s = old_cycles
  BY DEF CycleTypes
<1>3. mode' = mode
  BY Kinds
<1>4. CASE \E c \in Confs : ReadConf(c)
  <2>1. PICK c \in Confs : ReadConf(c)
    BY <1>4
  <2>2. /\ new'.id = made + 1 /\ UNCHANGED <<old, live, old_cycles>> /\ at = "idle"
        /\ at' = "pidfile" /\ pools' = pools \cup {made + 1}
    BY <2>1, NewCycleTyped DEF ReadConf, oldCycles
  <2>3. made + 1 \notin live
    <3>1. \A x \in pools : x \in Nat /\ x <= made
      BY <1>1, <1>2, <2>2 DEF PoolsInv, Numbered
    <3> QED BY <1>1, <3>1 DEF PoolsInv
  <2> QED BY <1>3, <2>2, <2>3 DEF PoolsInv
<1>5. CASE \E c \in Confs : RefuseConf(c)
  <2>1. UNCHANGED <<old, new, pools, old_cycles, live>> /\ at' = at
    BY <1>5 DEF RefuseConf, oldCycles
  <2> QED BY <1>3, <2>1 DEF PoolsInv
<1>6. CASE Commit
  <2>1. UNCHANGED <<old, new, pools, old_cycles, live>> /\ at = "commit" /\ at' = "free"
    BY <1>6 DEF Commit, oldCycles
  <2> QED BY <1>3, <2>1 DEF PoolsInv
<1>7. CASE Finish
  <2>1. old'.id = new.id
    BY <1>7 DEF Finish, CycleTypes, Cycles
  <2>2. at = "finish" /\ at' = "idle" /\ new' = NoCycle /\ live' = live
    BY <1>7 DEF Finish
  <2>3. o < n /\ \A k \in DOMAIN s : s[k] = 0 \/ s[k] < o
    BY <1>1, <1>2, <2>2 DEF PoolsInv, Numbered
  <2>4. CASE (mode = "master" \/ old.id = 0) /\ pools' = pools \ {old.id} /\ old_cycles' = old_cycles
    <3>1. live \subseteq pools' \ {0}
      BY <2>4 DEF PoolsInv
    <3> QED BY <1>1, <1>2, <1>3, <2>1, <2>2, <2>3, <2>4, <3>1 DEF PoolsInv
  <2>5. CASE mode # "master" /\ old_cycles' = Append(old_cycles, old.id) /\ pools' = pools /\ old.id # 0
    <3> DEFINE t == Append(s, o)
    <3>1. \A k \in DOMAIN t : t[k] = 0 \/ t[k] < n
      BY <2>3
    <3>2. {t[k] : k \in DOMAIN t} = {s[k] : k \in DOMAIN s} \cup {o}
      <4>1. /\ DOMAIN t = DOMAIN s \cup {Len(s) + 1} /\ t[Len(s) + 1] = o
            /\ \A k \in DOMAIN s : t[k] = s[k]
        BY AppendProperties
      <4> HIDE DEF t
      <4> QED BY <4>1
    <3>3. old_cycles' = t
      BY <1>1, <1>2, <2>5
    <3> HIDE DEF t
    <3>4. pools = {o, n} \cup ({s[k] : k \in DOMAIN s} \ {0}) /\ o # 0
      BY <1>1, <1>2, <2>2, <2>5 DEF PoolsInv
    <3>5. pools' = {n} \cup ({old_cycles'[k] : k \in DOMAIN old_cycles'} \ {0})
      BY <2>5, <3>2, <3>3, <3>4
    <3>6. \A k \in DOMAIN old_cycles' : old_cycles'[k] = 0 \/ old_cycles'[k] < n
      BY <3>1, <3>3
    <3> QED BY <1>1, <1>3, <2>1, <2>2, <2>5, <3>5, <3>6 DEF PoolsInv
  <2> QED BY <1>7, <2>4, <2>5 DEF Finish, ngx_is_init_cycle
<1>8. CASE Rollback
  <2>1. /\ UNCHANGED <<old, old_cycles, live>> /\ at = "failed" /\ at' = "idle"
        /\ pools' = pools \ {new.id}
    BY <1>8 DEF Rollback, oldCycles
  <2>2. o < n /\ \A k \in DOMAIN s : s[k] < n
    BY <1>1, <1>2, <2>1 DEF PoolsInv, Numbered
  <2> QED BY <1>1, <1>2, <1>3, <2>1, <2>2 DEF PoolsInv
<1>9. CASE UNCHANGED <<pools, old_cycles, live>> /\ SameCycles
  BY <1>3, <1>9 DEF SameCycles, PoolsInv
<1>10. CASE Accept \/ (\E c \in live : CloseConnections(c))
  <2>1. /\ UNCHANGED <<old, new, pools, old_cycles, at>> /\ at = "idle"
        /\ \/ live' = live \cup {old.id} /\ old.id # 0 /\ mode = "single"
           \/ \E c : live' = live \ {c}
    BY <1>10 DEF Accept, CloseConnections, Idle, ngx_is_init_cycle
  <2> QED BY <1>3, <2>1 DEF PoolsInv
<1>11. CASE ngx_clean_old_cycles
  <2> DEFINE t == [k \in DOMAIN s |-> IF s[k] \in live THEN s[k] ELSE 0]
  <2>1. /\ UNCHANGED <<old, new, live, at>> /\ at = "idle" /\ old_cycles' \in {t, <<>>} /\ o # 0
        /\ old_cycles' = <<>> => \A k \in DOMAIN s : s[k] \in live => s[k] = 0
        /\ pools' = pools \ ({s[k] : k \in DOMAIN s} \ live)
    <3>1. old_cycles' = IF \E k \in DOMAIN t : t[k] # 0 THEN t ELSE <<>>
      BY <1>2, <1>11, Zenon DEF ngx_clean_old_cycles
    <3>2. old_cycles' = <<>> => \A k \in DOMAIN s : s[k] \in live => s[k] = 0
      <4>1. CASE \E k \in DOMAIN t : t[k] # 0
        <5>1. DOMAIN t # {}
          BY <4>1
        <5>2. old_cycles' # <<>>
          BY <3>1, <4>1, <5>1
        <5> QED BY <5>2
      <4>2. CASE \A k \in DOMAIN t : t[k] = 0
        BY <4>2
      <4> QED BY <4>1, <4>2
    <3> HIDE DEF t
    <3> QED BY <1>1, <1>2, <1>11, <3>1, <3>2 DEF ngx_clean_old_cycles, Idle, ngx_is_init_cycle
  <2>2. \A k \in DOMAIN s : s[k] = 0 \/ s[k] < o
    BY <1>1, <1>2 DEF PoolsInv
  <2>3. /\ \A k \in DOMAIN old_cycles' : old_cycles'[k] = 0 \/ old_cycles'[k] < o
        /\ {old_cycles'[k] : k \in DOMAIN old_cycles'} \ {0} = ({s[k] : k \in DOMAIN s} \cap live) \ {0}
    <3>1. CASE old_cycles' = t
      BY <2>2, <3>1
    <3>2. CASE old_cycles' = <<>>
      <4>1. DOMAIN old_cycles' = {}
        BY <3>2
      <4> QED BY <2>1, <3>2, <4>1
    <3> QED BY <2>1, <3>1, <3>2
  <2>4. pools = {o} \cup ({s[k] : k \in DOMAIN s} \ {0})
    BY <1>1, <1>2, <2>1 DEF PoolsInv
  <2> HIDE DEF t
  <2>5. o \notin {s[k] : k \in DOMAIN s} \ live
    BY <2>1, <2>2
  <2>6. pools' = {o} \cup (({s[k] : k \in DOMAIN s} \cap live) \ {0})
    BY <2>1, <2>4, <2>5
  <2> QED BY <1>1, <1>3, <2>1, <2>3, <2>6 DEF PoolsInv
<1> QED BY CyclesStay, CountsStay, <1>4, <1>5, <1>6, <1>7, <1>8, <1>9, <1>10, <1>11, Zenon

-----------------------------------------------------------------------------
(* Files.                                                                   *)

(* A step that keeps the lists of files, closes none of them and does not   *)
(* come past the opening of files keeps what holds of the files.            *)
LEMMA FilesFrame ==
    ASSUME FilesInv, old'.files = old.files, new'.files = new.files,
           \A n \in DOMAIN fds : (\E name : fds[n] = FileOf(name)) => n \in DOMAIN fds' /\ fds'[n] = fds[n],
           OldFiles' \subseteq OldFiles, FilesUntouched'
    PROVE  FilesInv'
<1>1. \A k \in OldFiles : Opens(old.files[k]) => Opens(old.files[k])'
  BY DEF Opens
<1>2. \A k \in DOMAIN new.files : Opens(new.files[k]) => Opens(new.files[k])'
  BY DEF Opens
<1>3. StderrOpen'
  BY DEF FilesInv, StderrOpen
<1> QED BY <1>1, <1>2, <1>3 DEF FilesInv, FilesDistinct, Own

(* A descriptor of a socket is not one of a file.                           *)
LEMMA NotBoth ==
    ASSUME NEW n, NEW l, n = l.fd, Serves(l)
    PROVE  \A name : fds[n] # FileOf(name)
BY DEF Serves, FileOf

(* The descriptors of files are in use, so the next one that is opened is   *)
(* none of them.                                                            *)
LEMMA FilesOpened ==
    ASSUME CycleTypes, FilesInv
    PROVE  /\ \A k \in OldFiles : old.files[k].fd \in DOMAIN fds
           /\ \A k \in DOMAIN new.files : new.files[k].fd # Invalid => new.files[k].fd \in DOMAIN fds
           /\ Free \in Nat \ DOMAIN fds /\ Invalid \notin DOMAIN fds /\ Free # 0 /\ Free # Invalid
           /\ 0 # Invalid
BY FreeIsNew DEF FilesInv, Opens, Invalid, CycleTypes, StderrOpen

(* Every step keeps the files: each opened file of a cycle is open under    *)
(* its own descriptor, in both cycles at once and through reopening         *)
(* (ngx_reopen_files).                                                      *)
LEMMA FilesStep ==
    ASSUME CycleTypes, Numbered, FilesInv, SocketsInv, Next, at # "exited", at' # "exited"
    PROVE  FilesInv'
<1> USE DEF Between, Loading, Committed, Fails, Onward, Goto
<1>0. old \in Cycles /\ new \in Cycles /\ Free \in Int /\ Invalid \in Int /\ i \in Nat
  BY FreeIsNew DEF CycleTypes, Invalid
<1>1. CASE Quiet
  <2>1. FilesUntouched'
    BY <1>0, <1>1, FilesOpened, Indices DEF Quiet, Moves, FilesInv, FilesUntouched, Own, StderrOpen
  <2> QED BY <1>1, <2>1, FilesFrame DEF Quiet, Moves, OldFiles
<1>2. CASE LeavesPid
  <2>1. FilesUntouched'
    BY <1>2 DEF LeavesPid, FilesInv, FilesUntouched
  <2> QED BY <1>2, <2>1, OpenedOne, FilesFrame DEF LeavesPid, OldFiles
<1>3. CASE \E c \in Confs : ReadConf(c)
  <2>1. PICK c \in Confs : ReadConf(c)
    BY <1>3
  <2>2. new' = NewCycle(c) /\ UNCHANGED <<old, fds>> /\ at = "idle" /\ at' = "pidfile"
    BY <2>1 DEF ReadConf
  <2>3. \A k \in DOMAIN new'.files :
           new'.files[k].fd = IF new'.files[k].name = Stderr THEN 0 ELSE Invalid
    BY <2>2, NewCycleTyped
  <2>4. \A k \in DOMAIN new'.files : ~Own(new'.files[k])
    BY <2>3, FilesOpened DEF Own
  <2>5. \A k \in OldFiles' : Opens(old.files[k])'
    BY <2>2 DEF FilesInv, Opens, OldFiles
  <2>6. \A k \in DOMAIN new'.files : new'.files[k].fd # Invalid => Opens(new.files[k])'
    BY <2>2, <2>3 DEF FilesInv, StderrOpen, Opens
  <2>7. StderrOpen' /\ FilesUntouched'
    BY <2>2, <2>3, <2>4, FilesOpened DEF FilesInv, StderrOpen, FilesUntouched, Own
  <2> QED BY <2>2, <2>4, <2>5, <2>6, <2>7 DEF FilesInv, FilesDistinct, Own
<1>4. CASE OpensFile
  <2>1. /\ i \in DOMAIN new.files /\ DOMAIN new'.files = DOMAIN new.files
        /\ new'.files[i].name = new.files[i].name /\ new'.files[i].fd = Free
        /\ \A j \in DOMAIN new.files \ {i} : new'.files[j] = new.files[j]
        /\ old' = old /\ OldFiles' = OldFiles /\ new.files[i].name # Stderr
    BY <1>0, <1>4, FileChanged DEF OpensFile, OldFiles
  <2>2. /\ DOMAIN fds' = DOMAIN fds \cup {Free} /\ fds'[Free] = FileOf(new.files[i].name)
        /\ \A n \in DOMAIN fds : fds'[n] = fds[n]
    BY <1>4, OpenedOne DEF OpensFile
  <2>3. \A k \in OldFiles' : Opens(old.files[k])'
    BY <2>1, <2>2 DEF FilesInv, Opens
  <2>4. \A k \in DOMAIN new'.files : new'.files[k].fd # Invalid => Opens(new.files[k])'
    BY <2>1, <2>2 DEF FilesInv, Opens
  <2>5. FilesDistinct(new'.files)
    BY <2>1, FilesOpened DEF FilesInv, FilesDistinct, Own
  <2>6. \A j \in OldFiles', k \in DOMAIN new'.files :
           Own(new'.files[k]) => old'.files[j].fd # new'.files[k].fd
    BY <2>1, FilesOpened DEF FilesInv, Own
  <2>7. StderrOpen'
    BY <2>1, <2>2, FilesOpened DEF FilesInv, StderrOpen
  <2>8. FilesUntouched'
    BY <1>0, <1>4, <2>1, FilesOpened, Indices DEF OpensFile, FilesInv, FilesUntouched, Own
  <2> QED BY <2>1, <2>3, <2>4, <2>5, <2>6, <2>7, <2>8 DEF FilesInv, Own
<1>5. CASE \E a : TakesZone(a)
  <2>1. PICK a : TakesZone(a)
    BY <1>5
  <2>2. new'.files = new.files /\ at = "zones" /\ at' \in {"zones", "failed"} /\ UNCHANGED <<old, fds>>
    BY <1>0, <2>1 DEF TakesZone, Cycles
  <2>3. FilesUntouched'
    BY <2>2 DEF FilesInv, FilesUntouched
  <2> QED BY <2>2, <2>3, FilesFrame DEF OldFiles
<1>6. CASE ZonesDone
  <2>1. old'.files = old.files /\ UNCHANGED <<new, fds>> /\ at = "zones" /\ at' = "listen"
    BY <1>0, <1>6, RemainReset DEF ZonesDone
  <2>2. FilesUntouched'
    BY <2>1 DEF FilesInv, FilesUntouched
  <2> QED BY <2>1, <2>2, FilesFrame DEF OldFiles
<1>7. CASE InheritSocket
  <2>1. old'.files = old.files /\ new'.files = new.files
    <3>1. CASE Candidates = {}
      BY <1>0, <1>7, <3>1 DEF InheritSocket, Cycles
    <3>2. CASE Candidates # {}
      BY <1>0, <1>7, <3>2, TakesFirst DEF InheritSocket, Cycles
    <3> QED BY <3>1, <3>2
  <2>2. UNCHANGED <<at, fds>> /\ at = "listen"
    BY <1>7 DEF InheritSocket
  <2>3. FilesUntouched'
    BY <2>1, <2>2 DEF FilesInv, FilesUntouched
  <2> QED BY <2>1, <2>2, <2>3, FilesFrame DEF OldFiles
<1>8. CASE OpensSocket
  <2>1. new'.files = new.files /\ UNCHANGED <<at, old>> /\ at = "open"
    BY <1>0, <1>8 DEF OpensSocket, Cycles
  <2>2. FilesUntouched'
    BY <2>1 DEF FilesInv, FilesUntouched
  <2> QED BY <1>8, <2>1, <2>2, OpenedOne, FilesFrame DEF OpensSocket, OldFiles
<1>9. CASE FreeZones
  <2>1. UNCHANGED <<old, new, fds>> /\ at = "free" /\ at' = "close"
    BY <1>9 DEF FreeZones
  <2>2. FilesUntouched'
    BY <2>1 DEF FilesInv, FilesUntouched
  <2> QED BY <2>1, <2>2, FilesFrame DEF OldFiles
<1>10. CASE CloseSockets
  <2>1. UNCHANGED <<old, new>> /\ at = "close" /\ at' = "close_files"
        /\ fds' = Closed({l.fd : l \in Leaving})
    BY <1>10 DEF CloseSockets
  <2>2. FilesUntouched'
    BY <2>1 DEF FilesInv, FilesUntouched
  <2>3. \A n \in {l.fd : l \in Leaving} : \A name : fds[n] # FileOf(name)
    BY <2>1, NotBoth DEF SocketsInv, OldSockets, Leaving, Range
  <2>4. \A n \in DOMAIN fds : (\E name : fds[n] = FileOf(name))
                              => n \in DOMAIN fds' /\ fds'[n] = fds[n]
    <3>1. PICK S : S = {l.fd : l \in Leaving}
      OBVIOUS
    <3>2. fds' = Closed(S) /\ \A n \in S : \A name : fds[n] # FileOf(name)
      BY <2>1, <2>3, <3>1
    <3>3. DOMAIN fds' = DOMAIN fds \ S /\ \A n \in DOMAIN fds' : fds'[n] = fds[n]
      BY <3>2, ClosedSome
    <3> QED BY <3>2, <3>3, Zenon
  <2> QED BY <2>1, <2>2, <2>4, FilesFrame DEF OldFiles
<1>11. CASE CloseFiles
  <2>1. UNCHANGED <<old, new>> /\ at = "close_files" /\ at' = "finish" /\ fds' = Closed(OwnFiles(old))
    BY <1>11 DEF CloseFiles
  <2>2. OldFiles' = {} /\ OldFiles = DOMAIN old.files
    BY <2>1 DEF OldFiles
  <2>3. \A n \in OwnFiles(old) : \E k \in OldFiles : n = old.files[k].fd /\ Own(old.files[k])
    BY <2>2 DEF OwnFiles, Own, Range
  <2>4. 0 \notin OwnFiles(old)
    BY <2>2, <2>3 DEF FilesInv, StderrOpen, Own
  <2>5. \A k \in DOMAIN new.files : new.files[k].fd \notin OwnFiles(old)
    <3>1. ASSUME NEW k \in DOMAIN new.files, new.files[k].fd \in OwnFiles(old) PROVE FALSE
      <4>1. new.files[k].fd # Invalid /\ new.files[k].fd # 0
        BY <2>3, <2>4, <3>1 DEF Own
      <4>2. Own(new.files[k])
        BY <4>1 DEF Own, FilesInv, StderrOpen
      <4> QED BY <2>3, <3>1, <4>2 DEF FilesInv
    <3> QED BY <3>1
  <2>6. DOMAIN fds' = DOMAIN fds \ OwnFiles(old) /\ \A n \in DOMAIN fds' : fds'[n] = fds[n]
    BY <2>1, ClosedSome
  <2>7. \A k \in DOMAIN new'.files : new'.files[k].fd # Invalid => Opens(new.files[k])'
    BY <2>1, <2>5, <2>6 DEF FilesInv, Opens
  <2>8. StderrOpen' /\ FilesUntouched'
    BY <2>1, <2>4, <2>6 DEF FilesInv, StderrOpen, FilesUntouched
  <2> QED BY <2>1, <2>2, <2>7, <2>8 DEF FilesInv, FilesDistinct, Own
<1>12. CASE Finish
  <2>1. old'.files = new.files /\ new' = NoCycle /\ fds' = fds /\ at = "finish" /\ at' = "idle"
    BY <1>0, <1>12 DEF Finish, Cycles
  <2>2. DOMAIN new'.files = {}
    BY <2>1 DEF NoCycle
  <2>3. \A k \in DOMAIN new.files : new.files[k].fd # Invalid /\ Opens(new.files[k])
    BY <2>1 DEF FilesInv, FilesUntouched
  <2>4. \A k \in OldFiles' : Opens(old.files[k])'
    BY <2>1, <2>3 DEF OldFiles, Opens
  <2>5. StderrOpen' /\ FilesUntouched'
    BY <2>1, <2>2 DEF FilesInv, StderrOpen, FilesUntouched
  <2> QED BY <2>1, <2>2, <2>4, <2>5 DEF FilesInv, FilesDistinct, Own
<1>13. CASE Rollback
  <2>1. PICK S : S = OwnFiles(new) \cup
                     IF mode = "test" THEN {}
                     ELSE {l.fd : l \in {k \in Range(new.listening) : k.fd # Invalid /\ k.open}}
    OBVIOUS
  <2>2. old' = old /\ new' = NoCycle /\ fds' = Closed(S) /\ at = "failed" /\ at' = "idle"
    BY <1>13, <2>1 DEF Rollback
  <2>3. \A n \in S : \/ \E k \in DOMAIN new.files : n = new.files[k].fd /\ Own(new.files[k])
                     \/ \A name : fds[n] # FileOf(name)
    <3>1. ASSUME NEW k \in DOMAIN new.listening, new.listening[k].fd # Invalid
          PROVE  \A name : fds[new.listening[k].fd] # FileOf(name)
      BY <3>1, NotBoth DEF SocketsInv, NewSockets
    <3> QED BY <2>1, <3>1 DEF OwnFiles, Own, Range
  <2>4. 0 \notin S
    BY <2>3 DEF FilesInv, StderrOpen, Own
  <2>5. DOMAIN fds' = DOMAIN fds \ S /\ \A n \in DOMAIN fds' : fds'[n] = fds[n]
    BY <2>2, ClosedSome
  <2>6. OldFiles' = DOMAIN old.files /\ OldFiles = DOMAIN old.files
    BY <2>2 DEF OldFiles
  <2>7. \A k \in OldFiles' : Opens(old.files[k])'
    <3>1. \A k \in OldFiles : Opens(old.files[k]) /\ old.files[k].fd \notin S
      BY <2>3 DEF FilesInv, Opens
    <3> QED BY <2>2, <2>5, <2>6, <3>1 DEF Opens
  <2>8. DOMAIN new'.files = {}
    BY <2>2 DEF NoCycle
  <2>9. StderrOpen' /\ FilesUntouched'
    BY <2>2, <2>4, <2>5, <2>8 DEF FilesInv, StderrOpen, FilesUntouched
  <2> QED BY <2>2, <2>7, <2>8, <2>9 DEF FilesInv, FilesDistinct, Own
<1>14. CASE ReopensFile
  <2>1. /\ i \in DOMAIN old.files /\ DOMAIN old'.files = DOMAIN old.files
        /\ old'.files[i].name = old.files[i].name /\ old'.files[i].fd = Free
        /\ \A j \in DOMAIN old.files \ {i} : old'.files[j] = old.files[j]
        /\ new' = new /\ old.files[i].name # Stderr /\ at = "reopen" /\ at' = "reopen"
    BY <1>0, <1>14, FileChanged DEF ReopensFile
  <2>2. OldFiles' = OldFiles /\ OldFiles = DOMAIN old.files /\ DOMAIN new.files = {}
    BY <2>1 DEF OldFiles, Numbered, NoCycle
  <2>3. /\ DOMAIN fds' = (DOMAIN fds \ {old.files[i].fd}) \cup {Free}
        /\ fds'[Free] = FileOf(old.files[i].name)
        /\ \A n \in DOMAIN fds \ {old.files[i].fd} : fds'[n] = fds[n]
    BY <1>14, FreeIsNew DEF ReopensFile
  <2>4. Own(old.files[i]) /\ old.files[i].fd # 0
    BY <2>1, <2>2, FilesOpened DEF Own, FilesInv, StderrOpen
  <2>5. \A k \in DOMAIN old.files \ {i} : old.files[k].fd \in DOMAIN fds \ {old.files[i].fd}
    BY <2>1, <2>2, <2>4, FilesOpened DEF FilesInv, FilesDistinct
  <2>6. \A k \in OldFiles' : Opens(old.files[k])'
    BY <2>1, <2>2, <2>3, <2>5 DEF FilesInv, Opens
  <2>7. FilesDistinct(old'.files)
    BY <2>1, <2>2, FilesOpened DEF FilesInv, FilesDistinct, Own
  <2>8. StderrOpen' /\ FilesUntouched'
    BY <2>1, <2>2, <2>3, <2>4, FilesOpened DEF FilesInv, StderrOpen, FilesUntouched
  <2> QED BY <2>1, <2>2, <2>6, <2>7, <2>8 DEF FilesInv, FilesDistinct, Own
<1> QED BY Kinds, <1>1, <1>2, <1>3, <1>4, <1>5, <1>6, <1>7, <1>8, <1>9, <1>10, <1>11, <1>12, <1>13, <1>14, Zenon DEF Changes

-----------------------------------------------------------------------------
(* Sockets.                                                                 *)

(* Sockets.                                                                 *)
Compared == at \in {"listen", "open", "commit", "free", "close"}
SocketsKept(t) ==
    \A n \in DOMAIN fds : (\A name : fds[n] # FileOf(name)) => n \in DOMAIN t /\ t[n] = fds[n]

(* A socket serves its address as long as its descriptor and, for a unix    *)
(* socket, its path are left alone.                                         *)
LEMMA StillServes ==
    ASSUME NEW l, Serves(l), SocketsKept(fds'), l.at.addr \in sockfiles => l.at.addr \in sockfiles'
    PROVE  Serves(l)'
<1>1. l.fd \in DOMAIN fds /\ \A name : fds[l.fd] # FileOf(name)
  BY NotBoth DEF Serves
<1> QED BY <1>1 DEF Serves, SocketsKept

(* A step that keeps the lists of sockets and closes none keeps what holds  *)
(* of the sockets.                                                          *)
LEMMA SocketsFrame ==
    ASSUME SocketsInv, old'.listening = old.listening, new'.listening = new.listening,
           SocketsKept(fds'), sockfiles' = sockfiles, OldSockets' = OldSockets,
           at \in {"close_files", "finish"} => at' \in {"close_files", "finish"},
           Compared' => Compared, SocketsUntouched'
    PROVE  SocketsInv'
<1>1. NewSockets' = NewSockets
  BY DEF NewSockets
<1>2. \A k \in OldSockets : Serves(old.listening[k])'
  <2>1. ASSUME NEW k \in OldSockets PROVE Serves(old.listening[k])'
    <3>1. PICK l : l = old.listening[k]
      OBVIOUS
    <3>2. Serves(l)'
      BY <3>1, StillServes DEF SocketsInv
    <3> QED BY <3>1, <3>2 DEF Serves
  <2> QED BY <2>1
<1>3. \A k \in NewSockets : Serves(new.listening[k])'
  <2>1. ASSUME NEW k \in NewSockets PROVE Serves(new.listening[k])'
    <3>1. PICK l : l = new.listening[k]
      OBVIOUS
    <3>2. Serves(l)'
      BY <3>1, StillServes DEF SocketsInv
    <3> QED BY <3>1, <3>2 DEF Serves
  <2> QED BY <2>1
<1>4. PathsOnce(old)' /\ PathsOnce(new)'
  BY DEF SocketsInv, PathsOnce
<1>5. SocketsDistinct' /\ EitherOr' /\ RemainsTaken'
  BY <1>1 DEF SocketsInv, SocketsDistinct, EitherOr, TakenOver, OfItsOwn, RemainsTaken, Compared
<1> QED BY <1>1, <1>2, <1>3, <1>4, <1>5 DEF SocketsInv

(* The descriptors of sockets are in use, so the next one that is opened is *)
(* none of them.                                                            *)
LEMMA SocketsOpened ==
    ASSUME CycleTypes, SocketsInv
    PROVE  /\ \A k \in OldSockets : old.listening[k].fd \in DOMAIN fds
           /\ \A k \in NewSockets : new.listening[k].fd \in DOMAIN fds
           /\ Free \in Nat \ DOMAIN fds /\ Invalid \notin DOMAIN fds /\ Free # Invalid
BY FreeIsNew DEF SocketsInv, Serves, Invalid, CycleTypes

(* Opening a descriptor leaves the sockets alone.                           *)
LEMMA OpenedKeeps ==
    ASSUME CycleTypes, NEW what, fds' = Opened(what)
    PROVE  SocketsKept(fds')
BY OpenedOne DEF SocketsKept

(* Closing files leaves the sockets alone.                                  *)
LEMMA ClosedKeeps ==
    ASSUME CycleTypes, NEW S, fds' = Closed(S), \A n \in S : \E name : fds[n] = FileOf(name)
    PROVE  SocketsKept(fds')
<1>1. DOMAIN fds' = DOMAIN fds \ S /\ \A n \in DOMAIN fds' : fds'[n] = fds[n]
  BY ClosedSome
<1> QED BY <1>1, Zenon DEF SocketsKept

(* The steps about files, zones and the pid file keep the sockets.          *)
LEMMA SocketsUnchanged ==
    ASSUME CycleTypes, Numbered, FilesInv, SocketsInv, at # "exited", at' # "exited",
           Quiet \/ LeavesPid \/ OpensFile \/ (\E a : TakesZone(a))
           \/ FreeZones \/ CloseFiles \/ ReopensFile
    PROVE  SocketsInv'
<1> USE DEF Between, Loading, Committed, Fails, Onward, Goto, Compared
<1>0. old \in Cycles /\ new \in Cycles /\ Free \in Int /\ Invalid \in Int /\ i \in Nat
  BY FreeIsNew DEF CycleTypes, Invalid
<1>1. CASE Quiet
  <2>1. SocketsUntouched'
    BY <1>0, <1>1, SocketsOpened, Indices DEF Quiet, Moves, SocketsInv, SocketsUntouched
  <2>2. SocketsKept(fds')
    BY <1>1 DEF Quiet, SocketsKept
  <2> QED BY <1>1, <2>1, <2>2, SocketsFrame DEF Quiet, Moves, OldSockets
<1>2. CASE LeavesPid
  <2>1. SocketsUntouched'
    BY <1>2 DEF LeavesPid, SocketsInv, SocketsUntouched
  <2>2. SocketsKept(fds')
    BY <1>2, OpenedKeeps DEF LeavesPid
  <2> QED BY <1>2, <2>1, <2>2, SocketsFrame DEF LeavesPid, OldSockets
<1>3. CASE OpensFile
  <2>1. new'.listening = new.listening /\ UNCHANGED <<old, sockfiles>>
        /\ at = "files" /\ at' \in {"files", "failed"}
    BY <1>0, <1>3, FileChanged DEF OpensFile
  <2>2. SocketsUntouched'
    BY <2>1 DEF SocketsInv, SocketsUntouched
  <2>3. SocketsKept(fds')
    BY <1>3, OpenedKeeps DEF OpensFile
  <2> QED BY <2>1, <2>2, <2>3, SocketsFrame DEF OldSockets
<1>4. CASE \E a : TakesZone(a)
  <2>1. PICK a : TakesZone(a)
    BY <1>4
  <2>2. new'.listening = new.listening /\ UNCHANGED <<old, fds, sockfiles>>
        /\ at = "zones" /\ at' \in {"zones", "failed"}
    BY <1>0, <2>1 DEF TakesZone, Cycles
  <2>3. SocketsUntouched' /\ SocketsKept(fds')
    BY <2>2 DEF SocketsInv, SocketsUntouched, SocketsKept
  <2> QED BY <2>2, <2>3, SocketsFrame DEF OldSockets
<1>5. CASE FreeZones
  <2>1. UNCHANGED <<old, new, fds, sockfiles>> /\ at = "free" /\ at' = "close"
    BY <1>5 DEF FreeZones, disk
  <2>2. SocketsUntouched' /\ SocketsKept(fds')
    BY <2>1 DEF SocketsInv, SocketsUntouched, SocketsKept
  <2> QED BY <2>1, <2>2, SocketsFrame DEF OldSockets
<1>6. CASE CloseFiles
  <2>1. UNCHANGED <<old, new, sockfiles>> /\ at = "close_files" /\ at' = "finish"
        /\ fds' = Closed(OwnFiles(old))
    BY <1>6 DEF CloseFiles, disk
  <2>2. \A n \in OwnFiles(old) : \E name : fds[n] = FileOf(name)
    BY <2>1 DEF FilesInv, OldFiles, Opens, OwnFiles, Range
  <2>3. SocketsKept(fds')
    BY <2>1, <2>2, ClosedKeeps
  <2>4. SocketsUntouched'
    BY <2>1 DEF SocketsInv, SocketsUntouched
  <2> QED BY <2>1, <2>3, <2>4, SocketsFrame DEF OldSockets
<1>7. CASE ReopensFile
  <2>1. /\ old'.listening = old.listening /\ UNCHANGED <<new, sockfiles>>
        /\ at = "reopen" /\ at' = "reopen"
    BY <1>0, <1>7, FileChanged DEF ReopensFile
  <2>2. fds[old.files[i].fd] = FileOf(old.files[i].name)
    BY <1>7 DEF FilesInv, OldFiles, Opens, ReopensFile
  <2>3. SocketsKept(fds')
    <3>1. \A n \in DOMAIN fds \ {old.files[i].fd} : n \in DOMAIN fds' /\ fds'[n] = fds[n]
      BY <1>7, FreeIsNew DEF ReopensFile
    <3> QED BY <2>2, <3>1 DEF SocketsKept
  <2>4. SocketsUntouched'
    BY <2>1 DEF SocketsInv, SocketsUntouched
  <2> QED BY <2>1, <2>3, <2>4, SocketsFrame DEF OldSockets
<1> QED BY <1>1, <1>2, <1>3, <1>4, <1>5, <1>6, <1>7, Zenon

(* Reading a configuration keeps the sockets: the new ones have no          *)
(* descriptor yet.                                                          *)
LEMMA SocketsRead ==
    ASSUME CycleTypes, Numbered, SocketsInv, NEW c \in Confs, ReadConf(c)
    PROVE  SocketsInv'
<1>1. new' = NewCycle(c) /\ UNCHANGED <<old, fds, sockfiles>> /\ at = "idle" /\ at' = "pidfile"
  BY DEF ReadConf, Goto, disk
<1>2. /\ \A k \in DOMAIN new'.listening : new'.listening[k].fd = Invalid /\ ~new'.listening[k].open
      /\ PathsOnce(new')
  BY <1>1, NewCycleTyped
<1>3. NewSockets' = {} /\ OldSockets' = OldSockets
  BY <1>1, <1>2 DEF NewSockets, OldSockets
<1>4. \A k \in OldSockets : Serves(old.listening[k])'
  BY <1>1 DEF SocketsInv, Serves
<1>5. EitherOr' /\ RemainsTaken' /\ SocketsUntouched'
  BY <1>1, <1>2, <1>3 DEF EitherOr, RemainsTaken, SocketsUntouched, Committed
<1>6. SocketsDistinct' /\ PathsOnce(old)'
  BY <1>1, <1>3 DEF SocketsInv, SocketsDistinct, PathsOnce
<1> QED BY <1>1, <1>2, <1>3, <1>4, <1>5, <1>6 DEF SocketsInv, PathsOnce

(* Clearing remain before the sockets are compared keeps the sockets: none  *)
(* has been taken over yet.                                                 *)
LEMMA SocketsReset ==
    ASSUME CycleTypes, SocketsInv, ZonesDone
    PROVE  SocketsInv'
<1>0. old \in Cycles
  BY DEF CycleTypes
<1>1. UNCHANGED <<new, fds, sockfiles>> /\ at = "zones" /\ at' = "listen" /\ i' = 1
  BY DEF ZonesDone, Goto, disk
<1>2. /\ DOMAIN old'.listening = DOMAIN old.listening
      /\ \A k \in DOMAIN old.listening :
            /\ old'.listening[k].at = old.listening[k].at
            /\ old'.listening[k].fd = old.listening[k].fd
            /\ ~old'.listening[k].remain
  BY <1>0, RemainReset DEF ZonesDone
<1>3. NewSockets' = {} /\ OldSockets' = DOMAIN old.listening /\ OldSockets = DOMAIN old.listening
  BY <1>1, <1>2 DEF NewSockets, OldSockets, SocketsInv, SocketsUntouched
<1>4. \A k \in OldSockets : Serves(old.listening[k])'
  BY <1>1, <1>2, <1>3 DEF SocketsInv, Serves
<1>5. EitherOr' /\ RemainsTaken' /\ SocketsUntouched'
  BY <1>1, <1>2, <1>3, Indices DEF SocketsInv, EitherOr, RemainsTaken, SocketsUntouched, Committed
<1>6. SocketsDistinct'
  BY <1>1, <1>2, <1>3 DEF SocketsInv, SocketsDistinct
<1>7. PathsOnce(old)' /\ PathsOnce(new)'
  BY <1>1, <1>2 DEF SocketsInv, PathsOnce
<1> QED BY <1>3, <1>4, <1>5, <1>6, <1>7 DEF SocketsInv

(* Taking over an old socket keeps the sockets: no second new socket takes  *)
(* the same one, and a new socket without an old one is marked to be        *)
(* opened.                                                                  *)
LEMMA SocketsInherited ==
    ASSUME CycleTypes, SocketsInv, InheritSocket
    PROVE  SocketsInv'
<1>0. old \in Cycles /\ new \in Cycles /\ i \in Nat
  BY DEF CycleTypes
<1>a. PICK p \in Nat : p = i
  BY <1>0
<1>1. /\ UNCHANGED <<at, fds, sockfiles>> /\ at = "listen" /\ at' = "listen" /\ i' = p + 1
      /\ p \in DOMAIN new.listening
  BY <1>a, Indices, Within DEF InheritSocket, disk
<1>2. new.listening[p].fd = Invalid /\ ~new.listening[p].open /\ p \notin NewSockets
  BY <1>a, <1>0, <1>1 DEF SocketsInv, SocketsUntouched, NewSockets
<1>3. OldSockets = DOMAIN old.listening
  BY <1>1 DEF OldSockets
<1>4. CASE Candidates = {}
  <2>1. /\ old' = old /\ DOMAIN new'.listening = DOMAIN new.listening
        /\ new'.listening[p].at = new.listening[p].at /\ new'.listening[p].fd = Invalid
        /\ new'.listening[p].open
        /\ \A k \in DOMAIN new.listening \ {p} : new'.listening[k] = new.listening[k]
    BY <1>a, <1>0, <1>1, <1>2, <1>4, OpenChanged DEF InheritSocket, SocketOnly
  <2>2. NewSockets' = NewSockets /\ OldSockets' = OldSockets
    BY <1>1, <1>2, <2>1 DEF NewSockets, OldSockets
  <2>3. \A k \in NewSockets : k \in DOMAIN new.listening \ {p} /\ new'.listening[k] = new.listening[k]
    BY <1>2, <2>1 DEF NewSockets
  <2>4. /\ \A k \in OldSockets : Serves(old.listening[k])'
        /\ \A k \in NewSockets : Serves(new.listening[k])'
    BY <1>1, <2>1, <2>3 DEF SocketsInv, Serves
  <2>5. PathsOnce(old)' /\ PathsOnce(new)'
    <3>1. \A k \in DOMAIN new.listening : new'.listening[k].at = new.listening[k].at
      BY <2>1
    <3> QED BY <2>1, <3>1 DEF SocketsInv, PathsOnce
  <2>6. SocketsDistinct' /\ EitherOr' /\ RemainsTaken'
    BY <1>1, <2>1, <2>2, <2>3 DEF SocketsInv, SocketsDistinct, EitherOr, TakenOver, OfItsOwn, RemainsTaken
  <2>7. SocketsUntouched'
    BY <1>a, <1>0, <1>1, <2>1, Indices DEF SocketsInv, SocketsUntouched, Committed
  <2> QED BY <2>2, <2>4, <2>5, <2>6, <2>7 DEF SocketsInv
<1>5. CASE Candidates # {}
  <2>0. PICK m \in DOMAIN old.listening :
              /\ m \in Candidates
              /\ new' = [new EXCEPT !.listening[p].fd = old.listening[m].fd]
              /\ old' = [old EXCEPT !.listening[m].remain = TRUE]
    BY <1>a, <1>5, TakesFirst
  <2>1. PICK n \in Int : n = old.listening[m].fd
    <3>1. old.listening[m] \in SocketRecs
      BY <1>0 DEF Cycles
    <3> QED BY <3>1 DEF SocketRecs
  <2>2. ~old.listening[m].remain /\ old.listening[m].at = new.listening[p].at
    BY <1>a, <2>0 DEF Candidates
  <2>3. /\ DOMAIN new'.listening = DOMAIN new.listening
        /\ new'.listening[p].at = new.listening[p].at /\ new'.listening[p].fd = n
        /\ new'.listening[p].open = new.listening[p].open
        /\ \A k \in DOMAIN new.listening \ {p} : new'.listening[k] = new.listening[k]
    BY <1>0, <1>1, <2>0, <2>1, FdChanged DEF SocketOnly
  <2>4. /\ DOMAIN old'.listening = DOMAIN old.listening
        /\ old'.listening[m].at = old.listening[m].at /\ old'.listening[m].fd = n
        /\ old'.listening[m].remain
        /\ \A k \in DOMAIN old.listening \ {m} : old'.listening[k] = old.listening[k]
    BY <1>0, <2>0, <2>1, RemainChanged DEF SocketOnly
  <2>5. /\ \A k \in DOMAIN old.listening : /\ old'.listening[k].at = old.listening[k].at
                                           /\ old'.listening[k].fd = old.listening[k].fd
        /\ \A k \in DOMAIN new.listening : new'.listening[k].at = new.listening[k].at
    BY <2>1, <2>3, <2>4
  <2>6. n # Invalid /\ NewSockets' = NewSockets \cup {p} /\ OldSockets' = OldSockets
    <3>1. n # Invalid
      BY <1>3, <2>1, SocketsOpened
    <3> QED BY <1>1, <2>3, <2>4, <3>1 DEF NewSockets, OldSockets
  <2>7. \A k \in NewSockets : k \in DOMAIN new.listening \ {p} /\ new'.listening[k] = new.listening[k]
    BY <1>2, <2>3 DEF NewSockets
  <2>8. \A k \in NewSockets : new.listening[k].fd # n
    <3>1. ASSUME NEW k \in NewSockets, new.listening[k].fd = n PROVE FALSE
      <4>1. m \in OldSockets /\ ~OfItsOwn(k)
        BY <1>3, <2>1, <3>1 DEF OfItsOwn
      <4>2. TakenOver(k)
        BY <1>1, <4>1 DEF SocketsInv, EitherOr
      <4>3. PICK j \in OldSockets : old.listening[j].remain /\ old.listening[j].fd = n
        BY <3>1, <4>2 DEF TakenOver
      <4>4. j = m
        BY <1>3, <2>1, <4>3 DEF SocketsInv, SocketsDistinct
      <4> QED BY <2>2, <4>3, <4>4
    <3> QED BY <3>1
  <2>9. \A k \in OldSockets : Serves(old.listening[k])'
    BY <1>1, <1>3, <2>5 DEF SocketsInv, Serves
  <2>10. \A k \in NewSockets' : Serves(new.listening[k])'
    <3>1. Serves(old.listening[m])'
      BY <1>3, <2>9
    <3>2. Serves(new.listening[p])'
      BY <2>2, <2>3, <2>4, <3>1 DEF Serves
    <3>3. \A k \in NewSockets : Serves(new.listening[k])'
      BY <1>1, <2>7 DEF SocketsInv, Serves
    <3> QED BY <2>6, <3>2, <3>3
  <2>11. PathsOnce(old)' /\ PathsOnce(new)'
    BY <2>3, <2>4, <2>5 DEF SocketsInv, PathsOnce
  <2>12. SocketsDistinct'
    BY <2>3, <2>4, <2>5, <2>6, <2>7, <2>8 DEF SocketsInv, SocketsDistinct
  <2>13. EitherOr'
    <3>1. \A k \in NewSockets : TakenOver(k) => TakenOver(k)'
      BY <1>3, <2>4, <2>6, <2>7, <2>5 DEF TakenOver
    <3>2. \A k \in NewSockets : OfItsOwn(k) => OfItsOwn(k)'
      BY <1>3, <2>5, <2>6, <2>7 DEF OfItsOwn
    <3>3. TakenOver(p)'
      BY <1>3, <2>2, <2>3, <2>4, <2>6 DEF TakenOver
    <3> QED BY <1>1, <1>2, <2>3, <2>6, <2>7, <3>1, <3>2, <3>3 DEF SocketsInv, EitherOr
  <2>14. RemainsTaken'
    <3>1. \A j \in OldSockets \ {m} : old.listening[j].remain
             => \E k \in NewSockets : new.listening[k].fd = old.listening[j].fd
      BY <1>1 DEF SocketsInv, RemainsTaken
    <3> QED BY <1>3, <2>3, <2>4, <2>6, <2>7, <3>1 DEF RemainsTaken
  <2>15. SocketsUntouched'
    BY <1>a, <1>0, <1>1, <2>3, <2>6, Indices DEF SocketsInv, SocketsUntouched, Committed
  <2> QED BY <2>6, <2>9, <2>10, <2>11, <2>12, <2>13, <2>14, <2>15 DEF SocketsInv
<1> QED BY <1>4, <1>5

(* ngx_open_listening_sockets keeps the sockets: what is opened is new, and *)
(* a path of a unix socket is bound only when no other socket holds it.     *)
LEMMA SocketsOpenedStep ==
    ASSUME CycleTypes, SocketsInv, OpensSocket
    PROVE  SocketsInv'
<1>0. old \in Cycles /\ new \in Cycles /\ i \in Nat /\ Free \in Int
  BY FreeIsNew DEF CycleTypes
<1>a. PICK p \in Nat : p = i
  BY <1>0
<1>1. /\ UNCHANGED <<at, old>> /\ at = "open" /\ at' = "open" /\ i' = p + 1
      /\ p \in DOMAIN new.listening /\ new.listening[p].fd = Invalid
  BY <1>a DEF OpensSocket, Onward
<1>2. new.listening[p].open /\ p \notin NewSockets
  BY <1>a, <1>1 DEF SocketsInv, SocketsUntouched, NewSockets
<1>3. OldSockets = DOMAIN old.listening /\ OldSockets' = OldSockets
  BY <1>1 DEF OldSockets
<1>4. /\ DOMAIN new'.listening = DOMAIN new.listening
      /\ new'.listening[p].at = new.listening[p].at /\ new'.listening[p].fd = Free
      /\ new'.listening[p].open = new.listening[p].open
      /\ \A k \in DOMAIN new.listening \ {p} : new'.listening[k] = new.listening[k]
  BY <1>a, <1>0, <1>1, FdChanged DEF OpensSocket, SocketOnly
<1>5. NewSockets' = NewSockets \cup {p}
  BY <1>1, <1>4, SocketsOpened DEF NewSockets
<1>6. \A k \in NewSockets : k \in DOMAIN new.listening \ {p} /\ new'.listening[k] = new.listening[k]
  BY <1>2, <1>4 DEF NewSockets
<1>7. SocketsKept(fds') /\ sockfiles \subseteq sockfiles'
  BY <1>a, OpenedKeeps DEF OpensSocket
<1>8. \A k \in OldSockets : Serves(old.listening[k])'
  <2>1. ASSUME NEW k \in OldSockets PROVE Serves(old.listening[k])'
    <3>1. PICK l : l = old.listening[k]
      OBVIOUS
    <3>2. Serves(l)'
      BY <1>7, <3>1, StillServes DEF SocketsInv
    <3> QED BY <1>1, <3>1, <3>2 DEF Serves
  <2> QED BY <2>1
<1>9. \A k \in NewSockets : Serves(new.listening[k])'
  <2>1. ASSUME NEW k \in NewSockets PROVE Serves(new.listening[k])'
    <3>1. PICK l : l = new.listening[k]
      OBVIOUS
    <3>2. Serves(l)'
      BY <1>7, <3>1, StillServes DEF SocketsInv
    <3> QED BY <1>6, <3>1, <3>2 DEF Serves
  <2> QED BY <2>1
<1>10. Serves(new.listening[p])'
  <2>1. Free \in DOMAIN fds' /\ fds'[Free] = Socket(new.listening[p].at, p)
    BY <1>a, OpenedOne DEF OpensSocket
  <2>2. "at" \in DOMAIN fds'[Free] /\ fds'[Free].at = new.listening[p].at
    BY <2>1 DEF Socket
  <2> QED BY <1>a, <1>4, <2>1, <2>2 DEF Serves, OpensSocket
<1>11. PathsOnce(old)' /\ PathsOnce(new)'
  <2>1. \A k \in DOMAIN new.listening : new'.listening[k].at = new.listening[k].at
    BY <1>4
  <2> QED BY <1>1, <1>4, <2>1 DEF SocketsInv, PathsOnce
<1>12. SocketsDistinct'
  BY <1>1, <1>4, <1>5, <1>6, SocketsOpened DEF SocketsInv, SocketsDistinct
<1>13. EitherOr'
  <2>1. \A k \in NewSockets : TakenOver(k) => TakenOver(k)'
    BY <1>1, <1>3, <1>6 DEF TakenOver
  <2>2. \A k \in NewSockets : OfItsOwn(k) => OfItsOwn(k)'
    BY <1>1, <1>3, <1>6 DEF OfItsOwn
  <2>3. OfItsOwn(p)'
    <3>1. ASSUME NEW j \in OldSockets, new.listening[p].at.addr \in Unix
          PROVE  old.listening[j].at.addr # new.listening[p].at.addr
      <4>1. new.listening[p].at.addr \notin sockfiles
        BY <1>a, <3>1 DEF OpensSocket
      <4> QED BY <3>1, <4>1 DEF SocketsInv, Serves
    <3> QED BY <1>1, <1>3, <1>4, <3>1, SocketsOpened DEF OfItsOwn
  <2> QED BY <1>1, <1>2, <1>3, <1>4, <1>5, <1>6, <2>1, <2>2, <2>3 DEF SocketsInv, EitherOr
<1>14. RemainsTaken'
  <2>1. \A j \in OldSockets : old.listening[j].remain
           => \E k \in NewSockets : new.listening[k].fd = old.listening[j].fd
    BY <1>1 DEF SocketsInv, RemainsTaken
  <2> QED BY <1>1, <1>3, <1>5, <1>6, <2>1 DEF RemainsTaken
<1>15. SocketsUntouched'
  BY <1>a, <1>0, <1>1, <1>2, <1>4, Indices DEF SocketsInv, SocketsUntouched, Committed
<1> QED BY <1>3, <1>5, <1>8, <1>9, <1>10, <1>11, <1>12, <1>13, <1>14, <1>15 DEF SocketsInv

(* Closing the old sockets that do not remain keeps the new ones, also when *)
(* it unlinks paths of unix sockets (ngx_init_cycle after the commit).      *)
LEMMA SocketsClosed ==
    ASSUME CycleTypes, FilesInv, SocketsInv, CloseSockets
    PROVE  SocketsInv'
<1>1. /\ UNCHANGED <<old, new>> /\ at = "close" /\ at' = "close_files"
      /\ fds' = Closed({l.fd : l \in Leaving})
      /\ sockfiles' = sockfiles \ {l.at.addr : l \in Leaving}
  BY DEF CloseSockets, Goto
<1>2. OldSockets = DOMAIN old.listening /\ OldSockets' = {} /\ NewSockets' = NewSockets
  BY <1>1 DEF OldSockets, NewSockets
<1>3. \A l \in Leaving : \E j \in OldSockets : l = old.listening[j] /\ ~old.listening[j].remain
  BY <1>2 DEF Leaving, Range
<1>4. DOMAIN fds' = DOMAIN fds \ {l.fd : l \in Leaving} /\ \A n \in DOMAIN fds' : fds'[n] = fds[n]
  <2>1. PICK S : S = {l.fd : l \in Leaving}
    OBVIOUS
  <2>2. fds' = Closed(S)
    BY <1>1, <2>1
  <2>3. DOMAIN fds' = DOMAIN fds \ S /\ \A n \in DOMAIN fds' : fds'[n] = fds[n]
    BY <2>2, ClosedSome
  <2> QED BY <2>1, <2>3
<1>5. ASSUME NEW k \in NewSockets PROVE Serves(new.listening[k])'
  <2>1. \A l \in Leaving : l.fd # new.listening[k].fd
             /\ (new.listening[k].at.addr \in Unix => l.at.addr # new.listening[k].at.addr)
    <3>1. ASSUME NEW j \in OldSockets, ~old.listening[j].remain
          PROVE  old.listening[j].fd # new.listening[k].fd
             /\ (new.listening[k].at.addr \in Unix
                 => old.listening[j].at.addr # new.listening[k].at.addr)
      <4>1. CASE OfItsOwn(k)
        BY <3>1, <4>1 DEF OfItsOwn
      <4>2. CASE TakenOver(k)
        <5>1. PICK m \in OldSockets : /\ old.listening[m].remain
                                      /\ old.listening[m].fd = new.listening[k].fd
                                      /\ old.listening[m].at = new.listening[k].at
          BY <4>2 DEF TakenOver
        <5>2. j # m
          BY <3>1, <5>1
        <5> QED BY <1>2, <5>1, <5>2 DEF SocketsInv, SocketsDistinct, PathsOnce
      <4> QED BY <1>1, <4>1, <4>2 DEF SocketsInv, EitherOr
    <3> QED BY <1>3, <3>1
  <2>2. Serves(new.listening[k])
    BY DEF SocketsInv
  <2> HIDE DEF Leaving
  <2> QED BY <1>1, <1>4, <2>1, <2>2 DEF Serves
<1>6. EitherOr' /\ RemainsTaken' /\ SocketsUntouched'
  <2>1. ASSUME NEW k \in NewSockets PROVE OfItsOwn(k)'
    BY <1>2 DEF OfItsOwn
  <2> QED BY <1>1, <1>2, <2>1 DEF SocketsInv, EitherOr, RemainsTaken, SocketsUntouched, Committed
<1>7. SocketsDistinct' /\ PathsOnce(old)' /\ PathsOnce(new)'
  BY <1>1, <1>2 DEF SocketsInv, SocketsDistinct, PathsOnce
<1> QED BY <1>2, <1>5, <1>6, <1>7 DEF SocketsInv

(* When the new cycle replaces the old one, its sockets are the sockets of  *)
(* the cycle in force.                                                      *)
LEMMA SocketsFinished ==
    ASSUME CycleTypes, SocketsInv, Finish, at' # "exited"
    PROVE  SocketsInv'
<1>1. /\ old'.listening = new.listening /\ new' = NoCycle /\ UNCHANGED <<fds, sockfiles>>
      /\ at = "finish" /\ at' = "idle"
  BY DEF Finish, CycleTypes, Cycles
<1>2. /\ DOMAIN new'.listening = {} /\ NewSockets' = {} /\ OldSockets' = DOMAIN new.listening
      /\ NewSockets = DOMAIN new.listening
  BY <1>1 DEF NoCycle, NewSockets, OldSockets, SocketsInv, SocketsUntouched, Committed
<1>3. \A k \in OldSockets' : Serves(old.listening[k])'
  BY <1>1, <1>2 DEF SocketsInv, Serves
<1>4. EitherOr' /\ RemainsTaken' /\ SocketsUntouched'
  BY <1>1, <1>2 DEF EitherOr, RemainsTaken, SocketsUntouched, Committed
<1>5. SocketsDistinct' /\ PathsOnce(old)' /\ PathsOnce(new)'
  BY <1>1, <1>2 DEF SocketsInv, SocketsDistinct, PathsOnce
<1> QED BY <1>2, <1>3, <1>4, <1>5 DEF SocketsInv

(* A rollback closes the sockets that were opened for the new cycle, and    *)
(* none of the old ones.                                                    *)
LEMMA SocketsRolledBack ==
    ASSUME CycleTypes, FilesInv, SocketsInv, Rollback, at' # "exited"
    PROVE  SocketsInv'
<1>1. PICK S : S = OwnFiles(new) \cup
                   IF mode = "test" THEN {}
                   ELSE {l.fd : l \in {k \in Range(new.listening) : k.fd # Invalid /\ k.open}}
  OBVIOUS
<1>2. /\ old' = old /\ new' = NoCycle /\ fds' = Closed(S) /\ at = "failed" /\ at' = "idle"
      /\ sockfiles' = sockfiles
  BY <1>1 DEF Rollback, disk
<1>3. /\ DOMAIN new'.listening = {} /\ NewSockets' = {} /\ OldSockets = DOMAIN old.listening
      /\ OldSockets' = OldSockets
  BY <1>2 DEF NoCycle, NewSockets, OldSockets
<1>4. \A n \in S : \/ \E name : fds[n] = FileOf(name)
                   \/ \E k \in NewSockets : new.listening[k].open /\ n = new.listening[k].fd
  BY <1>1 DEF FilesInv, Opens, OwnFiles, Range, NewSockets
<1>5. DOMAIN fds' = DOMAIN fds \ S /\ \A n \in DOMAIN fds' : fds'[n] = fds[n]
  BY <1>2, ClosedSome
<1>6. ASSUME NEW j \in OldSockets PROVE Serves(old.listening[j])'
  <2>1. Serves(old.listening[j]) /\ \A name : fds[old.listening[j].fd] # FileOf(name)
    BY NotBoth DEF SocketsInv
  <2>2. \A k \in NewSockets : new.listening[k].open => old.listening[j].fd # new.listening[k].fd
    BY DEF SocketsInv, EitherOr, OfItsOwn
  <2>3. old.listening[j].fd \notin S
    BY <1>4, <2>1, <2>2
  <2> QED BY <1>2, <1>5, <2>1, <2>3 DEF Serves
<1>7. EitherOr' /\ RemainsTaken' /\ SocketsUntouched'
  BY <1>2, <1>3 DEF EitherOr, RemainsTaken, SocketsUntouched, Committed
<1>8. SocketsDistinct' /\ PathsOnce(old)' /\ PathsOnce(new)'
  BY <1>2, <1>3 DEF SocketsInv, SocketsDistinct, PathsOnce
<1> QED BY <1>3, <1>6, <1>7, <1>8 DEF SocketsInv

(* Every step keeps the sockets: those of the old cycle until they are      *)
(* closed, and those of the new one from when they have a descriptor.       *)
LEMMA SocketsStep ==
    ASSUME CycleTypes, Numbered, FilesInv, SocketsInv, Next, at # "exited", at' # "exited"
    PROVE  SocketsInv'
BY Kinds, SocketsUnchanged, SocketsRead, SocketsReset, SocketsInherited, SocketsOpenedStep,
   SocketsClosed, SocketsFinished, SocketsRolledBack, Zenon DEF Changes

-----------------------------------------------------------------------------
(* Users of descriptors.                                                    *)

(* A step that opens no descriptor without a user, and keeps the users of   *)
(* the others, leaves none without a user.                                  *)
LEMMA AccountedFrame ==
    ASSUME Accounted, \A n : UsedBy(n) => UsedBy(n)',
           \A n \in DOMAIN fds' \ {0} : \/ n \in DOMAIN fds /\ fds'[n] = fds[n]
                                        \/ fds'[n] = PidFd \/ UsedBy(n)'
    PROVE  Accounted'
BY DEF Accounted

(* No step leaves a descriptor without a user, except for that of a pid     *)
(* file (ngx_create_pidfile returns early when writing fails).              *)
LEMMA AccountedStep ==
    ASSUME CycleTypes, Numbered, FilesInv, SocketsInv, Accounted, Next, at # "exited", at' # "exited"
    PROVE  Accounted'
<1> USE DEF Between, Loading, Fails, Onward, Goto
<1>0. old \in Cycles /\ new \in Cycles /\ Free \in Int /\ Invalid \in Int /\ Invalid \notin DOMAIN fds
      /\ Free \notin DOMAIN fds /\ Free # Invalid
  BY FreeIsNew DEF CycleTypes, Invalid
<1>a. PICK p \in Nat : p = i
  BY DEF CycleTypes
<1>1. CASE Quiet
  <2>1. \A n : UsedBy(n) => UsedBy(n)'
    BY <1>1 DEF Quiet, Moves, UsedBy, OldFiles, OldSockets, NewSockets
  <2> QED BY <1>1, <2>1, AccountedFrame DEF Quiet
<1>2. CASE LeavesPid
  <2>1. \A n : UsedBy(n) => UsedBy(n)'
    BY <1>2 DEF LeavesPid, UsedBy, OldFiles, OldSockets, NewSockets
  <2> QED BY <1>2, <2>1, OpenedOne, AccountedFrame DEF LeavesPid
<1>3. CASE \E c \in Confs : ReadConf(c)
  <2>1. UNCHANGED <<old, fds>> /\ at = "idle" /\ at' = "pidfile"
    BY <1>3 DEF ReadConf
  <2>2. DOMAIN new.files = {} /\ NewSockets = {}
    BY <2>1 DEF Numbered, NoCycle, NewSockets
  <2>3. \A n : UsedBy(n) => UsedBy(n)'
    BY <2>1, <2>2 DEF UsedBy, OldFiles, OldSockets
  <2> QED BY <2>1, <2>3, AccountedFrame
<1>4. CASE OpensFile
  <2>1. /\ p \in DOMAIN new.files /\ DOMAIN new'.files = DOMAIN new.files
        /\ new'.files[p].name = new.files[p].name /\ new'.files[p].fd = Free
        /\ \A j \in DOMAIN new.files \ {p} : new'.files[j] = new.files[j]
        /\ new'.listening = new.listening /\ old' = old
        /\ at = "files" /\ at' \in {"files", "failed"} /\ new.files[p].name # Stderr
    BY <1>0, <1>a, <1>4, FileChanged DEF OpensFile
  <2>2. ~Own(new.files[p])
    BY <1>a, <2>1 DEF FilesInv, FilesUntouched
  <2>3. \A n : UsedBy(n) => UsedBy(n)'
    BY <2>1, <2>2 DEF UsedBy, OldFiles, OldSockets, NewSockets, Own
  <2>4. PICK f \in Int : f = Free
    BY <1>0
  <2>5. UsedBy(f)'
    BY <1>0, <2>1, <2>4 DEF UsedBy, Own
  <2>6. \A n \in DOMAIN fds' : (n \in DOMAIN fds /\ fds'[n] = fds[n]) \/ n = f
    BY <1>4, <2>4, OpenedOne DEF OpensFile
  <2> QED BY <2>3, <2>5, <2>6, AccountedFrame
<1>5. CASE \E a : TakesZone(a)
  <2>1. PICK a : TakesZone(a)
    BY <1>5
  <2>2. new'.files = new.files /\ new'.listening = new.listening /\ UNCHANGED <<old, fds>>
        /\ at = "zones" /\ at' \in {"zones", "failed"}
    BY <1>0, <2>1 DEF TakesZone, Cycles
  <2>3. \A n : UsedBy(n) => UsedBy(n)'
    BY <2>2 DEF UsedBy, OldFiles, OldSockets, NewSockets
  <2> QED BY <2>2, <2>3, AccountedFrame
<1>6. CASE ZonesDone
  <2>1. /\ old'.files = old.files /\ DOMAIN old'.listening = DOMAIN old.listening
        /\ \A k \in DOMAIN old.listening : old'.listening[k].fd = old.listening[k].fd
        /\ UNCHANGED <<new, fds>> /\ at = "zones" /\ at' = "listen"
    BY <1>0, <1>6, RemainReset DEF ZonesDone
  <2>2. \A n : UsedBy(n) => UsedBy(n)'
    BY <2>1 DEF UsedBy, OldFiles, OldSockets, NewSockets
  <2> QED BY <2>1, <2>2, AccountedFrame
<1>7. CASE InheritSocket
  <2>1. at = "listen" /\ UNCHANGED <<at, fds>> /\ p \in DOMAIN new.listening
    BY <1>a, <1>7, Indices, Within DEF InheritSocket
  <2>2. p \notin NewSockets
    BY <1>a, <2>1 DEF SocketsInv, SocketsUntouched, NewSockets
  <2>3. /\ old'.files = old.files /\ new'.files = new.files
        /\ DOMAIN old'.listening = DOMAIN old.listening
        /\ \A k \in DOMAIN old.listening : old'.listening[k].fd = old.listening[k].fd
        /\ DOMAIN new'.listening = DOMAIN new.listening
        /\ \A k \in DOMAIN new.listening \ {p} : new'.listening[k].fd = new.listening[k].fd
    <3>1. CASE Candidates = {}
      BY <1>0, <1>a, <1>7, <2>1, <3>1, OpenChanged DEF InheritSocket, SocketOnly
    <3>2. CASE Candidates # {}
      <4>0. PICK m \in DOMAIN old.listening :
                  /\ new' = [new EXCEPT !.listening[p].fd = old.listening[m].fd]
                  /\ old' = [old EXCEPT !.listening[m].remain = TRUE]
        BY <1>a, <1>7, <3>2, TakesFirst
      <4>1. PICK n \in Int : n = old.listening[m].fd
        <5>1. old.listening[m] \in SocketRecs
          BY <1>0 DEF Cycles
        <5> QED BY <5>1 DEF SocketRecs
      <4>2. /\ DOMAIN new'.listening = DOMAIN new.listening /\ new'.files = new.files
            /\ \A k \in DOMAIN new.listening \ {p} : new'.listening[k] = new.listening[k]
        BY <1>0, <2>1, <4>0, <4>1, FdChanged DEF SocketOnly
      <4>3. /\ DOMAIN old'.listening = DOMAIN old.listening /\ old'.files = old.files
            /\ old'.listening[m].fd = old.listening[m].fd
            /\ \A k \in DOMAIN old.listening \ {m} : old'.listening[k] = old.listening[k]
        BY <1>0, <4>0, RemainChanged DEF SocketOnly
      <4> QED BY <4>2, <4>3
    <3> QED BY <3>1, <3>2
  <2>4. NewSockets \subseteq NewSockets'
    BY <2>2, <2>3 DEF NewSockets
  <2>5. \A n : UsedBy(n) => UsedBy(n)'
    BY <2>1, <2>2, <2>3, <2>4 DEF UsedBy, OldFiles, OldSockets, NewSockets
  <2> QED BY <2>1, <2>5, AccountedFrame
<1>8. CASE OpensSocket
  <2>1. /\ p \in DOMAIN new.listening /\ DOMAIN new'.listening = DOMAIN new.listening
        /\ new'.listening[p].fd = Free
        /\ \A j \in DOMAIN new.listening \ {p} : new'.listening[j] = new.listening[j]
        /\ new'.files = new.files /\ UNCHANGED <<at, old>>
        /\ at = "open" /\ new.listening[p].fd = Invalid
    BY <1>0, <1>a, <1>8, FdChanged DEF OpensSocket, SocketOnly
  <2>2. NewSockets' = NewSockets \cup {p} /\ p \notin NewSockets
    BY <1>0, <2>1 DEF NewSockets
  <2>3. \A n : UsedBy(n) => UsedBy(n)'
    BY <2>1, <2>2 DEF UsedBy, OldFiles, OldSockets, NewSockets
  <2>4. PICK f \in Int : f = Free
    BY <1>0
  <2>5. UsedBy(f)'
    BY <2>1, <2>2, <2>4 DEF UsedBy
  <2>6. \A n \in DOMAIN fds' : (n \in DOMAIN fds /\ fds'[n] = fds[n]) \/ n = f
    BY <1>8, <2>4, OpenedOne DEF OpensSocket
  <2> QED BY <2>3, <2>5, <2>6, AccountedFrame
<1>9. CASE FreeZones
  <2>1. UNCHANGED <<old, new, fds>> /\ at = "free" /\ at' = "close"
    BY <1>9 DEF FreeZones
  <2>2. \A n : UsedBy(n) => UsedBy(n)'
    BY <2>1 DEF UsedBy, OldFiles, OldSockets, NewSockets
  <2> QED BY <2>1, <2>2, AccountedFrame
<1>10. CASE CloseSockets
  <2>1. PICK S : S = {l.fd : l \in Leaving}
    OBVIOUS
  <2>2. UNCHANGED <<old, new>> /\ at = "close" /\ at' = "close_files" /\ fds' = Closed(S)
    BY <1>10, <2>1 DEF CloseSockets
  <2>3. DOMAIN fds' = DOMAIN fds \ S /\ \A n \in DOMAIN fds' : fds'[n] = fds[n]
    BY <2>2, ClosedSome
  <2>4. ASSUME NEW j \in OldSockets, old.listening[j].fd \notin S
        PROVE  \E k \in NewSockets : new.listening[k].fd = old.listening[j].fd
    <3>1. old.listening[j].fd # Invalid
      BY <2>4, SocketsOpened
    <3>2. old.listening[j].remain
      BY <2>1, <2>2, <2>4, <3>1 DEF OldSockets, Leaving, Range
    <3> QED BY <2>2, <3>2 DEF SocketsInv, RemainsTaken
  <2>5. ASSUME NEW n \in DOMAIN fds', UsedBy(n) PROVE UsedBy(n)'
    BY <2>2, <2>3, <2>4, <2>5 DEF UsedBy, OldFiles, NewSockets
  <2> QED BY <2>3, <2>5 DEF Accounted
<1>11. CASE CloseFiles
  <2>1. UNCHANGED <<old, new>> /\ at = "close_files" /\ at' = "finish" /\ fds' = Closed(OwnFiles(old))
    BY <1>11 DEF CloseFiles
  <2>2. DOMAIN fds' = DOMAIN fds \ OwnFiles(old) /\ \A n \in DOMAIN fds' : fds'[n] = fds[n]
    BY <2>1, ClosedSome
  <2>3. \A k \in OldFiles : Own(old.files[k]) => old.files[k].fd \in OwnFiles(old)
    BY <2>1 DEF OldFiles, OwnFiles, Own, Range
  <2>4. ASSUME NEW n \in DOMAIN fds', UsedBy(n) PROVE UsedBy(n)'
    BY <2>1, <2>2, <2>3, <2>4 DEF UsedBy, NewSockets, OldSockets
  <2> QED BY <2>2, <2>4 DEF Accounted
<1>12. CASE Finish
  <2>1. old'.files = new.files /\ old'.listening = new.listening /\ fds' = fds
        /\ at = "finish" /\ at' = "idle"
    BY <1>0, <1>12 DEF Finish, Cycles
  <2>2. OldFiles = {} /\ OldSockets = {} /\ OldFiles' = DOMAIN new.files
        /\ OldSockets' = DOMAIN new.listening
    BY <2>1 DEF OldFiles, OldSockets
  <2>3. \A n : UsedBy(n) => UsedBy(n)'
    BY <2>1, <2>2 DEF UsedBy, NewSockets
  <2> QED BY <2>1, <2>3, AccountedFrame
<1>13. CASE Rollback
  <2>1. PICK S : S = OwnFiles(new) \cup
                     IF mode = "test" THEN {}
                     ELSE {l.fd : l \in {k \in Range(new.listening) : k.fd # Invalid /\ k.open}}
    OBVIOUS
  <2>2. old' = old /\ fds' = Closed(S) /\ at = "failed" /\ at' = "idle" /\ mode # "test"
    BY <1>13, <2>1 DEF Rollback
  <2>3. DOMAIN fds' = DOMAIN fds \ S /\ \A n \in DOMAIN fds' : fds'[n] = fds[n]
    BY <2>2, ClosedSome
  <2>4. OldFiles' = OldFiles /\ OldSockets' = OldSockets
    BY <2>2 DEF OldFiles, OldSockets
  <2>5. \A k \in DOMAIN new.files : Own(new.files[k]) => new.files[k].fd \in S
    BY <2>1 DEF OwnFiles, Own, Range
  <2>6. ASSUME NEW k \in NewSockets, new.listening[k].fd \notin S
        PROVE  \E j \in OldSockets : old.listening[j].fd = new.listening[k].fd
    <3>1. ~new.listening[k].open
      BY <2>1, <2>2, <2>6 DEF NewSockets, Range
    <3> QED BY <2>2, <3>1 DEF SocketsInv, EitherOr, TakenOver
  <2>7. ASSUME NEW n \in DOMAIN fds', UsedBy(n) PROVE UsedBy(n)'
    BY <2>2, <2>3, <2>4, <2>5, <2>6, <2>7 DEF UsedBy
  <2> QED BY <2>3, <2>7 DEF Accounted
<1>14. CASE ReopensFile
  <2>0. PICK f \in Int : f = Free
    BY <1>0
  <2>1. /\ p \in DOMAIN old.files /\ DOMAIN old'.files = DOMAIN old.files
        /\ old'.files[p].name = old.files[p].name /\ old'.files[p].fd = f
        /\ \A j \in DOMAIN old.files \ {p} : old'.files[j] = old.files[j]
        /\ new' = new /\ old'.listening = old.listening
        /\ old.files[p].name # Stderr /\ at = "reopen" /\ at' = "reopen"
    BY <1>0, <1>a, <1>14, <2>0, FileChanged DEF ReopensFile
  <2>2. OldFiles' = DOMAIN old.files /\ OldFiles = DOMAIN old.files /\ OldSockets' = OldSockets
    BY <2>1 DEF OldFiles, OldSockets
  <2>3. /\ DOMAIN fds' = (DOMAIN fds \ {old.files[p].fd}) \cup {f}
        /\ \A n \in DOMAIN fds \ {old.files[p].fd} : fds'[n] = fds[n]
    BY <1>a, <1>14, <2>0, FreeIsNew DEF ReopensFile
  <2>4. UsedBy(f)'
    BY <1>0, <2>0, <2>1, <2>2 DEF UsedBy, Own
  <2>5. ASSUME NEW n \in DOMAIN fds', n # f, UsedBy(n) PROVE UsedBy(n)'
    <3>1. n # old.files[p].fd
      BY <1>0, <2>0, <2>3, <2>5
    <3> QED BY <2>1, <2>2, <2>5, <3>1 DEF UsedBy, NewSockets
  <2> QED BY <2>3, <2>4, <2>5 DEF Accounted
<1> QED BY Kinds, <1>1, <1>2, <1>3, <1>4, <1>5, <1>6, <1>7, <1>8, <1>9, <1>10, <1>11, <1>12, <1>13, <1>14, Zenon DEF Changes

-----------------------------------------------------------------------------
(* Zones.                                                                   *)

(* Zones.                                                                   *)
Unsettled(k) == at \in {"pidfile", "paths", "files"} \/ (at = "zones" /\ k >= i)
MustSettle(k) == Committed \/ at \in {"listen", "open", "commit"} \/ (at = "zones" /\ k < i)

(* A step that keeps the zones and allocates and frees none keeps what      *)
(* holds of the zones.                                                      *)
LEMMA ZonesFrame ==
    ASSUME ZonesInv, old'.zones = old.zones, new'.zones = new.zones, old'.id = old.id,
           new'.id = new.id, UNCHANGED <<shm, committed>>,
           made \in Nat, made' \in {made, made + 1}, \A s \in shm : s.by \in Nat,
           ZonesKept' = ZonesKept, Committed => Committed', Between' = Between,
           \A k \in DOMAIN new.zones : /\ MustSettle(k)' => MustSettle(k)
                                       /\ Unsettled(k)' => Unsettled(k)
    PROVE  ZonesInv'
<1>1. NamesDistinct(old.zones)' /\ NamesDistinct(new.zones)'
  BY DEF ZonesInv, NamesDistinct
<1>2. ZonesKept' => \A z \in Range(old'.zones) : InPlace(old, z)'
  BY DEF ZonesInv, InPlace
<1>3. \A z : Settled(z) => Settled(z)'
  BY DEF Settled, InPlace, Reusable
<1>4. \A k \in DOMAIN new.zones : /\ MustSettle(k)' => Settled(new.zones[k])'
                                  /\ Unsettled(k)' => new'.zones[k].addr = NoSegment
  BY <1>3 DEF ZonesInv, MustSettle, Unsettled
<1>5. ASSUME NEW s \in shm'
      PROVE  /\ s.by <= made'
             /\ ~Between' /\ s.by = new'.id => \E z \in Range(new'.zones) : z.addr = s
             /\ s.by \in committed' =>
                  \/ ZonesKept' /\ \E z \in Range(old'.zones) : z.addr = s
                  \/ Committed' /\ \E z \in Range(new'.zones) : z.addr = s
  BY DEF ZonesInv
<1> QED BY <1>1, <1>2, <1>4, <1>5 DEF ZonesInv, MustSettle, Unsettled

(* The steps about files, sockets and connections keep the zones.           *)
LEMMA ZonesUnchanged ==
    ASSUME CycleTypes, Numbered, ZonesInv, Next, at # "exited", at' # "exited",
           ~\E a : TakesZone(a), ~\E c \in Confs : ReadConf(c),
           ~Commit, ~FreeZones, ~Finish, ~Rollback
    PROVE  ZonesInv'
<1> USE DEF Between, Loading, Committed, Fails, Onward, Goto, ZonesKept, MustSettle, Unsettled
<1>1. old \in Cycles /\ new \in Cycles /\ i \in Nat /\ made \in Nat /\ Free \in Int
      /\ \A s \in shm : s.by \in Nat
  BY FreeIsNew DEF CycleTypes, Segments
<1>2. SameCycles
  BY CyclesStay
<1>3. committed' = committed /\ made' \in {made, made + 1}
  BY CountsStay DEF RefuseConf, Accept, CloseConnections, ngx_clean_old_cycles, history
<1>4. CASE Quiet
  <2>1. CASE at # "commit"
    BY <1>1, <1>2, <1>3, <1>4, <2>1, Indices, ZonesFrame DEF Quiet, Moves, SameCycles
  <2>2. CASE at = "commit"
    BY <1>1, <1>2, <1>3, <1>4, <2>2, ZonesFrame DEF Quiet, Moves, SameCycles
  <2> QED BY <2>1, <2>2
<1>5. CASE LeavesPid
  BY <1>1, <1>2, <1>3, <1>5, ZonesFrame DEF LeavesPid, SameCycles
<1>6. CASE OpensFile
  <2>1. new'.zones = new.zones /\ UNCHANGED <<old, shm>> /\ at = "files" /\ at' \in {"files", "failed"}
    BY <1>1, <1>6, FileChanged DEF OpensFile
  <2> QED BY <1>1, <1>2, <1>3, <2>1, ZonesFrame DEF SameCycles
<1>7. CASE ZonesDone
  <2>1. old'.zones = old.zones /\ UNCHANGED <<new, shm>> /\ at = "zones" /\ at' = "listen"
        /\ i > Len(new.zones)
    BY <1>1, <1>7, RemainReset DEF ZonesDone
  <2> QED BY <1>1, <1>2, <1>3, <2>1, Indices, ZonesFrame DEF SameCycles
<1>8. CASE InheritSocket
  <2>1. old'.zones = old.zones /\ new'.zones = new.zones
    <3>1. CASE Candidates = {}
      BY <1>1, <1>8, <3>1 DEF InheritSocket, Cycles
    <3>2. CASE Candidates # {}
      BY <1>1, <1>8, <3>2, TakesFirst DEF InheritSocket, Cycles
    <3> QED BY <3>1, <3>2
  <2>2. at = "listen" /\ UNCHANGED <<at, shm>>
    BY <1>8 DEF InheritSocket
  <2> QED BY <1>1, <1>2, <1>3, <2>1, <2>2, ZonesFrame DEF SameCycles
<1>9. CASE OpensSocket
  <2>1. new'.zones = new.zones /\ UNCHANGED <<old, at, shm>> /\ at = "open"
    BY <1>1, <1>9 DEF OpensSocket, Cycles
  <2> QED BY <1>1, <1>2, <1>3, <2>1, ZonesFrame DEF SameCycles
<1>10. CASE CloseSockets \/ CloseFiles
  <2>1. /\ UNCHANGED <<old, new, shm>> /\ at \in {"close", "close_files"}
        /\ at' \in {"close_files", "finish"}
    BY <1>10 DEF CloseSockets, CloseFiles
  <2> QED BY <1>1, <1>2, <1>3, <2>1, ZonesFrame DEF SameCycles
<1>11. CASE ReopensFile
  <2>1. old'.zones = old.zones /\ UNCHANGED <<new, shm>> /\ at = "reopen" /\ at' = "reopen"
    BY <1>1, <1>11, FileChanged DEF ReopensFile
  <2> QED BY <1>1, <1>2, <1>3, <2>1, ZonesFrame DEF SameCycles
<1> QED BY Kinds, <1>4, <1>5, <1>6, <1>7, <1>8, <1>9, <1>10, <1>11, Zenon DEF Changes

(* Reading a configuration keeps the zones: those of the new cycle have no  *)
(* memory yet.                                                              *)
LEMMA ZonesRead ==
    ASSUME CycleTypes, Numbered, ZonesInv, NEW c \in Confs, ReadConf(c)
    PROVE  ZonesInv'
<1> USE DEF Between, Committed, ZonesKept
<1>1. /\ new' = NewCycle(c) /\ UNCHANGED <<old, shm, committed>> /\ at = "idle" /\ at' = "pidfile"
      /\ made' = made + 1
  BY DEF ReadConf, Goto, history
<1>2. /\ new'.id = made + 1 /\ NamesDistinct(new'.zones)
      /\ \A k \in DOMAIN new'.zones : new'.zones[k].addr = NoSegment
  BY <1>1, NewCycleTyped
<1>3. \A s \in shm : s.by \in Nat /\ s.by <= made
  BY DEF ZonesInv, CycleTypes, Segments
<1>4. \A s \in shm : s.by <= made' /\ s.by # new'.id
  <2>1. made \in Nat
    BY DEF CycleTypes
  <2> QED BY <1>1, <1>2, <1>3, <2>1
<1>5. \A z \in Range(old'.zones) : InPlace(old, z)'
  BY <1>1 DEF ZonesInv, InPlace
<1>6. \A s \in shm' : s.by \in committed' => \E z \in Range(old'.zones) : z.addr = s
  BY <1>1 DEF ZonesInv
<1> QED BY <1>1, <1>2, <1>4, <1>5, <1>6 DEF ZonesInv, NamesDistinct

(* Taking over or allocating a zone keeps the zones: its memory is that of  *)
(* an old zone of the same name, size and tag, or was just allocated.       *)
LEMMA ZonesTaken ==
    ASSUME CycleTypes, Numbered, ZonesInv, Next, NEW a, TakesZone(a)
    PROVE  ZonesInv'
<1> USE DEF Between, Committed, Loading, ZonesKept
<1>a. PICK p \in Nat : p = i
  BY DEF CycleTypes
<1>b. PICK o \in Nat, n \in Nat, m \in Nat : o = old.id /\ n = new.id /\ m = made
  BY DEF CycleTypes, Cycles
<1>1. /\ at = "zones" /\ UNCHANGED old /\ p \in DOMAIN new.zones
      /\ (at' = "zones" /\ i' = p + 1) \/ at' = "failed"
      /\ new' = [new EXCEPT !.zones[p].addr = a] /\ shm \subseteq shm'
  BY <1>a DEF TakesZone, Onward, Fails
<1>2. made' = made /\ committed' = committed
  BY <1>1, CountsStay DEF ReadConf, RefuseConf, Commit, Finish, Rollback, Accept,
     CloseConnections, ngx_clean_old_cycles, Idle
<1>3. o < n /\ n = m /\ n \notin committed
  BY <1>b, <1>1 DEF Numbered
<1>4. PICK z : z = new.zones[p]
  OBVIOUS
<1>5. Zone = z /\ Reused = Reusable(z) /\ Segment = [by |-> n, name |-> z.name]
  BY <1>a, <1>b, <1>4 DEF Zone, Reused, Reusable, Segment
<1>6. a \in shm' /\ a.name = z.name /\ a.by <= n
      /\ IF Reusable(z) = {} THEN a.by = n ELSE \E j \in Reusable(z) : a = old.zones[j].addr
  <2>1. CASE Reusable(z) = {}
    <3>1. a = Segment /\ shm' = shm \cup {Segment}
      BY <1>5, <2>1 DEF TakesZone
    <3> QED BY <1>5, <2>1, <3>1
  <2>2. CASE Reusable(z) # {}
    <3>1. PICK j \in Reusable(z) : a = old.zones[j].addr
      BY <1>5, <2>2 DEF TakesZone
    <3>2. InPlace(old, old.zones[j]) /\ Same(z, old.zones[j])
      BY <1>1, <3>1 DEF ZonesInv, Reusable, Range
    <3>3. a \in shm /\ a.name = z.name /\ a.by <= o
      BY <1>b, <3>1, <3>2 DEF InPlace, Same
    <3>4. a.by \in Nat
      BY <3>3 DEF CycleTypes, Segments
    <3> QED BY <1>1, <1>3, <2>2, <3>1, <3>3, <3>4
  <2> QED BY <2>1, <2>2
<1>7. a \in Segments \cup {NoSegment}
  <2>1. z \in ZoneRecs /\ n \in Nat
    BY <1>1, <1>4 DEF CycleTypes, Cycles
  <2>2. Segment \in Segments
    BY <1>5, <2>1 DEF Segments, ZoneRecs
  <2> QED BY <1>6, <2>2 DEF TakesZone, CycleTypes
<1>8. /\ new'.id = n /\ DOMAIN new'.zones = DOMAIN new.zones
      /\ new'.zones[p].addr = a /\ Same(z, new'.zones[p])
      /\ \A j \in DOMAIN new.zones \ {p} : new'.zones[j] = new.zones[j]
  <2>1. new \in Cycles
    BY DEF CycleTypes
  <2>2. /\ new'.id = new.id /\ DOMAIN new'.zones = DOMAIN new.zones
        /\ new'.zones[p].addr = a /\ Same(new.zones[p], new'.zones[p])
        /\ \A j \in DOMAIN new.zones \ {p} : new'.zones[j] = new.zones[j]
    <3>1. p \in DOMAIN new.zones /\ new' = [new EXCEPT !.zones[p].addr = a]
      BY <1>1
    <3>2. new'.id = new.id
      BY <2>1, <1>7, <3>1, ZoneChanged DEF Frame
    <3>3. DOMAIN new'.zones = DOMAIN new.zones /\ new'.zones[p].addr = a
      BY <2>1, <1>7, <3>1, ZoneChanged
    <3>4. Same(new.zones[p], new'.zones[p])
      BY <2>1, <1>7, <3>1, ZoneChanged DEF Same
    <3>5. \A j \in DOMAIN new.zones \ {p} : new'.zones[j] = new.zones[j]
      BY <2>1, <1>7, <3>1, ZoneChanged
    <3> QED BY <3>2, <3>3, <3>4, <3>5
  <2> QED BY <1>b, <1>4, <2>2
<1>9. \A j \in DOMAIN new.zones : new'.zones[j].name = new.zones[j].name
  BY <1>4, <1>8 DEF Same
<1>10. NamesDistinct(new.zones)'
  BY <1>8, <1>9 DEF ZonesInv, NamesDistinct
<1>11. \A y : Settled(y) => Settled(y)'
  BY <1>b, <1>1, <1>8 DEF Settled, InPlace, Reusable
<1>12. Settled(new.zones[p])'
  <2>1. PICK y : y = new'.zones[p]
    OBVIOUS
  <2>2. Same(z, y) /\ y.addr = a
    BY <1>8, <2>1
  <2>3. Reusable(y)' = Reusable(z)
    BY <1>1, <2>2 DEF Reusable, Same
  <2>4. InPlace(new, y)'
    BY <1>6, <1>8, <2>2 DEF InPlace, Same
  <2>5. Settled(y)'
    BY <1>1, <1>6, <1>8, <2>2, <2>3, <2>4 DEF Settled, InPlace
  <2> QED BY <2>1, <2>5
<1>13. \A k \in DOMAIN new'.zones :
          /\ at' \in {"pidfile", "paths", "files"} \/ (at' = "zones" /\ k >= i')
             => new'.zones[k].addr = NoSegment
          /\ Committed' \/ at' \in {"listen", "open", "commit"} \/ (at' = "zones" /\ k < i')
             => Settled(new.zones[k])'
  <2>1. ASSUME NEW k \in DOMAIN new.zones, at' = "zones", i' = p + 1
        PROVE  /\ k >= i' => new'.zones[k].addr = NoSegment
               /\ k < i' => Settled(new.zones[k])'
    <3>1. k \in Nat
      BY Indices
    <3>2. CASE k = p
      BY <1>12, <2>1, <3>2
    <3>3. CASE k # p
      <4>1. new'.zones[k] = new.zones[k]
        BY <1>8, <3>3
      <4>2. k >= i => new.zones[k].addr = NoSegment
        BY <1>1 DEF ZonesInv
      <4>3. k < i => Settled(new.zones[k])
        BY <1>1 DEF ZonesInv
      <4>4. PICK y : y = new.zones[k]
        OBVIOUS
      <4>5. k < i => Settled(y)'
        BY <1>11, <4>3, <4>4
      <4>6. (k >= i' => k >= i) /\ (k < i' => k < i)
        BY <1>a, <2>1, <3>1, <3>3
      <4> QED BY <4>1, <4>2, <4>4, <4>5, <4>6
    <3> QED BY <3>2, <3>3
  <2> QED BY <1>1, <1>8, <2>1
<1>14. \A y \in Range(old'.zones) : InPlace(old, y)'
  BY <1>1 DEF ZonesInv, InPlace
<1>15. ASSUME NEW s \in shm'
       PROVE  /\ s.by <= made' /\ (s.by = new'.id => \E y \in Range(new'.zones) : y.addr = s)
              /\ s.by \in committed' => \E y \in Range(old'.zones) : y.addr = s
  <2>1. CASE s \in shm
    <3>1. s.by <= made /\ (s.by \in committed => \E y \in Range(old.zones) : y.addr = s)
      BY <1>1, <2>1 DEF ZonesInv
    <3>2. ASSUME s.by = n PROVE \E y \in Range(new'.zones) : y.addr = s
      <4>1. PICK k \in DOMAIN new.zones : new.zones[k].addr = s
        BY <1>b, <1>1, <2>1, <3>2 DEF ZonesInv, Range
      <4>2. s.by # 0
        BY <1>3, <3>2
      <4>3. k # p
        BY <1>a, <1>1, <4>1, <4>2 DEF ZonesInv, NoSegment
      <4> QED BY <1>8, <4>1, <4>3 DEF Range
    <3> QED BY <1>1, <1>2, <1>8, <3>1, <3>2
  <2>2. CASE s \notin shm
    <3>1. s = Segment /\ a = s
      BY <2>2 DEF TakesZone
    <3>2. s.by = n
      BY <1>5, <3>1
    <3>3. s.by <= made' /\ s.by \notin committed'
      BY <1>b, <1>2, <1>3, <3>2
    <3>4. \E y \in Range(new'.zones) : y.addr = s
      BY <1>1, <1>8, <3>1 DEF Range
    <3> QED BY <3>3, <3>4
  <2> QED BY <2>1, <2>2
<1>16. NamesDistinct(old.zones)' /\ (ZonesKept' <=> TRUE)
  BY <1>1 DEF ZonesInv, NamesDistinct
<1> QED BY <1>10, <1>13, <1>14, <1>15, <1>16 DEF ZonesInv

(* The commit keeps the zones: all of the new cycle have their memory.      *)
LEMMA ZonesCommitted ==
    ASSUME CycleTypes, Numbered, ZonesInv, Commit, at' # "exited"
    PROVE  ZonesInv'
<1> USE DEF Between, Committed, ZonesKept
<1>1. /\ UNCHANGED <<old, new, shm, made>> /\ at = "commit" /\ at' = "free"
      /\ committed' = committed \cup {new.id}
  BY DEF Commit, Goto
<1>2. \A z : (Settled(z) => Settled(z)') /\ (InPlace(old, z) => InPlace(old, z)')
  BY <1>1 DEF Settled, InPlace, Reusable
<1>3. \A s \in shm : s.by = new.id => \E z \in Range(new.zones) : z.addr = s
  BY <1>1 DEF ZonesInv
<1>4. NamesDistinct(old.zones)' /\ NamesDistinct(new.zones)'
  BY <1>1 DEF ZonesInv, NamesDistinct
<1> QED BY <1>1, <1>2, <1>3, <1>4 DEF ZonesInv

(* Freeing the zones of the old cycle after the commit frees none of the    *)
(* new cycle: the zones that were taken over are found again by name, size  *)
(* and tag.                                                                 *)
LEMMA ZonesFreed ==
    ASSUME CycleTypes, Numbered, ZonesInv, FreeZones
    PROVE  ZonesInv'
<1> USE DEF Between, Committed, ZonesKept
<1> DEFINE Goes(y) == y.tag \in NoReuse \/ ~\E n \in Range(new.zones) : Same(y, n)
<1>1. /\ UNCHANGED <<old, new, made, committed>> /\ at = "free" /\ at' = "close"
      /\ \A s : s \in shm' <=> s \in shm /\ ~\E y \in Range(old.zones) : Goes(y) /\ s = y.addr
  BY DEF FreeZones, Goto, history
<1> HIDE DEF Goes
<1>2. PICK o \in Nat, n \in Nat : o = old.id /\ n = new.id /\ o < n
  BY <1>1 DEF CycleTypes, Cycles, Numbered
<1>3. \A y \in Range(old.zones) : InPlace(old, y)
  BY <1>1 DEF ZonesInv
<1>4. \A k \in DOMAIN new.zones : Settled(new.zones[k])
  BY <1>1 DEF ZonesInv
<1>5. \A j, k \in DOMAIN old.zones : old.zones[j].addr = old.zones[k].addr => j = k
  BY <1>3 DEF ZonesInv, NamesDistinct, InPlace, Range
<1>6. ASSUME NEW k \in DOMAIN new.zones PROVE Settled(new.zones[k])'
  <2>1. PICK z : z = new.zones[k]
    OBVIOUS
  <2>2. Settled(z) /\ z.addr \in shm /\ z \in Range(new.zones)
    BY <1>4, <2>1 DEF Settled, InPlace, Range
  <2>3. ASSUME NEW m \in DOMAIN old.zones, Goes(old.zones[m]), z.addr = old.zones[m].addr
        PROVE  FALSE
    <3>1. CASE Reusable(z) = {}
      <4>1. z.addr.by = n
        BY <1>2, <2>2, <3>1 DEF Settled
      <4>2. old.zones[m].addr.by <= o
        BY <1>2, <1>3 DEF InPlace, Range
      <4> QED BY <1>2, <2>3, <4>1, <4>2
    <3>2. CASE Reusable(z) # {}
      <4>1. PICK j \in Reusable(z) : z.addr = old.zones[j].addr
        BY <2>2, <3>2 DEF Settled
      <4>2. j = m
        BY <1>5, <2>3, <4>1 DEF Reusable
      <4>3. Same(z, old.zones[m]) /\ z.tag \notin NoReuse
        BY <4>1, <4>2 DEF Reusable
      <4> QED BY <2>2, <2>3, <4>3 DEF Goes, Same
    <3> QED BY <3>1, <3>2
  <2>4. z.addr \in shm'
    BY <1>1, <2>2, <2>3 DEF Range
  <2>5. Settled(z)'
    BY <1>1, <2>2, <2>4 DEF Settled, InPlace, Reusable
  <2> QED BY <1>1, <2>1, <2>5
<1>7. ASSUME NEW s \in shm', s.by \in committed
      PROVE  \E z \in Range(new.zones) : z.addr = s
  <2>1. CASE \E z \in Range(new.zones) : z.addr = s
    BY <2>1
  <2>2. CASE \E z \in Range(old.zones) : z.addr = s
    <3>1. PICK m \in DOMAIN old.zones : old.zones[m].addr = s
      BY <2>2 DEF Range
    <3>2. ~Goes(old.zones[m])
      BY <1>1, <3>1 DEF Range
    <3>3. PICK k \in DOMAIN new.zones : Same(old.zones[m], new.zones[k])
      BY <3>2 DEF Goes, Range
    <3>4. old.zones[m].tag \notin NoReuse
      BY <3>2 DEF Goes
    <3>5. m \in Reusable(new.zones[k])
      BY <3>3, <3>4 DEF Reusable, Same
    <3>6. PICK j \in Reusable(new.zones[k]) : new.zones[k].addr = old.zones[j].addr
      BY <1>4, <3>5 DEF Settled
    <3>7. j = m
      BY <3>5, <3>6 DEF Reusable, Same, ZonesInv, NamesDistinct
    <3> QED BY <3>1, <3>6, <3>7 DEF Range
  <2> QED BY <1>1, <1>7, <2>1, <2>2 DEF ZonesInv
<1>8. \A s \in shm' : /\ s.by <= made'
                      /\ s.by = new'.id => \E z \in Range(new'.zones) : z.addr = s
  BY <1>1 DEF ZonesInv
<1>9. NamesDistinct(old.zones)' /\ NamesDistinct(new.zones)'
  BY <1>1 DEF ZonesInv, NamesDistinct
<1> QED BY <1>1, <1>6, <1>7, <1>8, <1>9 DEF ZonesInv

(* When the new cycle replaces the old one, every zone that was ever in     *)
(* force and still exists is one of its own.                                *)
LEMMA ZonesFinished ==
    ASSUME CycleTypes, Numbered, ZonesInv, Finish, at' # "exited"
    PROVE  ZonesInv'
<1> USE DEF Between, Committed, ZonesKept
<1>1. /\ old'.zones = new.zones /\ old'.id = new.id /\ new' = NoCycle
      /\ UNCHANGED <<shm, made, committed>> /\ at = "finish" /\ at' = "idle"
  BY DEF Finish, CycleTypes, Cycles, history
<1>2. DOMAIN new'.zones = {}
  BY <1>1 DEF NoCycle
<1>3. \A z \in Range(old'.zones) : InPlace(old, z)'
  <2>1. \A z \in Range(new.zones) : InPlace(new, z)
    BY <1>1 DEF ZonesInv, Settled, Range
  <2> QED BY <1>1, <2>1 DEF InPlace
<1>4. NamesDistinct(old.zones)' /\ NamesDistinct(new.zones)'
  BY <1>1, <1>2 DEF ZonesInv, NamesDistinct
<1> QED BY <1>1, <1>2, <1>3, <1>4 DEF ZonesInv

(* A rollback keeps the zones of the old cycle.                             *)
LEMMA ZonesRolledBack ==
    ASSUME CycleTypes, Numbered, ZonesInv, Rollback, at' # "exited"
    PROVE  ZonesInv'
<1> USE DEF Between, Committed, ZonesKept
<1>1. /\ UNCHANGED <<old, shm, made, committed>> /\ new' = NoCycle
      /\ at = "failed" /\ at' = "idle"
  BY DEF Rollback, history
<1>2. DOMAIN new'.zones = {}
  BY <1>1 DEF NoCycle
<1>3. \A z \in Range(old'.zones) : InPlace(old, z)'
  BY <1>1 DEF ZonesInv, InPlace
<1>4. NamesDistinct(old.zones)' /\ NamesDistinct(new.zones)'
  BY <1>1, <1>2 DEF ZonesInv, NamesDistinct
<1> QED BY <1>1, <1>2, <1>3, <1>4 DEF ZonesInv

(* Every step keeps the zones.                                              *)
LEMMA ZonesStep ==
    ASSUME CycleTypes, Numbered, ZonesInv, Next, at # "exited", at' # "exited"
    PROVE  ZonesInv'
BY ZonesUnchanged, ZonesRead, ZonesTaken, ZonesCommitted, ZonesFreed, ZonesFinished,
   ZonesRolledBack, Zenon

-----------------------------------------------------------------------------
(* The invariant, and what follows.                                         *)

(* The process starts with the sockets it inherited from another binary, or *)
(* with none.                                                               *)
LEMMA InvInit == Init => Inv
<1> SUFFICES ASSUME Init PROVE CycleTypes /\ Numbered /\ FilesInv /\ SocketsInv /\ Accounted
                               /\ ZonesInv /\ PoolsInv
  BY DEF Inv
<1>1. /\ at = "idle" /\ i = 1 /\ new = NoCycle /\ shm = {} /\ pools = {0} /\ old_cycles = <<>>
      /\ live = {} /\ made = 0 /\ committed = {0} /\ mode \in {"master", "single", "test"}
  BY CycleAssumption DEF Init
<1>2. PICK n \in Nat : DOMAIN Inherited = 1 .. n
  BY CycleAssumption
<1>3. InheritedCycle \in Cycles /\ DOMAIN InheritedCycle.listening = 1 .. n
      /\ InheritedCycle.id = 0 /\ InheritedCycle.zones = <<>> /\ InheritedCycle.files = <<>>
      /\ \A k \in 1 .. n : InheritedCycle.listening[k].fd = k
                           /\ InheritedCycle.listening[k].at = Inherited[k].at
  <2> DEFINE r(k) == [at |-> Inherited[k].at, fd |-> k, open |-> FALSE,
                      remain |-> FALSE, ignore |-> Inherited[k].ignore]
             ls == [k \in DOMAIN Inherited |-> r(k)]
  <2>1. ASSUME NEW k \in 1 .. n PROVE r(k) \in SocketRecs /\ r(k).fd = k /\ r(k).at = Inherited[k].at
    <3>1. Inherited[k].ignore \in BOOLEAN /\ Inherited[k].at \in {Inherited[j].at : j \in DOMAIN Inherited}
      BY <1>2, CycleAssumption
    <3>2. Inherited[k].at \in Wheres /\ k \in Int
      BY <3>1 DEF Wheres
    <3> QED BY <3>1, <3>2 DEF SocketRecs
  <2>2. InheritedCycle = [NoCycle EXCEPT !.listening = ls]
    BY DEF InheritedCycle
  <2> HIDE DEF r
  <2>3. ls \in Seq(SocketRecs) /\ DOMAIN ls = 1 .. n /\ \A k \in 1 .. n : ls[k] = r(k)
    BY <1>2, <2>1
  <2> HIDE DEF ls
  <2>4. InheritedCycle.listening = ls /\ InheritedCycle \in Cycles /\ InheritedCycle.id = 0
        /\ InheritedCycle.zones = <<>> /\ InheritedCycle.files = <<>>
    BY <2>2, <2>3, NoCycleTyped DEF Cycles, NoCycle
  <2> QED BY <2>1, <2>3, <2>4
<1>4. PICK m \in Nat :
        /\ DOMAIN old.listening = 1 .. m /\ Len(old.listening) = m
        /\ old \in Cycles /\ old.id = 0 /\ old.zones = <<>> /\ old.files = <<>>
        /\ \A k \in 1 .. m : old.listening[k].fd = k
        /\ PathsOnce(old)
  <2>1. CASE old = NoCycle
    <3>1. DOMAIN old.listening = 1 .. 0 /\ Len(old.listening) = 0
      BY <2>1 DEF NoCycle
    <3> QED BY <2>1, <3>1, NoCycleTyped DEF NoCycle, PathsOnce
  <2>2. CASE old = InheritedCycle
    <3>1. \A j, k \in 1 .. n :
            Inherited[j].at.addr = Inherited[k].at.addr /\ Inherited[k].at.addr \in Unix => j = k
      BY <1>2, CycleAssumption
    <3>2. PathsOnce(old)
      BY <1>3, <2>2, <3>1 DEF PathsOnce
    <3>3. Len(old.listening) = n
      BY <1>3, <2>2 DEF Cycles
    <3> QED BY <1>3, <2>2, <3>2, <3>3
  <2> QED BY <2>1, <2>2 DEF Init
<1>5. /\ DOMAIN fds = 0 .. m /\ fds[0] = FileOf(Stderr) /\ fds = [k \in DOMAIN fds |-> fds[k]]
      /\ \A k \in 1 .. m : "at" \in DOMAIN fds[k] /\ fds[k].at = old.listening[k].at
  BY <1>4 DEF Init
<1>6. IsFiniteSet(DOMAIN fds)
  <2>1. 0 \in Int /\ m \in Int
    OBVIOUS
  <2> QED BY <1>5, <2>1, FS_Interval
<1>7. new \in Cycles /\ DOMAIN new.files = {} /\ DOMAIN new.listening = {} /\ DOMAIN new.zones = {}
      /\ DOMAIN old.files = {} /\ DOMAIN old.zones = {} /\ DOMAIN old_cycles = {}
  BY <1>1, <1>4, NoCycleTyped DEF NoCycle
<1>8. CycleTypes
  BY <1>1, <1>4, <1>5, <1>6, <1>7 DEF CycleTypes, Between
<1>9. Numbered
  BY <1>1, <1>4 DEF Numbered, Between, Loading, Committed
<1>10. FilesInv
  <2>1. StderrOpen
    BY <1>5, <1>7 DEF StderrOpen
  <2> QED BY <1>1, <1>7, <2>1 DEF FilesInv, FilesUntouched, FilesDistinct, OldFiles, Committed
<1>11. SocketsInv
  <2>1. OldSockets = 1 .. m /\ NewSockets = {}
    BY <1>1, <1>4, <1>7 DEF OldSockets, NewSockets
  <2>2. \A k \in 1 .. m : Serves(old.listening[k])
    <3>1. \A k \in 1 .. m : old.listening[k].at.addr \in Unix => old.listening[k].at.addr \in sockfiles
      BY <1>4 DEF Init, Range
    <3>2. ASSUME NEW k \in 1 .. m PROVE Serves(old.listening[k])
      <4>1. /\ old.listening[k].fd = k /\ k \in DOMAIN fds
            /\ "at" \in DOMAIN fds[k] /\ fds[k].at = old.listening[k].at
        BY <1>4, <1>5
      <4> QED BY <3>1, <4>1 DEF Serves
    <3> QED BY <3>2
  <2>3. SocketsDistinct
    BY <1>4, <2>1 DEF SocketsDistinct
  <2> QED BY <1>1, <1>4, <1>7, <2>1, <2>2, <2>3 DEF SocketsInv, PathsOnce, EitherOr, RemainsTaken,
            SocketsUntouched, Committed
<1>12. Accounted
  <2>1. OldSockets = 1 .. m
    BY <1>1, <1>4 DEF OldSockets
  <2> QED BY <1>4, <1>5, <2>1 DEF Accounted, UsedBy
<1>13. ZonesInv
  BY <1>1, <1>7 DEF ZonesInv, NamesDistinct, Range
<1>14. PoolsInv
  BY <1>1, <1>4, <1>7 DEF PoolsInv, Between, Range
<1> QED BY <1>8, <1>9, <1>10, <1>11, <1>12, <1>13, <1>14

(* A process that has exited does nothing.                                  *)
LEMMA NotAfterExit == Next => at # "exited"
BY DEF Next, Load, Pass, KeepPid, FilesOpen, ZeroZone, InheritDone, SkipSocket, SocketsOpen,
       Reopened, ReadConf, RefuseConf, ngx_create_pidfile, PidFileFails, Paths, OpenFile, ReuseZone,
       AllocZone, ZonesDone, InheritSocket, OpenSocket, Commit, FreeZones, CloseSockets, CloseFiles,
       Finish, KeepFails, Rollback, Reopen, ReopenFile, Accept, CloseConnections,
       ngx_clean_old_cycles, Exit, Idle

(* Every step of a load, of reopening files and of cleaning old cycles      *)
(* keeps the invariant.                                                     *)
LEMMA InvNext == Inv /\ [Next]_vars => Inv'
<1> SUFFICES ASSUME Inv, [Next]_vars, at' # "exited" PROVE Inv'
  BY DEF Inv
<1>1. CASE Next
  <2>1. at # "exited"
    BY <1>1, NotAfterExit
  <2>2. CycleTypes /\ Numbered /\ FilesInv /\ SocketsInv /\ Accounted /\ ZonesInv /\ PoolsInv
    BY <2>1 DEF Inv
  <2>3. CycleTypes' /\ Numbered'
    BY <1>1, <2>1, <2>2, TypesStep, NumberedStep
  <2>4. FilesInv' /\ SocketsInv' /\ Accounted'
    BY <1>1, <2>1, <2>2, FilesStep, SocketsStep, AccountedStep
  <2>5. ZonesInv' /\ PoolsInv'
    BY <1>1, <2>1, <2>2, ZonesStep, PoolsStep
  <2> QED BY <2>3, <2>4, <2>5 DEF Inv
<1>2. CASE UNCHANGED vars
  <2>1. /\ UNCHANGED <<mode, at, i, old, new, fds, shm, sockfiles, pools>>
        /\ UNCHANGED <<old_cycles, live, made, committed>>
    BY <1>2 DEF vars, disk, oldCycles, history
  <2>2. at # "exited" /\ CycleTypes /\ Numbered /\ FilesInv /\ SocketsInv /\ Accounted
        /\ ZonesInv /\ PoolsInv
    BY <2>1 DEF Inv
  <2> USE DEF Loading, Committed, Between, OldFiles, OldSockets, NewSockets
  <2>3. CycleTypes' /\ Numbered'
    BY <2>1, <2>2 DEF CycleTypes, Numbered
  <2>4. FilesInv'
    BY <2>1, <2>2, Zenon DEF FilesInv, Opens, FilesUntouched, StderrOpen
  <2>5. SocketsInv'
    <3>1. SocketsUntouched' /\ SocketsKept(fds')
      BY <2>1, <2>2 DEF SocketsInv, SocketsUntouched, SocketsKept
    <3> QED BY <2>1, <2>2, <3>1, SocketsFrame DEF Compared
  <2>6. Accounted'
    BY <2>1, <2>2, Zenon DEF Accounted, UsedBy
  <2>7. ZonesInv'
    <3>1. made \in Nat /\ \A s \in shm : s.by \in Nat
      BY <2>2 DEF CycleTypes, Segments
    <3> QED BY <2>1, <2>2, <3>1, ZonesFrame DEF ZonesKept, MustSettle, Unsettled
  <2>8. PoolsInv'
    BY <2>1, <2>2 DEF PoolsInv
  <2> QED BY <2>3, <2>4, <2>5, <2>6, <2>7, <2>8 DEF Inv
<1> QED BY <1>1, <1>2

(* The invariant of the cycles, until the process exits.                    *)
THEOREM InvCorrect == Spec => []Inv
<1>1. Init => Inv
  BY InvInit
<1>2. Inv /\ [Next]_vars => Inv'
  BY InvNext
<1> QED BY <1>1, <1>2, PTL DEF Spec

(* At every step of a load, also one that fails, the files, sockets and     *)
(* zones of the cycle in force are there and no pool with connections has   *)
(* been destroyed (ngx_init_cycle up to and after its rollback).            *)
THEOREM IntactCorrect == Spec => []InForceIntact
<1>1. Inv => InForceIntact
  <2> SUFFICES ASSUME Inv, at # "exited" PROVE InForceIntact
    BY DEF InForceIntact
  <2>1. CycleTypes /\ Numbered /\ FilesInv /\ SocketsInv /\ ZonesInv /\ PoolsInv
    BY DEF Inv
  <2>2. \A f \in Range(InForce.files) : f.fd \in DOMAIN fds /\ fds[f.fd] = FileOf(f.name)
    <3>1. CASE Committed
      BY <2>1, <3>1 DEF InForce, CommittedLast, FilesInv, FilesUntouched, Opens, Range
    <3>2. CASE ~Committed
      BY <2>1, <3>2 DEF InForce, CommittedLast, FilesInv, OldFiles, Opens, Range, Committed
    <3> QED BY <3>1, <3>2
  <2>3. \A l \in Range(InForce.listening) : Serves(l)
    <3>1. CASE Committed
      BY <2>1, <3>1 DEF InForce, CommittedLast, SocketsInv, SocketsUntouched, NewSockets, Range
    <3>2. CASE ~Committed
      BY <2>1, <3>2 DEF InForce, CommittedLast, SocketsInv, OldSockets, Range, Committed
    <3> QED BY <3>1, <3>2
  <2>4. \A z \in Range(InForce.zones) : z.addr \in shm
    <3>1. CASE Committed
      BY <2>1, <3>1 DEF InForce, CommittedLast, ZonesInv, Settled, InPlace, Range
    <3>2. CASE ~Committed
      BY <2>1, <3>2 DEF InForce, CommittedLast, ZonesInv, InPlace, ZonesKept, Committed
    <3> QED BY <3>1, <3>2
  <2>5. InForce.id \in pools /\ live \subseteq pools
    BY <2>1 DEF InForce, CommittedLast, PoolsInv, Committed, Between
  <2> QED BY <2>2, <2>3, <2>4, <2>5 DEF InForceIntact, Serves
<1> QED BY <1>1, InvCorrect, PTL

(* Between loads, however those before went, every descriptor has one user, *)
(* every zone that was in force and is not now has been freed, and only     *)
(* kept old cycles have pools (the closing and freeing loops at the end of  *)
(* ngx_init_cycle and its rollback).                                        *)
THEOREM LeftCorrect == Spec => []NothingLeft
<1>1. Inv => NothingLeft
  <2> SUFFICES ASSUME Inv, at = "idle" PROVE NothingLeft
    BY DEF NothingLeft
  <2>1. CycleTypes /\ Numbered /\ FilesInv /\ SocketsInv /\ Accounted /\ ZonesInv /\ PoolsInv
    BY DEF Inv
  <2>2. DOMAIN new.files = {} /\ DOMAIN new.listening = {}
    BY <2>1 DEF Numbered, Between, NoCycle
  <2>3. OldFiles = DOMAIN old.files /\ OldSockets = DOMAIN old.listening
    BY DEF OldFiles, OldSockets
  <2>4. ASSUME NEW n \in DOMAIN fds \ {0}, fds[n] # PidFd
        PROVE  Cardinality(Users(n)) = 1
    <3>1. UsedBy(n)
      BY <2>1, <2>4 DEF Accounted
    <3>2. \A k \in DOMAIN old.files : old.files[k].fd = n => Own(old.files[k]) /\ fds[n] = FileOf(old.files[k].name)
      BY <2>1, <2>3, <2>4, FilesOpened DEF FilesInv, StderrOpen, Own, Opens
    <3>3. \A j, k \in DOMAIN old.files : old.files[j].fd = n /\ old.files[k].fd = n => j = k
      BY <2>1, <3>2 DEF FilesInv, FilesDistinct
    <3>4. \A j, k \in DOMAIN old.listening :
             old.listening[j].fd = n /\ old.listening[k].fd = n => j = k
      BY <2>1 DEF SocketsInv, SocketsDistinct
    <3>5. \A j \in DOMAIN old.files, k \in DOMAIN old.listening :
             ~(old.files[j].fd = n /\ old.listening[k].fd = n)
      BY <2>1, <2>3, <3>2, NotBoth DEF SocketsInv
    <3>6. CASE \E k \in DOMAIN old.files : old.files[k].fd = n
      <4>1. PICK k \in DOMAIN old.files : old.files[k].fd = n
        BY <3>6
      <4>2. Users(n) = {<<"file", k>>}
        BY <3>3, <3>5, <4>1 DEF Users
      <4> QED BY <4>2, FS_Singleton
    <3>7. CASE \E k \in DOMAIN old.listening : old.listening[k].fd = n
      <4>1. PICK k \in DOMAIN old.listening : old.listening[k].fd = n
        BY <3>7
      <4>2. Users(n) = {<<"socket", k>>}
        BY <3>4, <3>5, <4>1 DEF Users
      <4> QED BY <4>2, FS_Singleton
    <3> QED BY <2>2, <2>3, <3>1, <3>6, <3>7 DEF UsedBy, NewSockets
  <2>5. \A s \in shm : s.by \in committed => \E z \in Range(old.zones) : z.addr = s
    BY <2>1 DEF ZonesInv, Committed
  <2>6. pools = {old.id} \cup (Range(old_cycles) \ {0})
    BY <2>1 DEF PoolsInv, Between
  <2> QED BY <2>4, <2>5, <2>6 DEF NothingLeft
<1> QED BY <1>1, InvCorrect, PTL

-----------------------------------------------------------------------------
(* What a reload promises needs more: the new sockets are those that the    *)
(* configuration names, no two descriptors are of the same socket, and      *)
(* every old socket was compared with the new ones.                         *)
NewPlaces ==
    ~Between =>
        /\ new.conf \in Confs /\ DOMAIN new.listening = DOMAIN new.conf.listen
        /\ \A k \in DOMAIN new.listening :
              new.listening[k].at = new.conf.listen[k] /\ ~new.listening[k].ignore

SocketAt(n) == "at" \in DOMAIN fds[n]
OpenedBefore(n) ==
    /\ fds[n].by \in 0 .. made /\ fds[n].nth \in Nat
    /\ Loading /\ fds[n].by = made =>
          at \in {"commit", "failed"} \/ (at = "open" /\ fds[n].nth < i)
RecordsOnce ==
    /\ \A n \in DOMAIN fds : SocketAt(n) => OpenedBefore(n)
    /\ \A n, m \in DOMAIN fds : SocketAt(n) /\ fds[n] = fds[m] => n = m

AllCompared ==
    at \in {"listen", "open", "commit"} =>
        \A j \in DOMAIN old.listening :
            /\ old.listening[j].remain => ~old.listening[j].ignore
            /\ \A k \in DOMAIN new.listening :
                  /\ new.listening[k].open /\ ~old.listening[j].ignore
                  /\ old.listening[j].at = new.listening[k].at
                  => old.listening[j].remain

Offered == at # "exited" => NewPlaces /\ RecordsOnce /\ AllCompared

(* A new cycle has a listening socket for each listen of its configuration. *)
LEMMA NewCyclePlaces ==
    ASSUME CycleTypes, NEW c \in Confs, NEW d, d = NewCycle(c)
    PROVE  /\ d.conf = c /\ DOMAIN d.listening = DOMAIN c.listen
           /\ \A k \in DOMAIN d.listening : d.listening[k].at = c.listen[k] /\ ~d.listening[k].ignore
BY DEF NewCycle

(* Every step keeps the addresses of the new cycle's sockets.               *)
LEMMA PlacesStep ==
    ASSUME CycleTypes, NewPlaces, Next, at # "exited", at' # "exited"
    PROVE  NewPlaces'
<1>0. old \in Cycles /\ new \in Cycles /\ Free \in Int
  BY FreeIsNew DEF CycleTypes
<1>1. CASE new' = new /\ (Between => Between')
  BY <1>1 DEF NewPlaces
<1>2. CASE \E c \in Confs : ReadConf(c)
  <2>1. PICK c \in Confs : ReadConf(c)
    BY <1>2
  <2> QED BY <2>1, NewCyclePlaces DEF ReadConf, NewPlaces
<1>3. CASE Between'
  BY <1>3 DEF NewPlaces
<1>4. CASE OpensFile \/ (\E a : TakesZone(a))
  <2>1. CASE OpensFile
    <3>1. new'.conf = new.conf /\ new'.listening = new.listening /\ ~Between
      BY <1>0, <2>1, FileChanged DEF OpensFile, Frame, Between
    <3> QED BY <3>1 DEF NewPlaces
  <2>2. CASE \E a : TakesZone(a)
    <3>1. PICK a : TakesZone(a)
      BY <2>2
    <3>2. new'.conf = new.conf /\ new'.listening = new.listening /\ ~Between
      BY <1>0, <3>1 DEF TakesZone, Between, Cycles
    <3> QED BY <3>2 DEF NewPlaces
  <2> QED BY <1>4, <2>1, <2>2
<1>5. CASE ~Between /\ \E p \in DOMAIN new.listening : SocketOnly(new, p, new')
  BY <1>5 DEF NewPlaces, SocketOnly, Frame
<1>6. CASE InheritSocket
  <2>1. i \in DOMAIN new.listening
    BY <1>6, Indices, Within DEF InheritSocket
  <2>2. SocketOnly(new, i, new')
    <3>1. CASE Candidates = {}
      BY <1>0, <1>6, <2>1, <3>1, OpenChanged DEF InheritSocket
    <3>2. CASE Candidates # {}
      <4>1. PICK k \in DOMAIN old.listening : new' = [new EXCEPT !.listening[i].fd = old.listening[k].fd]
        BY <1>6, <3>2, TakesFirst
      <4>2. old.listening[k].fd \in Int
        <5>1. old.listening[k] \in SocketRecs
          BY <1>0 DEF Cycles
        <5> QED BY <5>1 DEF SocketRecs
      <4> QED BY <1>0, <2>1, <4>1, <4>2, FdChanged
    <3> QED BY <3>1, <3>2
  <2> QED BY <1>5, <1>6, <2>1, <2>2 DEF InheritSocket, Between
<1>7. CASE OpensSocket
  BY <1>0, <1>5, <1>7, FdChanged DEF OpensSocket, Between
<1>8. CASE Quiet \/ LeavesPid \/ ZonesDone \/ FreeZones \/ CloseSockets \/ CloseFiles \/ ReopensFile
  <2>1. new' = new
    BY <1>8 DEF Quiet, LeavesPid, ZonesDone, FreeZones, CloseSockets, CloseFiles, ReopensFile
  <2>2. Between => Between'
    <3> SUFFICES ASSUME at \in {"idle", "reopen"} PROVE at' \in {"idle", "reopen"}
      BY DEF Between
    <3>1. Quiet \/ ReopensFile
      BY <1>8 DEF LeavesPid, ZonesDone, FreeZones, CloseSockets, CloseFiles
    <3> QED BY <3>1 DEF Quiet, Moves, Between, ReopensFile, Fails, Loading, Onward
  <2> QED BY <1>1, <2>1, <2>2
<1>9. CASE Finish \/ Rollback
  BY <1>3, <1>9 DEF Finish, Rollback, Between
<1> QED BY Kinds, <1>2, <1>4, <1>6, <1>7, <1>8, <1>9, Zenon DEF Changes

(* The number of cycles grows by one when a configuration is read or        *)
(* refused, and at no other step.                                           *)
LEMMA MadeGrows ==
    ASSUME CycleTypes, Next
    PROVE  made' = made \/ (at = "idle" /\ made' = made + 1)
BY CountsStay DEF ReadConf, RefuseConf, Commit, Finish, Rollback, Accept, CloseConnections,
                  ngx_clean_old_cycles

(* ngx_open_listening_sockets goes through the sockets one after the other, *)
(* and does not come back to one.                                           *)
LEMMA OpeningOnward ==
    ASSUME CycleTypes, Next, at' # "exited", Loading, Loading'
    PROVE  /\ made' = made
           /\ at \in {"commit", "failed"} => at' \in {"commit", "failed"}
           /\ at = "open" => at' \in {"commit", "failed"} \/ (at' = "open" /\ i' = i + 1)
<1> USE DEF Loading, Fails, Onward, Goto
<1>1. made' = made
  BY MadeGrows
<1>2. CASE Quiet \/ LeavesPid \/ OpensFile
  BY <1>1, <1>2 DEF Quiet, Moves, LeavesPid, OpensFile, Between
<1>3. CASE Changes /\ ~OpensFile
  BY <1>1, <1>3 DEF Changes, ReadConf, TakesZone, ZonesDone, InheritSocket, OpensSocket, FreeZones,
     CloseSockets, CloseFiles, Finish, Rollback, ReopensFile
<1> QED BY Kinds, <1>2, <1>3

(* A step that opens no socket makes no two descriptors of one.             *)
LEMMA RecordsFrame ==
    ASSUME CycleTypes, Next, at # "exited", at' # "exited", RecordsOnce,
           \A n \in DOMAIN fds' : SocketAt(n)' => n \in DOMAIN fds /\ fds'[n] = fds[n]
    PROVE  RecordsOnce'
<1>1. ASSUME NEW n \in DOMAIN fds', SocketAt(n)' PROVE OpenedBefore(n)'
  <2>1. n \in DOMAIN fds /\ fds'[n] = fds[n] /\ OpenedBefore(n) /\ made \in Nat /\ i \in Nat
    BY <1>1 DEF RecordsOnce, SocketAt, CycleTypes
  <2>2. fds[n].by \in 0 .. made /\ fds[n].nth \in Nat
    BY <2>1 DEF OpenedBefore
  <2>3. fds[n].by \in 0 .. made'
    BY <2>1, <2>2, MadeGrows
  <2>4. ASSUME Loading', fds[n].by = made'
        PROVE  (at \in {"commit", "failed"} \/ (at = "open" /\ fds[n].nth < i))'
    <3>1. made' = made
      BY <2>1, <2>2, <2>4, MadeGrows
    <3>2. Loading
      <4>1. CASE SameCycles
        BY <2>4, <4>1 DEF SameCycles
      <4>2. CASE \E c \in Confs : ReadConf(c)
        BY <2>1, <3>1, <4>2 DEF ReadConf
      <4>3. CASE Finish \/ Rollback
        BY <2>4, <4>3 DEF Finish, Rollback, Loading
      <4> QED BY <4>1, <4>2, <4>3, CyclesStay
    <3>3. at \in {"commit", "failed"} \/ (at = "open" /\ fds[n].nth < i)
      BY <2>1, <2>4, <3>1, <3>2 DEF OpenedBefore
    <3> QED BY <2>1, <2>2, <2>4, <3>2, <3>3, OpeningOnward
  <2> QED BY <2>1, <2>2, <2>3, <2>4 DEF OpenedBefore
<1>2. \A n, m \in DOMAIN fds' : SocketAt(n)' /\ fds'[n] = fds'[m] => n = m
  BY DEF RecordsOnce, SocketAt
<1> QED BY <1>1, <1>2 DEF RecordsOnce, SocketAt

(* No step makes two descriptors of the same socket: those that the new     *)
(* cycle opens are new ones.                                                *)
LEMMA RecordsStep ==
    ASSUME CycleTypes, Numbered, RecordsOnce, Next, at # "exited", at' # "exited"
    PROVE  RecordsOnce'
<1>1. CASE fds' = fds
  BY <1>1, RecordsFrame DEF SocketAt
<1>2. CASE \E what : fds' = Opened(what) /\ "at" \notin DOMAIN what
  <2>1. PICK what : fds' = Opened(what) /\ "at" \notin DOMAIN what
    BY <1>2
  <2>2. DOMAIN fds' = DOMAIN fds \cup {Free} /\ fds'[Free] = what /\ \A n \in DOMAIN fds : fds'[n] = fds[n]
    BY <2>1, OpenedOne
  <2> QED BY <2>1, <2>2, RecordsFrame DEF SocketAt
<1>3. CASE \E S : fds' = Closed(S)
  <2>1. PICK S : fds' = Closed(S)
    BY <1>3
  <2>2. DOMAIN fds' = DOMAIN fds \ S /\ \A n \in DOMAIN fds' : fds'[n] = fds[n]
    BY <2>1, ClosedSome
  <2> QED BY <2>2, RecordsFrame DEF SocketAt
<1>4. CASE OpensSocket
  <2>1. PICK p \in Nat, c \in Nat, f \in Nat : p = i /\ c = made /\ f = Free
    BY FreeIsNew DEF CycleTypes
  <2> DEFINE r == [at |-> new.listening[p].at, by |-> c, nth |-> p]
  <2>2. /\ fds' = Opened(r) /\ at = "open" /\ at' = "open" /\ i' = p + 1 /\ made' = c
        /\ Loading /\ Loading'
    BY <1>4, <2>1, MadeGrows DEF OpensSocket, Socket, Numbered, Between, Onward, Loading
  <2>3. /\ DOMAIN fds' = DOMAIN fds \cup {f} /\ fds'[f] = r /\ f \notin DOMAIN fds
        /\ \A n \in DOMAIN fds : fds'[n] = fds[n]
    <3> HIDE DEF r
    <3> QED BY <2>1, <2>2, OpenedOne, FreeIsNew
  <2>4. \A n \in DOMAIN fds : SocketAt(n) => /\ fds[n].by \in 0 .. c /\ fds[n].nth \in Nat
                                             /\ fds[n].by = c => fds[n].nth < p
    BY <2>1, <2>2 DEF RecordsOnce, OpenedBefore
  <2>5. ASSUME NEW n \in DOMAIN fds', SocketAt(n)' PROVE OpenedBefore(n)'
    <3>1. CASE n = f
      BY <2>1, <2>2, <2>3, <3>1 DEF OpenedBefore
    <3>2. CASE n # f
      <4>1. fds'[n] = fds[n] /\ SocketAt(n) /\ n \in DOMAIN fds
        BY <2>3, <2>5, <3>2 DEF SocketAt
      <4> QED BY <2>1, <2>2, <2>4, <4>1 DEF OpenedBefore
    <3> QED BY <3>1, <3>2
  <2>6. ASSUME NEW n \in DOMAIN fds', NEW m \in DOMAIN fds', SocketAt(n)', fds'[n] = fds'[m]
        PROVE  n = m
    <3>1. \A k \in DOMAIN fds : SocketAt(k) => fds[k] # r
      <4>1. r.by = c /\ r.nth = p /\ ~(p < p)
        BY <2>1
      <4> QED BY <2>4, <4>1
    <3>2. "at" \in DOMAIN r
      OBVIOUS
    <3> HIDE DEF r
    <3>3. CASE n = f
      BY <2>3, <2>6, <3>1, <3>2, <3>3 DEF SocketAt
    <3>4. CASE m = f
      BY <2>3, <2>6, <3>1, <3>2, <3>4 DEF SocketAt
    <3>5. CASE n # f /\ m # f
      BY <2>3, <2>6, <3>5 DEF SocketAt, RecordsOnce
    <3> QED BY <3>3, <3>4, <3>5
  <2> QED BY <2>5, <2>6 DEF RecordsOnce
<1>5. CASE ReopensFile
  <2>1. "at" \notin DOMAIN FileOf(old.files[i].name)
    BY DEF FileOf
  <2>2. \A n \in DOMAIN fds' : n # Free => n \in DOMAIN fds /\ fds'[n] = fds[n]
    BY <1>5 DEF ReopensFile
  <2>3. fds'[Free] = FileOf(old.files[i].name)
    BY <1>5 DEF ReopensFile
  <2> QED BY <2>1, <2>2, <2>3, RecordsFrame DEF SocketAt
<1>6. CASE LeavesPid \/ OpensFile
  <2>1. "at" \notin DOMAIN PidFd /\ \A name : "at" \notin DOMAIN FileOf(name)
    BY DEF PidFd, FileOf
  <2>2. fds' = Opened(PidFd) \/ \E name : fds' = Opened(FileOf(name))
    BY <1>6 DEF LeavesPid, OpensFile
  <2> QED BY <1>2, <2>1, <2>2
<1>7. CASE CloseSockets \/ CloseFiles \/ Rollback
  BY <1>3, <1>7, Zenon DEF CloseSockets, CloseFiles, Rollback
<1>8. CASE Quiet \/ (\E c \in Confs : ReadConf(c)) \/ (\E a : TakesZone(a)) \/ ZonesDone
           \/ InheritSocket \/ FreeZones \/ Finish
  BY <1>1, <1>8 DEF Quiet, ReadConf, TakesZone, ZonesDone, InheritSocket, FreeZones, Finish
<1> QED BY Kinds, <1>4, <1>5, <1>6, <1>7, <1>8, Zenon DEF Changes

(* Every step keeps what the comparison of old and new sockets has found: a *)
(* socket is opened only when every old one at its address is taken over,   *)
(* and none is taken over that is ignored.                                  *)
LEMMA ComparedStep ==
    ASSUME CycleTypes, Numbered, SocketsInv, AllCompared, Next, at # "exited", at' # "exited"
    PROVE  AllCompared'
<1>0. old \in Cycles /\ new \in Cycles /\ Free \in Int
  BY FreeIsNew DEF CycleTypes
<1>1. CASE at' \notin {"listen", "open", "commit"}
  BY <1>1 DEF AllCompared
<1>2. CASE Quiet
  <2>1. at' \in {"listen", "open", "commit"} => at \in {"listen", "open", "commit"}
    BY <1>2 DEF Quiet, Moves, Fails, Onward
  <2> QED BY <1>2, <2>1 DEF Quiet, AllCompared
<1>3. CASE ZonesDone
  <2>1. at = "zones" /\ at' = "listen" /\ new' = new
    BY <1>3 DEF ZonesDone, Goto
  <2>2. \A k \in DOMAIN new.listening : ~new.listening[k].open
    BY <2>1 DEF SocketsInv, SocketsUntouched
  <2>3. \A j \in DOMAIN old'.listening : ~old'.listening[j].remain
    BY <1>0, <1>3, RemainReset DEF ZonesDone
  <2> QED BY <2>1, <2>2, <2>3 DEF AllCompared
<1>4. CASE InheritSocket
  <2>0. PICK p \in Nat : p = i
    BY DEF CycleTypes
  <2>1. at = "listen" /\ at' = "listen" /\ p \in DOMAIN new.listening
    BY <1>4, <2>0, Indices, Within DEF InheritSocket
  <2>2. ~new.listening[p].open
    BY <2>0, <2>1 DEF SocketsInv, SocketsUntouched, CycleTypes
  <2>3. CASE Candidates = {}
    <3>1. /\ old' = old /\ DOMAIN new'.listening = DOMAIN new.listening
          /\ new'.listening[p].at = new.listening[p].at
          /\ \A k \in DOMAIN new.listening \ {p} : new'.listening[k] = new.listening[k]
      BY <1>0, <1>4, <2>0, <2>1, <2>3, OpenChanged DEF InheritSocket, SocketOnly
    <3>2. \A j \in DOMAIN old.listening :
              ~old.listening[j].ignore /\ old.listening[j].at = new.listening[p].at
              => old.listening[j].remain
      BY <2>0, <2>3 DEF Candidates
    <3> QED BY <2>1, <3>1, <3>2 DEF AllCompared
  <2>4. CASE Candidates # {}
    <3>1. PICK m \in DOMAIN old.listening :
              /\ m \in Candidates
              /\ new' = [new EXCEPT !.listening[p].fd = old.listening[m].fd]
              /\ old' = [old EXCEPT !.listening[m].remain = TRUE]
      BY <1>4, <2>0, <2>4, TakesFirst
    <3>2. old.listening[m].fd \in Int /\ ~old.listening[m].ignore
      <4>1. old.listening[m] \in SocketRecs
        BY <1>0 DEF Cycles
      <4> QED BY <3>1, <4>1 DEF SocketRecs, Candidates
    <3>3. PICK n \in Int : n = old.listening[m].fd
      BY <3>2
    <3>4. /\ DOMAIN new'.listening = DOMAIN new.listening
          /\ new'.listening[p].open = new.listening[p].open
          /\ \A k \in DOMAIN new.listening \ {p} : new'.listening[k] = new.listening[k]
      BY <1>0, <2>1, <3>1, <3>3, FdChanged DEF SocketOnly
    <3>5. /\ DOMAIN old'.listening = DOMAIN old.listening
          /\ old'.listening[m].at = old.listening[m].at /\ old'.listening[m].remain
          /\ old'.listening[m].ignore = old.listening[m].ignore
          /\ \A k \in DOMAIN old.listening \ {m} : old'.listening[k] = old.listening[k]
      BY <1>0, <3>1, RemainChanged DEF SocketOnly
    <3> QED BY <2>1, <2>2, <3>2, <3>4, <3>5 DEF AllCompared
  <2> QED BY <2>3, <2>4
<1>5. CASE OpensSocket
  <2>0. PICK p \in Nat : p = i /\ p \in DOMAIN new.listening
    BY <1>5 DEF OpensSocket, CycleTypes
  <2>1. PICK n \in Int : n = Free
    BY <1>0
  <2>2. /\ DOMAIN new'.listening = DOMAIN new.listening
        /\ new'.listening[p].at = new.listening[p].at
        /\ new'.listening[p].open = new.listening[p].open
        /\ \A k \in DOMAIN new.listening \ {p} : new'.listening[k] = new.listening[k]
    BY <1>0, <1>5, <2>0, <2>1, FdChanged DEF OpensSocket, SocketOnly
  <2>3. at = "open" /\ old' = old
    BY <1>5 DEF OpensSocket
  <2> QED BY <2>2, <2>3 DEF AllCompared
<1>6. CASE LeavesPid \/ OpensFile \/ (\E a : TakesZone(a))
  BY <1>1, <1>6 DEF LeavesPid, OpensFile, TakesZone, Fails, Onward
<1>7. CASE (\E c \in Confs : ReadConf(c)) \/ FreeZones \/ CloseSockets \/ CloseFiles
           \/ Finish \/ Rollback \/ ReopensFile
  BY <1>1, <1>7 DEF ReadConf, FreeZones, CloseSockets, CloseFiles, Finish, Rollback, ReopensFile, Goto
<1> QED BY Kinds, <1>2, <1>3, <1>4, <1>5, <1>6, <1>7, Zenon DEF Changes

(* At the start every descriptor is of a socket of its own, and nothing is  *)
(* compared yet.                                                            *)
LEMMA OfferedInit == Init => Offered
<1> SUFFICES ASSUME Init PROVE Offered
  OBVIOUS
<1>1. at = "idle" /\ made = 0 /\ Between /\ ~Loading
  BY DEF Init, Between, Loading
<1>2. NewPlaces /\ AllCompared
  BY <1>1 DEF NewPlaces, AllCompared
<1>3. Len(old.listening) \in Nat
  <2>1. old.listening \in Seq(SocketRecs)
    BY <1>1, InvInit DEF Inv, CycleTypes, Cycles
  <2> QED BY <2>1
<1>a. PICK len \in Nat : len = Len(old.listening)
  BY <1>3
<1>4. /\ DOMAIN fds = 0 .. len
      /\ \A n \in DOMAIN fds :
            fds[n] = IF n = 0 THEN FileOf(Stderr)
                     ELSE [at |-> old.listening[n].at, by |-> 0, nth |-> n]
  BY <1>a DEF Init
<1>5. ~SocketAt(0)
  BY <1>4 DEF SocketAt, FileOf
<1>6. \A n \in DOMAIN fds \ {0} : fds[n].by = 0 /\ fds[n].nth = n /\ n \in Nat
  BY <1>4
<1>7. \A n \in DOMAIN fds : SocketAt(n) => OpenedBefore(n)
  BY <1>1, <1>5, <1>6 DEF OpenedBefore
<1>8. ASSUME NEW n \in DOMAIN fds, NEW m \in DOMAIN fds, SocketAt(n), fds[n] = fds[m]
      PROVE  n = m
  <2>1. SocketAt(m)
    BY <1>8 DEF SocketAt
  <2> QED BY <1>5, <1>6, <1>8, <2>1
<1> QED BY <1>2, <1>7, <1>8 DEF Offered, RecordsOnce

(* Every step keeps what a reload needs.                                    *)
LEMMA OfferedNext == Inv /\ Offered /\ [Next]_vars => Offered'
<1> SUFFICES ASSUME Inv, Offered, [Next]_vars, at' # "exited" PROVE Offered'
  BY DEF Offered
<1>1. CASE Next
  <2>1. at # "exited"
    BY <1>1, NotAfterExit
  <2>2. CycleTypes /\ Numbered /\ SocketsInv /\ NewPlaces /\ RecordsOnce /\ AllCompared
    BY <2>1 DEF Inv, Offered
  <2> QED BY <1>1, <2>1, <2>2, PlacesStep, RecordsStep, ComparedStep DEF Offered
<1>2. CASE UNCHANGED vars
  <2>1. UNCHANGED <<at, i, old, new, fds, made>>
    BY <1>2 DEF vars
  <2>2. NewPlaces /\ RecordsOnce /\ AllCompared
    BY <2>1 DEF Offered
  <2>3. NewPlaces' /\ AllCompared'
    BY <2>1, <2>2 DEF NewPlaces, Between, AllCompared
  <2>4. RecordsOnce'
    BY <2>1, <2>2 DEF RecordsOnce, OpenedBefore, SocketAt, Loading
  <2> QED BY <2>3, <2>4 DEF Offered
<1> QED BY <1>1, <1>2

(* The process exits after a test of the configuration, after its first     *)
(* load was rolled back or refused, when initialising modules or keeping    *)
(* the old cycle fails, and when it is told to.                             *)
LEMMA LeavesHow ==
    ASSUME Next, at' = "exited"
    PROVE  Finish \/ Rollback \/ (at \in {"idle", "commit", "finish"} /\ UNCHANGED <<old, new, fds, committed>>)
<1> USE DEF Goto, Idle, history
<1>1. CASE \E c \in Confs : ReadConf(c) \/ RefuseConf(c)
  BY <1>1 DEF ReadConf, RefuseConf
<1>2. CASE Pass
  BY <1>2 DEF Pass, KeepPid, FilesOpen, ZeroZone, InheritDone, SkipSocket, SocketsOpen, Reopened
<1>3. CASE ngx_create_pidfile \/ PidFileFails \/ Paths \/ ReuseZone \/ AllocZone
  BY <1>3 DEF ngx_create_pidfile, PidFileFails, Paths, ReuseZone, AllocZone
<1>4. CASE OpenFile
  BY <1>4 DEF OpenFile
<1>5. CASE OpenSocket
  BY <1>5 DEF OpenSocket
<1>6. CASE ZonesDone \/ InheritSocket \/ Commit \/ FreeZones \/ CloseSockets \/ CloseFiles
           \/ KeepFails
  BY <1>6 DEF ZonesDone, InheritSocket, Commit, FreeZones, CloseSockets, CloseFiles, KeepFails
<1>7. CASE Reopen \/ ReopenFile \/ Accept \/ (\E c \in live : CloseConnections(c))
           \/ ngx_clean_old_cycles \/ Exit
  BY <1>7 DEF Reopen, ReopenFile, Accept, CloseConnections, ngx_clean_old_cycles, Exit
<1> QED BY <1>1, <1>2, <1>3, <1>4, <1>5, <1>6, <1>7, Zenon DEF Next, Load

(* Each listening socket of the cycle in force serves its address.          *)
LEMMA ForceServes ==
    ASSUME SocketsInv, at # "exited"
    PROVE  \A k \in DOMAIN InForce.listening : Serves(InForce.listening[k])
<1>1. CASE Committed
  BY <1>1 DEF InForce, CommittedLast, SocketsInv, SocketsUntouched, NewSockets
<1>2. CASE ~Committed
  BY <1>2 DEF InForce, CommittedLast, SocketsInv, OldSockets, Committed
<1> QED BY <1>1, <1>2

(* The sockets that are listened on stay when those of the cycle in force   *)
(* stay open.                                                               *)
StaysOpen(c, d) ==
    /\ d.conf = c.conf /\ DOMAIN d.listening = DOMAIN c.listening
    /\ \A k \in DOMAIN c.listening :
          /\ d.listening[k].fd = c.listening[k].fd /\ d.listening[k].ignore = c.listening[k].ignore
          /\ c.listening[k].fd \in DOMAIN fds /\ c.listening[k].fd \in DOMAIN fds'
          /\ fds'[c.listening[k].fd] = fds[c.listening[k].fd]
ForceStays == InForce'.conf = InForce.conf /\ Listening' = Listening

(* What is listened on changes only with the sockets of the cycle in force. *)
LEMMA OpenIsListening ==
    ASSUME NEW c, NEW d, c = InForce, d = InForce', StaysOpen(c, d)
    PROVE  ForceStays
<1>1. Listening = {fds[c.listening[k].fd] : k \in {j \in DOMAIN c.listening : ~c.listening[j].ignore}}
  BY DEF Listening, StaysOpen, Range
<1>2. Listening' = {fds'[d.listening[k].fd] : k \in {j \in DOMAIN d.listening : ~d.listening[j].ignore}}
  BY DEF Listening, StaysOpen, Range
<1>3. Listening' = Listening
  BY <1>1, <1>2 DEF StaysOpen
<1> QED BY <1>3 DEF StaysOpen, ForceStays

(* Before the commit the old cycle is in force: what leaves its sockets     *)
(* alone changes nothing that is listened on.                               *)
LEMMA OldStays ==
    ASSUME SocketsInv, ~Committed, ~Committed', at # "exited", at' # "exited", old'.conf = old.conf,
           DOMAIN old'.listening = DOMAIN old.listening,
           \A k \in DOMAIN old.listening :
              /\ old'.listening[k].fd = old.listening[k].fd
              /\ old'.listening[k].ignore = old.listening[k].ignore,
           SocketsKept(fds')
    PROVE  ForceStays
<1>1. InForce = old /\ InForce' = old'
  BY DEF InForce, CommittedLast
<1>2. ASSUME NEW k \in DOMAIN old.listening
      PROVE  /\ old.listening[k].fd \in DOMAIN fds /\ old.listening[k].fd \in DOMAIN fds'
             /\ fds'[old.listening[k].fd] = fds[old.listening[k].fd]
  <2>1. Serves(old.listening[k])
    BY <1>1, ForceServes
  <2>2. \A name : fds[old.listening[k].fd] # FileOf(name)
    BY <2>1, NotBoth
  <2> QED BY <2>1, <2>2 DEF SocketsKept, Serves
<1>3. StaysOpen(old, old')
  BY <1>2 DEF StaysOpen
<1> QED BY <1>1, <1>3, OpenIsListening

(* Everything a load does up to the commit, and reopening files, leaves the *)
(* sockets in force alone.                                                  *)
LEMMA ReadingStays ==
    ASSUME CycleTypes, FilesInv, SocketsInv, at # "exited", at' # "exited", at' # "free",
           Quiet \/ LeavesPid \/ OpensFile \/ (\E a : TakesZone(a)) \/ ReopensFile
           \/ (\E c \in Confs : ReadConf(c)) \/ ZonesDone \/ InheritSocket \/ OpensSocket
    PROVE  ForceStays
<1> USE DEF Committed, Loading, Fails, Onward, Goto
<1>0. old \in Cycles /\ new \in Cycles /\ Free \in Int
  BY FreeIsNew DEF CycleTypes
<1>1. CASE Quiet
  <2>1. SocketsKept(fds') /\ ~Committed /\ ~Committed'
    BY <1>1 DEF Quiet, Moves, Between, SocketsKept
  <2> HIDE DEF Committed
  <2> QED BY <1>1, <2>1, OldStays DEF Quiet
<1>2. CASE LeavesPid \/ OpensFile \/ OpensSocket
  <2>1. PICK what : fds' = Opened(what)
    BY <1>2 DEF LeavesPid, OpensFile, OpensSocket
  <2>2. SocketsKept(fds') /\ old' = old /\ ~Committed /\ ~Committed'
    BY <1>2, <2>1, OpenedKeeps DEF LeavesPid, OpensFile, OpensSocket
  <2> HIDE DEF Committed
  <2> QED BY <2>2, OldStays
<1>3. CASE (\E a : TakesZone(a)) \/ (\E c \in Confs : ReadConf(c))
  <2>1. SocketsKept(fds') /\ old' = old /\ ~Committed /\ ~Committed'
    BY <1>3 DEF TakesZone, ReadConf, SocketsKept
  <2> HIDE DEF Committed
  <2> QED BY <2>1, OldStays
<1>4. CASE ReopensFile
  <2>1. old'.listening = old.listening /\ old'.conf = old.conf /\ ~Committed /\ ~Committed'
    BY <1>0, <1>4, FileChanged DEF ReopensFile, Frame
  <2>2. fds[old.files[i].fd] = FileOf(old.files[i].name)
    BY <1>4 DEF FilesInv, OldFiles, Opens, ReopensFile
  <2>3. \A n \in DOMAIN fds \ {old.files[i].fd} : n \in DOMAIN fds' /\ fds'[n] = fds[n]
    BY <1>4, FreeIsNew DEF ReopensFile
  <2>4. SocketsKept(fds')
    BY <2>2, <2>3 DEF SocketsKept
  <2> HIDE DEF Committed
  <2> QED BY <2>1, <2>4, OldStays
<1>5. CASE ZonesDone
  <2>1. SocketsKept(fds') /\ ~Committed /\ ~Committed'
    BY <1>5 DEF ZonesDone, SocketsKept
  <2>2. /\ old'.conf = old.conf /\ DOMAIN old'.listening = DOMAIN old.listening
        /\ \A k \in DOMAIN old.listening :
              /\ old'.listening[k].fd = old.listening[k].fd
              /\ old'.listening[k].ignore = old.listening[k].ignore
    BY <1>0, <1>5, RemainReset DEF ZonesDone, Frame
  <2> HIDE DEF Committed
  <2> QED BY <2>1, <2>2, OldStays
<1>6. CASE InheritSocket
  <2>1. SocketsKept(fds') /\ ~Committed /\ ~Committed'
    BY <1>6 DEF InheritSocket, SocketsKept
  <2>2. CASE Candidates = {}
    <3>1. old' = old
      BY <1>6, <2>2 DEF InheritSocket
    <3> HIDE DEF Committed
    <3> QED BY <2>1, <3>1, OldStays
  <2>3. CASE Candidates # {}
    <3>1. PICK m \in DOMAIN old.listening : old' = [old EXCEPT !.listening[m].remain = TRUE]
      BY <1>6, <2>3, TakesFirst
    <3>2. /\ old'.conf = old.conf /\ DOMAIN old'.listening = DOMAIN old.listening
          /\ \A k \in DOMAIN old.listening :
                /\ old'.listening[k].fd = old.listening[k].fd
                /\ old'.listening[k].ignore = old.listening[k].ignore
      BY <1>0, <3>1, RemainChanged DEF SocketOnly, Frame
    <3> HIDE DEF Committed
    <3> QED BY <2>1, <3>2, OldStays
  <2> QED BY <2>2, <2>3
<1> QED BY <1>1, <1>2, <1>3, <1>4, <1>5, <1>6

(* Closing what only the old cycle has, after the commit, leaves the        *)
(* sockets in force alone.                                                  *)
LEMMA ClosingStays ==
    ASSUME CycleTypes, SocketsInv, SocketsInv', FreeZones \/ CloseSockets \/ CloseFiles
    PROVE  ForceStays
<1>1. Committed /\ Committed' /\ at # "exited" /\ new' = new /\ InForce = new /\ InForce' = new
  BY DEF FreeZones, CloseSockets, CloseFiles, Committed, InForce, CommittedLast, Goto
<1>2. \A n \in DOMAIN fds' : fds'[n] = fds[n]
  <2>1. CASE FreeZones
    BY <2>1 DEF FreeZones
  <2>2. CASE CloseSockets \/ CloseFiles
    <3>1. PICK S : fds' = Closed(S)
      BY <2>2, Zenon DEF CloseSockets, CloseFiles
    <3> QED BY <3>1, ClosedSome
  <2> QED BY <2>1, <2>2
<1>3. ASSUME NEW k \in DOMAIN new.listening
      PROVE  new.listening[k].fd \in DOMAIN fds /\ new.listening[k].fd \in DOMAIN fds'
  <2>1. Serves(new.listening[k])
    BY <1>1, ForceServes
  <2>2. \A j \in NewSockets' : Serves(new.listening[j])'
    BY DEF SocketsInv
  <2>3. k \in NewSockets'
    BY <1>1 DEF SocketsInv, SocketsUntouched, NewSockets
  <2> QED BY <1>1, <2>1, <2>2, <2>3 DEF Serves
<1>4. StaysOpen(new, new)
  BY <1>2, <1>3 DEF StaysOpen
<1> QED BY <1>1, <1>4, OpenIsListening

(* The new cycle goes on with its sockets when it replaces the old one.     *)
LEMMA FinishStays ==
    ASSUME CycleTypes, SocketsInv, Finish
    PROVE  ForceStays
<1>1. /\ InForce = new /\ InForce' = old' /\ fds' = fds /\ at # "exited"
      /\ old'.conf = new.conf /\ old'.listening = new.listening
  BY DEF Finish, Committed, InForce, CommittedLast, NoCycle, ngx_is_init_cycle, CycleTypes, Cycles
<1>2. \A k \in DOMAIN new.listening : new.listening[k].fd \in DOMAIN fds
  BY <1>1, ForceServes DEF Serves
<1>3. StaysOpen(new, old')
  BY <1>1, <1>2 DEF StaysOpen
<1> QED BY <1>1, <1>3, OpenIsListening

(* A rollback leaves the sockets in force alone.                            *)
LEMMA RollbackStays ==
    ASSUME CycleTypes, FilesInv, SocketsInv, Rollback
    PROVE  ForceStays
<1>1. PICK S : S = OwnFiles(new) \cup
                   IF mode = "test" THEN {}
                   ELSE {l.fd : l \in {k \in Range(new.listening) : k.fd # Invalid /\ k.open}}
  OBVIOUS
<1>2. /\ old' = old /\ fds' = Closed(S) /\ at = "failed" /\ at' \in {"idle", "exited"}
  BY <1>1 DEF Rollback
<1>3. InForce = old /\ InForce' = old /\ OldSockets = DOMAIN old.listening
  BY <1>2 DEF Rollback, InForce, CommittedLast, NoCycle, ngx_is_init_cycle, Committed, OldSockets
<1>4. \A n \in S : \/ \E name : fds[n] = FileOf(name)
                   \/ \E k \in NewSockets : new.listening[k].open /\ n = new.listening[k].fd
  BY <1>1 DEF FilesInv, Opens, OwnFiles, Range, NewSockets
<1>5. DOMAIN fds' = DOMAIN fds \ S /\ \A n \in DOMAIN fds' : fds'[n] = fds[n]
  BY <1>2, ClosedSome
<1>6. ASSUME NEW j \in DOMAIN old.listening
      PROVE  old.listening[j].fd \in DOMAIN fds /\ old.listening[j].fd \notin S
  <2>1. Serves(old.listening[j]) /\ \A name : fds[old.listening[j].fd] # FileOf(name)
    BY <1>2, <1>3, ForceServes, NotBoth
  <2>2. \A k \in NewSockets : new.listening[k].open => old.listening[j].fd # new.listening[k].fd
    BY <1>3 DEF SocketsInv, EitherOr, OfItsOwn
  <2> QED BY <1>4, <2>1, <2>2 DEF Serves
<1>7. StaysOpen(old, old)
  BY <1>5, <1>6 DEF StaysOpen
<1> QED BY <1>3, <1>7, OpenIsListening

-----------------------------------------------------------------------------
(* The step that Reload sees.                                               *)

(* Reload and Cycle count alike: each has a copy of the definition.         *)
LEMMA SameCardinality == \A S : Abstract!Cardinality(S) = Cardinality(S)
BY DEF Abstract!Cardinality, Cardinality

(* The values of a function on a finite set are finitely many.              *)
LEMMA ImageFinite ==
    ASSUME NEW S, IsFiniteSet(S), NEW f
    PROVE  IsFiniteSet({f[x] : x \in S})
<1> DEFINE T == {f[x] : x \in S}
           g == [x \in S |-> f[x]]
<1>1. g \in [S -> T] /\ \A t \in T : \E x \in S : g[x] = t
  OBVIOUS
<1> HIDE DEF g, T
<1>2. g \in Surjection(S, T)
  BY <1>1, Zenon DEF Surjection
<1>3. IsFiniteSet(T)
  BY <1>2, FS_Surjection
<1> QED BY <1>3 DEF T

(* An injective function has as many values as arguments.                   *)
LEMMA ImageCardinality ==
    ASSUME NEW S, IsFiniteSet(S), NEW f, \A x, y \in S : f[x] = f[y] => x = y
    PROVE  LET T == {f[x] : x \in S} IN IsFiniteSet(T) /\ Cardinality(T) = Cardinality(S)
<1> DEFINE T == {f[x] : x \in S}
           g == [x \in S |-> f[x]]
<1>1. g \in [S -> T] /\ \A t \in T : \E x \in S : g[x] = t
  OBVIOUS
<1>3. \A x, y \in S : g[x] = g[y] => x = y
  OBVIOUS
<1> HIDE DEF g, T
<1>4. g \in Surjection(S, T) /\ g \in Injection(S, T)
  BY <1>1, <1>3, Zenon DEF Surjection, Injection, IsInjective
<1>2. IsFiniteSet(T) /\ Cardinality(T) = Cardinality(S)
  BY <1>4, FS_Surjection
<1> QED BY <1>2 DEF T

(* The commit: at each address as many sockets are listened on as the new   *)
(* configuration wants, and of those before it as many as it has a use for, *)
(* because a socket is opened only when all old ones are taken over.        *)
LEMMA SucceedStep ==
    ASSUME CycleTypes, Numbered, SocketsInv, NewPlaces, RecordsOnce, AllCompared,
           at = "commit", at' = "free", UNCHANGED <<old, new, fds>>
    PROVE  \A l : /\ Cardinality(Abstract!At(Listening', l)) = Abstract!Wanted(new.conf, l)
                  /\ Cardinality(Abstract!At(Listening', l) \cap Listening)
                     = Abstract!Lesser(Cardinality(Abstract!At(Listening, l)), Abstract!Wanted(new.conf, l))
<1> DEFINE N == DOMAIN new.listening
           J == {j \in DOMAIN old.listening : ~old.listening[j].ignore}
           g == [k \in N |-> fds[new.listening[k].fd]]
           h == [j \in DOMAIN old.listening |-> fds[old.listening[j].fd]]
<1>1. ~Between /\ InForce = old /\ InForce' = new /\ NewSockets = N /\ OldSockets = DOMAIN old.listening
  BY DEF Between, InForce, CommittedLast, Committed, SocketsInv, SocketsUntouched, NewSockets, OldSockets
<1>2. /\ \A k \in N : Serves(new.listening[k]) /\ ~new.listening[k].ignore
                      /\ new.listening[k].at = new.conf.listen[k]
      /\ \A j \in DOMAIN old.listening : Serves(old.listening[j])
      /\ N = DOMAIN new.conf.listen
  BY <1>1 DEF SocketsInv, NewPlaces
<1>3. /\ Listening = {h[j] : j \in J}
      /\ Listening' = {g[k] : k \in N}
  <2>1. \A j \in DOMAIN old.listening : old.listening[j].fd \in DOMAIN fds
    BY <1>2 DEF Serves
  <2>2. Listening = {h[j] : j \in J}
    BY <1>1, <2>1 DEF Listening, Range
  <2>3. \A k \in N : new.listening[k].fd \in DOMAIN fds /\ ~new.listening[k].ignore
    BY <1>2 DEF Serves
  <2>4. Listening' = {fds[k.fd] : k \in {l \in Range(new.listening) : ~l.ignore /\ l.fd \in DOMAIN fds}}
    BY <1>1 DEF Listening
  <2>5. Listening' = {g[k] : k \in N}
    BY <2>3, <2>4 DEF Range
  <2> QED BY <2>2, <2>5
<1>4. /\ \A k \in N : g[k].at = new.conf.listen[k]
      /\ \A j \in DOMAIN old.listening : h[j].at = old.listening[j].at
  BY <1>2 DEF Serves
<1>5. \A j, k \in N : g[j] = g[k] => j = k
  <2>1. ASSUME NEW j \in N, NEW k \in N, g[j] = g[k] PROVE j = k
    <3>1. new.listening[j].fd = new.listening[k].fd
      BY <1>2, <2>1 DEF RecordsOnce, SocketAt, Serves
    <3> QED BY <1>1, <3>1 DEF SocketsInv, SocketsDistinct
  <2> QED BY <2>1
<1>6. IsFiniteSet(N) /\ IsFiniteSet(Listening)
  <2>1. N = 1 .. Len(new.listening) /\ Len(new.listening) \in Nat
    BY Indices, Zenon
  <2>2. IsFiniteSet(N)
    <3>1. 1 \in Int /\ Len(new.listening) \in Int
      BY <2>1
    <3> QED BY <2>1, <3>1, FS_Interval
  <2>3. IsFiniteSet({fds[n] : n \in DOMAIN fds})
    BY ImageFinite DEF CycleTypes
  <2>4. Listening \subseteq {fds[n] : n \in DOMAIN fds}
    BY <1>3, <1>2 DEF Serves
  <2> QED BY <2>2, <2>3, <2>4, FS_Subset
<1>7. \A j \in J, k \in N : new.listening[k].open /\ old.listening[j].at = new.listening[k].at
                            => \E m \in N : g[m] = h[j]
  BY <1>1 DEF AllCompared, SocketsInv, RemainsTaken
<1>8. \A k \in N : ~new.listening[k].open => \E j \in J : h[j] = g[k]
  BY <1>1 DEF AllCompared, SocketsInv, EitherOr, TakenOver
<1>9. \A j, k \in N : g[j] = g[k] => j = k
  BY <1>5
<1>10. \A j \in J : old.listening[j].at = h[j].at
  BY <1>4
<1>11. \A k \in N : new.listening[k].at = g[k].at
  BY <1>2, <1>4
<1> HIDE DEF g, h, J
<1> SUFFICES ASSUME NEW l
             PROVE  /\ Cardinality(Abstract!At(Listening', l)) = Abstract!Wanted(new.conf, l)
                    /\ Cardinality(Abstract!At(Listening', l) \cap Listening)
                       = Abstract!Lesser(Cardinality(Abstract!At(Listening, l)), Abstract!Wanted(new.conf, l))
  OBVIOUS
<1> DEFINE K == {k \in N : new.conf.listen[k] = l}
           A == {s \in Listening : s.at = l}
           B == {g[k] : k \in K}
<1>12. Abstract!Wanted(new.conf, l) = Cardinality(K)
  BY <1>2, SameCardinality DEF Abstract!Wanted
<1>13. Abstract!At(Listening, l) = A
  BY DEF Abstract!At
<1>14. Abstract!At(Listening', l) = B
  BY <1>3, <1>4 DEF Abstract!At
<1>15. IsFiniteSet(K) /\ IsFiniteSet(A)
  BY <1>6, FS_Subset
<1>16. IsFiniteSet(B) /\ Cardinality(B) = Cardinality(K)
  BY <1>5, <1>15, ImageCardinality
<1>17. Cardinality(A) \in Nat /\ Cardinality(B) \in Nat
  BY <1>15, <1>16, FS_CardinalityType
<1>18. CASE \A k \in K : ~new.listening[k].open
  <2>1. B \subseteq A
    BY <1>3, <1>4, <1>8, <1>18
  <2>2. B \cap Listening = B
    BY <2>1
  <2>3. Cardinality(B) <= Cardinality(A)
    <3> HIDE DEF A, B
    <3> QED BY <2>1, <1>15, FS_Subset
  <2> HIDE DEF A, B, K
  <2> QED BY <1>12, <1>13, <1>14, <1>16, <1>17, <2>2, <2>3 DEF Abstract!Lesser
<1>19. CASE \E k \in K : new.listening[k].open
  <2>1. PICK k \in K : new.listening[k].open
    BY <1>19
  <2>2. new.listening[k].at = l
    BY <1>4, <1>11, <2>1
  <2>3. A \subseteq B
    <3>1. ASSUME NEW s \in A PROVE s \in B
      <4>1. PICK j \in J : h[j] = s
        BY <1>3
      <4>2. old.listening[j].at = l
        BY <1>10, <4>1
      <4>3. PICK m \in N : g[m] = s
        BY <1>7, <2>1, <2>2, <4>1, <4>2
      <4>4. m \in K
        BY <1>4, <4>3
      <4> QED BY <4>3, <4>4
    <3> QED BY <3>1
  <2>4. B \cap Listening = A
    <3>1. \A s \in B : s.at = l
      BY <1>4
    <3> QED BY <2>3, <3>1
  <2>5. Cardinality(A) <= Cardinality(B)
    <3> HIDE DEF A, B
    <3> QED BY <2>3, <1>16, FS_Subset
  <2> HIDE DEF A, B, K
  <2> QED BY <1>12, <1>13, <1>14, <1>16, <1>17, <2>4, <2>5 DEF Abstract!Lesser
<1> QED BY <1>18, <1>19

(* What is asked for in the sense of Reload.                                *)
Asked == IF at \in {"idle", "reopen", "exited"} \/ Committed THEN NoConf ELSE new.conf

(* Every step of a load is a step of Reload or leaves what it speaks of     *)
(* alone.                                                                   *)
LEMMA ReloadStep ==
    ASSUME Inv, Offered, Next
    PROVE  [Abstract!Next]_<<InForce.conf, Asked, Listening>>
<1>1. at # "exited"
  BY NotAfterExit
<1>2. CycleTypes /\ Numbered /\ FilesInv /\ SocketsInv /\ NewPlaces /\ RecordsOnce /\ AllCompared
  BY <1>1 DEF Inv, Offered
<1>3. Asked = IF Loading THEN new.conf ELSE NoConf
  BY <1>1, <1>2 DEF CycleTypes, Asked, Loading, Committed, Between
<1>4. Loading => new.conf \in Confs /\ new.conf # NoConf
  <2>1. Loading => new.conf \in Confs
    BY <1>2 DEF NewPlaces, Loading, Between
  <2>2. NoConf \notin Confs
    BY CycleAssumption DEF NoConf
  <2> QED BY <2>1, <2>2
<1>5. CASE at' = "exited"
  <2>1. Asked' = NoConf
    BY <1>5 DEF Asked
  <2>2. ForceStays
    <3>1. CASE Finish
      BY <1>2, <3>1, FinishStays
    <3>2. CASE Rollback
      BY <1>2, <3>2, RollbackStays
    <3>3. CASE at \in {"idle", "commit", "finish"} /\ UNCHANGED <<old, new, fds, committed>>
      <4>1. CASE at = "finish"
        <5>1. new.id \in committed /\ new.id # 0
          BY <1>2, <4>1 DEF Numbered, Committed, Between, CycleTypes, Cycles
        <5>2. InForce = new /\ InForce' = new
          BY <1>5, <3>3, <4>1, <5>1 DEF InForce, Committed, CommittedLast, ngx_is_init_cycle
        <5> QED BY <3>3, <5>2 DEF ForceStays, Listening
      <4>2. CASE at # "finish"
        <5>1. ngx_is_init_cycle(new) \/ new.id \notin committed
          BY <1>2, <3>3, <4>2 DEF Numbered, Between, Loading, NoCycle, ngx_is_init_cycle
        <5>2. InForce = old /\ InForce' = old
          BY <1>5, <3>3, <4>2, <5>1 DEF InForce, Committed, CommittedLast, ngx_is_init_cycle
        <5> QED BY <3>3, <5>2 DEF ForceStays, Listening
      <4> QED BY <4>1, <4>2
    <3> QED BY <1>5, <3>1, <3>2, <3>3, LeavesHow
  <2>3. CASE Asked = NoConf
    BY <2>1, <2>2, <2>3 DEF ForceStays
  <2>4. CASE Asked # NoConf
    BY <2>1, <2>2, <2>4 DEF ForceStays, Abstract!Next, Abstract!Fail, Asked
  <2> QED BY <2>3, <2>4
<1>6. CASE at' # "exited" /\ at = "commit" /\ at' = "free"
  <2>1. UNCHANGED <<old, new, fds>>
    <3>1. Quiet
      BY <1>1, <1>2, <1>6, Kinds DEF LeavesPid, Changes, ReadConf, OpensFile, TakesZone, ZonesDone,
         InheritSocket, OpensSocket, FreeZones, CloseSockets, CloseFiles, Finish, Rollback,
         ReopensFile, Fails
    <3> QED BY <3>1 DEF Quiet
  <2>2. Asked = new.conf /\ Asked # NoConf /\ Asked' = NoConf /\ InForce'.conf = new.conf
    BY <1>3, <1>4, <1>6, <2>1 DEF Asked, Loading, Committed, InForce, CommittedLast
  <2>3. \A l : /\ Abstract!Cardinality(Abstract!At(Listening', l)) = Abstract!Wanted(Asked, l)
                /\ Abstract!Cardinality(Abstract!At(Listening', l) \cap Listening)
                   = Abstract!Lesser(Abstract!Cardinality(Abstract!At(Listening, l)), Abstract!Wanted(Asked, l))
    BY <1>2, <1>6, <2>1, <2>2, SucceedStep, SameCardinality, Zenon
  <2>4. Abstract!Succeed
    BY <2>2, <2>3, Zenon DEF Abstract!Succeed, Asked
  <2> QED BY <2>4 DEF Abstract!Next
<1>7. CASE at' # "exited" /\ ~(at = "commit" /\ at' = "free")
  <2>0. Asked' = IF Loading' THEN new'.conf ELSE NoConf
    BY <1>1, <1>2, <1>7, TypesStep DEF CycleTypes, Asked, Loading, Committed, Between
  <2>1. ForceStays
    <3>1. CASE Quiet \/ LeavesPid \/ OpensFile \/ (\E a : TakesZone(a)) \/ ReopensFile
               \/ (\E c \in Confs : ReadConf(c)) \/ ZonesDone \/ InheritSocket \/ OpensSocket
      <4>1. at' # "free"
        BY <1>7, <3>1 DEF Quiet, Moves, LeavesPid, OpensFile, TakesZone, ReopensFile, ReadConf,
           ZonesDone, InheritSocket, OpensSocket, Fails, Onward, Goto, Between
      <4> QED BY <1>1, <1>2, <1>7, <3>1, <4>1, ReadingStays
    <3>2. CASE FreeZones \/ CloseSockets \/ CloseFiles
      BY <1>1, <1>2, <1>7, <3>2, SocketsStep, ClosingStays
    <3>3. CASE Finish \/ Rollback
      BY <1>2, <3>3, FinishStays, RollbackStays
    <3> QED BY <1>1, <1>2, <1>7, <3>1, <3>2, <3>3, Kinds, Zenon DEF Changes
  <2>2. CASE SameCycles
    <3>1. Loading' => Loading /\ new'.conf = new.conf
      BY <2>2 DEF SameCycles
    <3>2. CASE Loading /\ ~Loading'
      BY <1>3, <1>4, <2>0, <2>1, <3>2 DEF ForceStays, Abstract!Next, Abstract!Fail, Asked
    <3>3. CASE Loading' \/ ~Loading
      BY <1>3, <2>0, <2>1, <3>1, <3>3 DEF ForceStays
    <3> QED BY <3>2, <3>3
  <2>3. CASE \E c \in Confs : ReadConf(c)
    <3>1. PICK c \in Confs : ReadConf(c)
      BY <2>3
    <3>2. Asked = NoConf /\ Asked' = c
      <4>1. at = "idle" /\ at' = "pidfile" /\ new'.conf = c
        BY <1>2, <3>1, NewCyclePlaces DEF ReadConf, Goto
      <4> QED BY <2>0, <4>1 DEF Asked, Loading
    <3> QED BY <2>1, <3>2 DEF ForceStays, Abstract!Next, Abstract!Ask, Asked
  <2>4. CASE Finish
    <3>1. Asked = NoConf /\ Asked' = NoConf
      BY <2>4 DEF Finish, Asked, Committed
    <3> QED BY <2>1, <3>1 DEF ForceStays
  <2>5. CASE Rollback
    <3>1. Asked # NoConf /\ Asked' = NoConf
      BY <1>3, <1>4, <2>5 DEF Rollback, Asked, Loading
    <3> QED BY <2>1, <3>1 DEF ForceStays, Abstract!Next, Abstract!Fail, Asked
  <2> QED BY <1>1, <1>2, <1>7, <2>2, <2>3, <2>4, <2>5, CyclesStay
<1> QED BY <1>5, <1>6, <1>7

(* To the outside a load is one step: ngx_init_cycle brings a configuration *)
(* into force with all its sockets, without an interruption of those in     *)
(* common, or changes nothing.                                              *)
THEOREM ReloadCorrect == Spec => ImplementsReload
<1>1. Init => Abstract!Init
  BY DEF Init, Abstract!Init, InForce, CommittedLast, Committed, NoCycle, InheritedCycle
<1>2. Inv /\ Offered /\ [Next]_vars => [Abstract!Next]_<<InForce.conf, Asked, Listening>>
  <2>1. UNCHANGED vars => UNCHANGED <<InForce.conf, Asked, Listening>>
    BY DEF vars, history, InForce, CommittedLast, Asked, Listening, Committed
  <2> QED BY <2>1, ReloadStep
<1>3. Init => Offered
  BY OfferedInit
<1>4. Inv /\ Offered /\ [Next]_vars => Offered'
  BY OfferedNext
<1> QED BY <1>1, <1>2, <1>3, <1>4, InvCorrect, PTL DEF Spec, ImplementsReload, Abstract!Spec, Asked
=============================================================================
