---------------------------- MODULE Upstream_proof ----------------------------
(***************************************************************************)
(* Theorems about Upstream, for any configurations, requests, clients and  *)
(* times: types, connections, no request twice to the same peer, none      *)
(* refused while a peer is left, one request to check a disabled peer, the *)
(* share of each peer.                                                     *)
(***************************************************************************)
EXTENDS UpstreamProperties, Sums

(* The peers and the data of a request.                                     *)
ReqData == [state : {"new", "ready", "holding", "busy"},
            backup : BOOLEAN, tried : SUBSET Peers,
            current : Peers \cup {NoPeer}, tries : Nat,
            addr : Addresses \cup {<<>>}, hash : Nat,
            hash_tries : 0 .. 21, past : SUBSET Peers, since : Nat]

LEMMA ServerTypes ==
    ASSUME up \in Upstreams, NEW p \in Peers
    PROVE  Server(p) \in Servers
<1>1. up.servers \in Seq(Servers)
  BY UpstreamAssumption
<1>2. PICK i \in DOMAIN up.servers : p \in {i} \X (1 .. up.servers[i].naddrs)
  BY DEF Peers, PeersOf
<1>3. p[1] = i
  BY <1>2
<1> QED BY <1>1, <1>2, <1>3 DEF Server

LEMMA ServerFields ==
    ASSUME up \in Upstreams, NEW p \in Peers
    PROVE  /\ Server(p).weight \in Nat \ {0} /\ Server(p).max_conns \in Nat
           /\ Server(p).max_fails \in Nat /\ Server(p).fail_timeout \in Nat
           /\ Server(p).down \in BOOLEAN /\ Server(p).backup \in BOOLEAN
BY ServerTypes DEF Servers

LEMMA PeersFinite == ASSUME up \in Upstreams PROVE IsFiniteSet(Peers)
<1> DEFINE D == DOMAIN up.servers
           at(i) == {i} \X (1 .. up.servers[i].naddrs)
           f == [i \in D |-> at(i)]
           All == {at(i) : i \in D}
<1>1. up.servers \in Seq(Servers)
  BY UpstreamAssumption
<1>2. IsFiniteSet(D)
  <2>1. D = 1 .. Len(up.servers) /\ Len(up.servers) \in Nat
    BY <1>1
  <2> HIDE DEF D
  <2> QED BY <2>1, FS_Interval
<1>3. ASSUME NEW i \in D PROVE IsFiniteSet(at(i))
  <2>1. up.servers[i] \in Servers
    BY <1>1, <1>3
  <2>2. PICK n \in Nat : n = up.servers[i].naddrs
    BY <2>1 DEF Servers
  <2>3. IsFiniteSet(1 .. n) /\ IsFiniteSet({i})
    <3>1. n \in Int /\ 1 \in Int
      OBVIOUS
    <3> QED BY <3>1, FS_Interval, FS_Singleton
  <2>4. IsFiniteSet({i} \X (1 .. n))
    BY <2>3, FS_Product
  <2> QED BY <2>2, <2>4
<1>4. f \in Surjection(D, All)
  <2> HIDE DEF at
  <2> QED BY DEF Surjection
<1>5. IsFiniteSet(All)
  <2> HIDE DEF f, All
  <2> QED BY <1>2, <1>4, FS_Surjection
<1>6. \A T \in All : IsFiniteSet(T)
  BY <1>3
<1>7. IsFiniteSet(UNION All)
  <2> HIDE DEF All
  <2> QED BY <1>5, <1>6, FS_UNION
<1> QED BY <1>7 DEF Peers, PeersOf

(* The order of the peers is total.                                         *)
LEMMA BeforeTotal ==
    ASSUME up \in Upstreams, NEW p \in Peers, NEW q \in Peers, NEW s \in Peers
    PROVE  /\ p # q => Before(p, q) \/ Before(q, p)
           /\ Before(p, q) /\ Before(q, s) => Before(p, s)
<1>1. ASSUME NEW x \in Peers
      PROVE  x[1] \in Int /\ x[2] \in Int /\ x = <<x[1], x[2]>>
  <2>1. up.servers \in Seq(Servers)
    BY UpstreamAssumption
  <2>2. PICK i \in DOMAIN up.servers : x \in {i} \X (1 .. up.servers[i].naddrs)
    BY DEF Peers, PeersOf
  <2>3. i \in Nat
    BY <2>1
  <2> QED BY <2>2, <2>3
<1> QED BY <1>1 DEF Before

(* The richest of some peers exists.                                        *)
Richer(q, p) == Gained(q) < Gained(p) \/ (Gained(q) = Gained(p) /\ Before(p, q))

LEMMA RichestExists ==
    ASSUME up \in Upstreams, NEW C \in SUBSET Peers, C # {},
           \A p \in C : Gained(p) \in Int
    PROVE  Richest(C) \in C /\ \A q \in C \ {Richest(C)} : Richer(q, Richest(C))
<1> DEFINE Best(T, p) == \A q \in T \ {p} : Richer(q, p)
           Bad == {T \in SUBSET C : T # {} /\ ~\E p \in T : Best(T, p)}
<1>1. ASSUME Bad # {} PROVE FALSE
  <2>1. PICK T \in Bad : \A x \in T : T \ {x} \notin Bad
    <3>1. Bad \in SUBSET (SUBSET C) /\ IsFiniteSet(C)
      BY PeersFinite, FS_Subset
    <3> HIDE DEF Bad
    <3> QED BY <1>1, <3>1, SmallestBad
  <2>2. PICK x \in T : TRUE
    OBVIOUS
  <2>3. T \ {x} # {}
    <3>1. T \ {x} = {} => Best(T, x)
      OBVIOUS
    <3> HIDE DEF Best
    <3> QED BY <2>2, <3>1
  <2>4. PICK m \in T \ {x} : Best(T \ {x}, m)
    <3> HIDE DEF Best
    <3> QED BY <2>1, <2>3
  <2>5. /\ x \in Peers /\ m \in Peers /\ x # m
        /\ Gained(x) \in Int /\ Gained(m) \in Int
    BY <2>2, <2>4
  <2>6. Richer(x, m) \/ Richer(m, x)
    BY <2>5, BeforeTotal DEF Richer
  <2>7. CASE Richer(x, m)
    <3>1. Best(T, m)
      BY <2>4, <2>7
    <3> HIDE DEF Best
    <3> QED BY <2>4, <3>1
  <2>8. CASE Richer(m, x)
    <3>1. ASSUME NEW q \in T \ {x}, q # m PROVE Richer(q, x)
      <4>1. Richer(q, m) /\ q \in Peers /\ Gained(q) \in Int
        BY <2>4, <3>1
      <4>2. Before(x, m) /\ Before(m, q) => Before(x, q)
        BY <2>5, <4>1, BeforeTotal
      <4> QED BY <2>5, <2>8, <4>1, <4>2 DEF Richer
    <3>2. Best(T, x)
      BY <2>8, <3>1
    <3> HIDE DEF Best
    <3> QED BY <2>2, <3>2
  <2> QED BY <2>6, <2>7, <2>8
<1>2. \E p \in C : Best(C, p)
  <2> HIDE DEF Best
  <2> QED BY <1>1
<1>3. Richest(C) = CHOOSE p \in C : Best(C, p)
  BY DEF Richest, Richer
<1> HIDE DEF Best
<1>4. Richest(C) \in C /\ Best(C, Richest(C))
  BY <1>2, <1>3
<1> QED BY <1>4 DEF Best

(* There is a peer with the fewest connections for its weight.              *)
LEMMA LeastExists ==
    ASSUME up \in Upstreams, NEW C \in SUBSET Peers, C # {},
           \A p \in C : peer[p].conns \in Nat
    PROVE  Least(C) # {}
<1> DEFINE Less(p, q) == peer[p].conns * Weight[q] <= peer[q].conns * Weight[p]
           Best(T, p) == \A q \in T : Less(p, q)
           Bad == {T \in SUBSET C : T # {} /\ ~\E p \in T : Best(T, p)}
<1>0. \A p \in C : Weight[p] \in Nat \ {0}
  BY ServerFields DEF Weight
<1>1. ASSUME Bad # {} PROVE FALSE
  <2>1. PICK T \in Bad : \A x \in T : T \ {x} \notin Bad
    <3>1. Bad \in SUBSET (SUBSET C) /\ IsFiniteSet(C)
      BY PeersFinite, FS_Subset
    <3> HIDE DEF Bad
    <3> QED BY <1>1, <3>1, SmallestBad
  <2>2. PICK x \in T : TRUE
    OBVIOUS
  <2>3. Less(x, x)
    BY <1>0, <2>2
  <2>4. T \ {x} # {}
    <3>1. T \ {x} = {} => Best(T, x)
      <4> HIDE DEF Less
      <4> QED BY <2>3
    <3> HIDE DEF Best
    <3> QED BY <2>2, <3>1
  <2>5. PICK m \in T \ {x} : Best(T \ {x}, m)
    <3> HIDE DEF Best
    <3> QED BY <2>1, <2>4
  <2>6. Less(x, m) \/ Less(m, x)
    <3> DEFINE a == peer[x].conns * Weight[m]
               b == peer[m].conns * Weight[x]
    <3>1. a \in Int /\ b \in Int
      BY <1>0, <2>2, <2>5
    <3> HIDE DEF a, b
    <3>2. a <= b \/ b <= a
      BY <3>1
    <3> QED BY <3>2 DEF a, b
  <2>7. CASE Less(m, x)
    <3>1. Best(T, m)
      <4> HIDE DEF Less
      <4> QED BY <2>5, <2>7
    <3> HIDE DEF Best
    <3> QED BY <2>5, <3>1
  <2>8. CASE Less(x, m)
    <3>1. ASSUME NEW q \in T \ {x} PROVE Less(x, q)
      <4>1. Less(m, q)
        BY <2>5, <3>1
      <4> DEFINE a == peer[x].conns
                 b == peer[m].conns
                 c == peer[q].conns
                 u == Weight[x]
                 v == Weight[m]
                 w == Weight[q]
      <4>2. a * v <= b * u /\ b * w <= c * v
        BY <2>8, <4>1
      <4>3. a \in Nat /\ b \in Nat /\ c \in Nat /\ u \in Nat /\ w \in Nat /\ v \in Nat \ {0}
        BY <1>0, <2>2, <2>5, <3>1
      <4> HIDE DEF a, b, c, u, v, w
      <4>4. (a * v) * w <= (b * u) * w
        BY <4>2, <4>3
      <4>5. (b * w) * u <= (c * v) * u
        BY <4>2, <4>3
      <4>6. (a * w) * v <= (c * u) * v
        BY <4>3, <4>4, <4>5
      <4>7. a * w <= c * u
        <5>1. ASSUME c * u < a * w PROVE FALSE
          <6>1. (c * u) * v < (a * w) * v
            BY <4>3, <5>1
          <6>2. (c * u) * v \in Int /\ (a * w) * v \in Int
            BY <4>3
          <6> QED BY <4>6, <6>1, <6>2
        <5>2. a * w \in Int /\ c * u \in Int
          BY <4>3
        <5> QED BY <5>1, <5>2
      <4> QED BY <4>7 DEF a, c, u, w
    <3>2. Best(T, x)
      <4> HIDE DEF Less
      <4> QED BY <2>3, <3>1
    <3> HIDE DEF Best
    <3> QED BY <2>2, <3>2
  <2> QED BY <2>6, <2>7, <2>8
<1>2. \E p \in C : Best(C, p)
  <2> HIDE DEF Best
  <2> QED BY <1>1
<1> QED BY <1>2 DEF Least

-----------------------------------------------------------------------------
(* Whoever holds a peer holds one of the upstream's.                        *)
HoldersHold == \A r \in Requests : req[r].state = "holding" => req[r].current \in Peers

TypeInv == TypeOK /\ HoldersHold

(* The data q with which r is given a peer or refused: its own, or changed  *)
(* to the backup servers when nothing else was left.                        *)
Useful(r, p) == p \notin req[r].tried /\ Available(p)
Follows(r, q) ==
    /\ q \in ReqData /\ q.past = req[r].past
    /\ \/ q.backup = req[r].backup /\ q.tried = req[r].tried
       \/ /\ ~req[r].backup /\ q.backup /\ q.tried = {}
          /\ Group(TRUE) # {} /\ \A p \in Group(FALSE) : ~Useful(r, p)

(* The table in which peer p was chosen for q.                              *)
Table(q, p, t) ==
    \/ t = peer /\ up.method # "round_robin"
    \/ \E T \in SUBSET Candidates(q) :
        /\ T # {} /\ p = Richest(T) /\ t = Turn(T)
        /\ up.method = "round_robin" => T = Candidates(q)

(* The three outcomes of a call of get.                                     *)
GivenOnly(r, p) ==
    /\ req[r].state = "ready" /\ Single
    /\ p \in Peers /\ ~Server(p).down /\ ~Full(p)
    /\ Give(r, req[r], p, peer)
GivenOneOf(r, q, p, t) ==
    /\ req[r].state = "ready" /\ ~Single
    /\ Follows(r, q) /\ p \in Candidates(q) /\ Table(q, p, t)
    /\ Give(r, Tried(q, p), p, Probe(t, p))
RefusedAll(r, q) ==
    /\ req[r].state = "ready" /\ Follows(r, q)
    /\ \A p \in Group(q.backup) : p \in q.tried \/ ~Available(p)
    /\ Busy(r, q)

LEMMA ReqIsData == TypeOK => req \in [Requests -> ReqData]
BY Zenon DEF TypeOK, ReqData

LEMMA DataFollows ==
    ASSUME TypeOK, NEW r \in Requests
    PROVE  /\ Data(r) \in ReqData
           /\ Data(r).past = req[r].past /\ Data(r).backup = req[r].backup
           /\ Data(r).tried = req[r].tried
<1>1. req[r] \in ReqData
  BY ReqIsData
<1>2. 21 \in 0 .. 21
  OBVIOUS
<1>3. /\ Rehash(r) \in ReqData
      /\ Rehash(r).past = req[r].past /\ Rehash(r).backup = req[r].backup
      /\ Rehash(r).tried = req[r].tried
  BY Zenon, <1>1, <1>2 DEF Rehash, ReqData
<1> QED BY <1>1, <1>3 DEF Data

LEMMA CandidatesArePeers ==
    ASSUME NEW q, NEW p \in Candidates(q)
    PROVE  p \in Peers /\ p \in Group(q.backup) /\ p \notin q.tried /\ Available(p)
BY DEF Candidates, Group

LEMMA GainedInt ==
    ASSUME TypeOK, NEW p \in Peers
    PROVE  /\ Gained(p) \in Int /\ peer[p].conns \in Nat
           /\ peer[p].effective_weight \in Nat
BY ServerFields DEF TypeOK, Entry, Gained

LEMMA ChooseGives ==
    ASSUME TypeOK, NEW r \in Requests, NEW q, Candidates(q) # {},
           Choose(r, q, Candidates(q))
    PROVE  \E p \in Candidates(q) : \E t :
             Table(q, p, t) /\ Give(r, Tried(q, p), p, Probe(t, p))
<1> DEFINE C == Candidates(q)
           T == IF up.method = "least_conn" THEN Least(C) ELSE C
           best == Richest(T)
           t == IF up.method = "least_conn" /\ Cardinality(T) = 1 THEN peer ELSE Turn(T)
<1>1. up \in Upstreams /\ C \in SUBSET Peers /\ C # {}
  BY CandidatesArePeers DEF TypeOK
<1>2. T \in SUBSET C /\ T # {}
  <2>1. Least(C) \in SUBSET C
    BY DEF Least
  <2>2. Least(C) # {}
    <3>1. \A p \in C : peer[p].conns \in Nat
      BY <1>1, GainedInt
    <3> HIDE DEF C
    <3> QED BY <1>1, <3>1, LeastExists
  <2> HIDE DEF C
  <2> QED BY <2>1, <2>2
<1>3. best \in T
  <2>1. \A p \in T : Gained(p) \in Int
    BY <1>1, <1>2, GainedInt
  <2> HIDE DEF T
  <2> QED BY <1>1, <1>2, <2>1, RichestExists
<1>4. Give(r, Tried(q, best), best, Probe(t, best))
  BY DEF Choose
<1>5. Table(q, best, t)
  <2>1. CASE up.method = "least_conn" /\ Cardinality(T) = 1
    BY <2>1 DEF Table
  <2>2. CASE ~(up.method = "least_conn" /\ Cardinality(T) = 1)
    <3>1. t = Turn(T) /\ (up.method = "round_robin" => T = C)
      BY <2>2
    <3> HIDE DEF T, t
    <3> QED BY <1>2, <3>1 DEF Table
  <2> QED BY <2>1, <2>2
<1> HIDE DEF best, t
<1> QED BY <1>2, <1>3, <1>4, <1>5

LEMMA GetOutcomes ==
    ASSUME TypeOK, NEW r \in Requests, Get(r)
    PROVE  \/ \E p \in Peers : GivenOnly(r, p)
           \/ \E q, p, t : GivenOneOf(r, q, p, t)
           \/ \E q : RefusedAll(r, q)
<1>1. req[r] \in ReqData /\ Follows(r, req[r])
  BY ReqIsData DEF Follows
<1>2. Follows(r, Data(r))
  BY DataFollows DEF Follows
<1>3. CASE GetSingle(r)
  <2>1. PICK p \in Peers : IF Server(p).down \/ Full(p) THEN Busy(r, req[r])
                                                   ELSE Give(r, req[r], p, peer)
    BY <1>3 DEF GetSingle
  <2>2. req[r].state = "ready" /\ Single
    BY <1>3 DEF GetSingle, Asks
  <2>3. CASE Server(p).down \/ Full(p)
    <3>1. ASSUME NEW x \in Group(req[r].backup) PROVE ~Available(x)
      <4>1. up \in Upstreams
        BY DEF TypeOK
      <4>2. IsFiniteSet(Group(FALSE))
        BY <4>1, PeersFinite, FS_Subset DEF Group
      <4>3. \A a, b \in Group(FALSE) : a = b
        <5>1. PICK G : G = Group(FALSE)
          OBVIOUS
        <5>2. IsFiniteSet(G) /\ Cardinality(G) = 1
          BY <2>2, <4>2, <5>1 DEF Single
        <5>3. \A a, b \in G : a = b
          BY <5>2, FS_Singleton
        <5> QED BY <5>1, <5>3
      <4>4. p \in Group(FALSE)
        <5>1. p \notin Group(TRUE) /\ Server(p).backup \in BOOLEAN
          BY <2>2, <4>1, ServerFields DEF Single
        <5> QED BY Zenon, <5>1 DEF Group
      <4>5. x \in Group(FALSE)
        <5>1. req[r].backup \in BOOLEAN
          BY <1>1 DEF ReqData
        <5>2. Group(TRUE) = {}
          BY <2>2 DEF Single
        <5> QED BY Zenon, <5>1, <5>2
      <4>6. x = p
        BY Zenon, <4>3, <4>4, <4>5
      <4> QED BY <2>3, <4>6 DEF Available
    <3>2. Busy(r, req[r])
      BY <2>1, <2>3
    <3> QED BY <1>1, <2>2, <3>1, <3>2 DEF RefusedAll
  <2>4. CASE ~(Server(p).down \/ Full(p))
    BY <2>1, <2>2, <2>4 DEF GivenOnly
  <2> QED BY <2>3, <2>4
<1>4. CASE GetIpHash(r)
  <2>1. req[r].state = "ready" /\ ~Single /\ up.method = "ip_hash"
    BY <1>4 DEF GetIpHash, ByHash
  <2>2. PICK k \in Hits(r) :
            LET p == HashPeer(r, k)
                q == [req[r] EXCEPT !.hash = @ + k, !.hash_tries = @ + k - 1]
            IN  Give(r, Tried(q, p), p, Probe(peer, p))
    BY <1>4 DEF GetIpHash
  <2> DEFINE p == HashPeer(r, k)
             q == [req[r] EXCEPT !.hash = @ + k, !.hash_tries = @ + k - 1]
  <2>3. p \in Candidates(req[r]) /\ k \in 1 .. 21 /\ k <= 21 - req[r].hash_tries
    BY <2>2 DEF Hits, Hit
  <2>4. /\ req[r].hash \in Nat /\ req[r].hash_tries \in 0 .. 21
    BY <1>1 DEF ReqData
  <2>5. /\ req[r].hash + k \in Nat
        /\ req[r].hash_tries + k - 1 \in 0 .. 21
    BY <2>3, <2>4
  <2>6. /\ q \in ReqData /\ q.past = req[r].past /\ q.backup = req[r].backup
        /\ q.tried = req[r].tried
    BY Zenon, <1>1, <2>5 DEF ReqData
  <2> HIDE DEF p, q
  <2>7. p \in Candidates(q)
    BY <2>3, <2>6 DEF Candidates
  <2>8. Follows(r, q)
    BY <2>6 DEF Follows
  <2>9. Table(q, p, peer)
    BY <2>1 DEF Table
  <2>10. Give(r, Tried(q, p), p, Probe(peer, p))
    BY <2>2 DEF p, q
  <2> QED BY <2>1, <2>7, <2>8, <2>9, <2>10 DEF GivenOneOf
<1>5. CASE GetPeer(r)
  <2>1. /\ req[r].state = "ready" /\ ~Single /\ Candidates(Data(r)) # {}
        /\ Choose(r, Data(r), Candidates(Data(r)))
    BY <1>5 DEF GetPeer, Asks
  <2>2. \E p \in Candidates(Data(r)) : \E t :
           Table(Data(r), p, t) /\ Give(r, Tried(Data(r), p), p, Probe(t, p))
    BY <2>1, ChooseGives
  <2> QED BY <1>2, <2>1, <2>2 DEF GivenOneOf
<1>6. CASE GetBackup(r)
  <2> DEFINE q == ToBackup(Data(r))
  <2>1. /\ req[r].state = "ready" /\ ~Single /\ Candidates(Data(r)) = {}
        /\ ~req[r].backup /\ Group(TRUE) # {}
        /\ IF Candidates(q) = {} THEN Busy(r, q) ELSE Choose(r, q, Candidates(q))
    BY <1>6 DEF GetBackup, Asks, NoneLeft
  <2>2. /\ q \in ReqData /\ q.past = req[r].past /\ q.backup = TRUE /\ q.tried = {}
    <3>1. {} \in SUBSET Peers /\ Data(r) \in ReqData /\ Data(r).past = req[r].past
      BY DataFollows
    <3> QED BY Zenon, <3>1 DEF ToBackup, ReqData
  <2> HIDE DEF q
  <2>3. \A p \in Group(FALSE) : ~Useful(r, p)
    <3>1. Data(r).backup = FALSE /\ Data(r).tried = req[r].tried
      BY <1>1, <2>1, DataFollows DEF ReqData
    <3> QED BY <2>1, <3>1 DEF Candidates, Useful
  <2>4. Follows(r, q)
    BY <2>1, <2>2, <2>3 DEF Follows
  <2>5. CASE Candidates(q) = {}
    BY <2>1, <2>4, <2>5 DEF RefusedAll, Candidates
  <2>6. CASE Candidates(q) # {}
    <3>1. \E p \in Candidates(q) : \E t :
             Table(q, p, t) /\ Give(r, Tried(q, p), p, Probe(t, p))
      BY <2>1, <2>6, ChooseGives
    <3> QED BY <2>1, <2>4, <3>1 DEF GivenOneOf
  <2> QED BY <2>5, <2>6
<1>7. CASE GetBusy(r)
  <2>1. /\ req[r].state = "ready" /\ Candidates(Data(r)) = {} /\ Busy(r, Data(r))
    BY <1>7 DEF GetBusy, Asks
  <2> QED BY <1>2, <2>1 DEF RefusedAll, Candidates
<1> QED BY <1>3, <1>4, <1>5, <1>6, <1>7 DEF Get

LEMMA UpSame ==
    ASSUME UNCHANGED up
    PROVE  /\ Peers' = Peers /\ ReqData' = ReqData
           /\ \A p : Server(p)' = Server(p) /\ Entry(p)' = Entry(p)
           /\ Single' <=> Single
           /\ Group(TRUE)' = Group(TRUE) /\ Group(FALSE)' = Group(FALSE)
           /\ \A q : Group(q.backup)' = Group(q.backup)
BY DEF Peers, ReqData, Server, Entry, Single, Group

(* A turn changes weights only, a probe the time of the check.              *)
SameBut(t, u) ==
    /\ DOMAIN t = Peers
    /\ \A x \in Peers : /\ t[x] \in Entry(x)
                        /\ t[x].conns = u[x].conns /\ t[x].fails = u[x].fails
                        /\ t[x].accessed = u[x].accessed

LEMMA TurnFacts ==
    ASSUME TypeOK, NEW C \in SUBSET Peers
    PROVE  /\ SameBut(Turn(C), peer)
           /\ \A x \in Peers : /\ Turn(C)[x].checked = peer[x].checked
                               /\ Turn(C)[x].effective_weight =
                                      IF x \in C THEN Recovered(x)
                                                 ELSE peer[x].effective_weight
                               /\ Turn(C)[x].current_weight =
                                      IF x \notin C THEN peer[x].current_weight
                                      ELSE Gained(x) - (IF x = Richest(C) THEN Price(C)
                                                                         ELSE 0)
<1> DEFINE paid(x) == Gained(x) - (IF x = Richest(C) THEN Price(C) ELSE 0)
           e(x) == [peer[x] EXCEPT !.current_weight = paid(x),
                                   !.effective_weight = Recovered(x)]
<1>1. Price(C) \in Int
  <2>1. IsFiniteSet(C)
    BY PeersFinite, FS_Subset DEF TypeOK
  <2>2. \A x \in C : [y \in C |-> peer[y].effective_weight][x] \in Int
    BY GainedInt
  <2> QED BY <2>1, <2>2, SumType DEF Price
<1>2. ASSUME NEW x \in Peers
      PROVE  /\ paid(x) \in Int /\ Recovered(x) \in 0 .. Server(x).weight
             /\ peer[x] \in Entry(x)
  <2>1. Gained(x) \in Int /\ peer[x] \in Entry(x) /\ Server(x).weight \in Nat
    BY GainedInt, ServerFields DEF TypeOK
  <2>2. peer[x].effective_weight \in 0 .. Server(x).weight
    BY <2>1 DEF Entry
  <2>3. PICK w \in Nat : w = Server(x).weight
    BY <2>1
  <2>4. Recovered(x) \in 0 .. Server(x).weight
    BY <2>2, <2>3 DEF Recovered
  <2>5. paid(x) \in Int
    BY <1>1, <2>1
  <2> QED BY <2>1, <2>4, <2>5
<1> HIDE DEF paid
<1>3. ASSUME NEW x \in Peers
      PROVE  /\ e(x) \in Entry(x) /\ e(x).conns = peer[x].conns
             /\ e(x).fails = peer[x].fails /\ e(x).accessed = peer[x].accessed
             /\ e(x).checked = peer[x].checked
             /\ e(x).current_weight = paid(x)
             /\ e(x).effective_weight = Recovered(x)
  BY Zenon, <1>2 DEF Entry
<1>4. Turn(C) = [x \in Peers |-> IF x \notin C THEN peer[x] ELSE e(x)]
  BY DEF Turn, paid
<1> HIDE DEF e
<1>5. SameBut(Turn(C), peer)
  BY <1>2, <1>3, <1>4 DEF SameBut
<1>6. ASSUME NEW x \in Peers
      PROVE  /\ Turn(C)[x].checked = peer[x].checked
             /\ Turn(C)[x].effective_weight =
                   IF x \in C THEN Recovered(x) ELSE peer[x].effective_weight
             /\ Turn(C)[x].current_weight =
                   IF x \notin C THEN peer[x].current_weight ELSE paid(x)
  BY <1>3, <1>4
<1> QED BY <1>5, <1>6 DEF paid

LEMMA TableFacts ==
    ASSUME TypeOK, NEW q, NEW p, NEW t, Table(q, p, t)
    PROVE  SameBut(t, peer) /\ \A x \in Peers : t[x].checked = peer[x].checked
<1>1. CASE t = peer
  BY <1>1 DEF SameBut, TypeOK
<1>2. CASE \E T \in SUBSET Candidates(q) : t = Turn(T)
  <2>1. PICK T \in SUBSET Candidates(q) : t = Turn(T)
    BY <1>2
  <2>2. T \in SUBSET Peers
    BY CandidatesArePeers
  <2> QED BY <2>1, <2>2, TurnFacts
<1> QED BY <1>1, <1>2 DEF Table

LEMMA ProbeFacts ==
    ASSUME TypeOK, NEW t, SameBut(t, peer), NEW p \in Peers
    PROVE  /\ SameBut(Probe(t, p), peer)
           /\ \A x \in Peers \ {p} : Probe(t, p)[x] = t[x]
           /\ Probe(t, p)[p].current_weight = t[p].current_weight
           /\ Probe(t, p)[p].effective_weight = t[p].effective_weight
           /\ Probe(t, p)[p].checked = IF now - t[p].checked > Server(p).fail_timeout
                                       THEN now ELSE t[p].checked
<1>1. CASE now - t[p].checked > Server(p).fail_timeout
  <2> DEFINE e == [t[p] EXCEPT !.checked = now]
  <2>1. t[p] \in Entry(p) /\ now \in Nat
    BY DEF SameBut, TypeOK
  <2>2. /\ e \in Entry(p) /\ e.conns = t[p].conns /\ e.fails = t[p].fails
        /\ e.accessed = t[p].accessed /\ e.checked = now
        /\ e.current_weight = t[p].current_weight
        /\ e.effective_weight = t[p].effective_weight
    BY Zenon, <2>1 DEF Entry
  <2>3. Probe(t, p) = [t EXCEPT ![p] = e]
    BY <1>1 DEF Probe
  <2> HIDE DEF e
  <2> QED BY <1>1, <2>2, <2>3 DEF SameBut
<1>2. CASE ~(now - t[p].checked > Server(p).fail_timeout)
  BY <1>2 DEF Probe
<1> QED BY <1>1, <1>2

(* What Give changes.                                                       *)
LEMMA GiveFacts ==
    ASSUME TypeOK, NEW r \in Requests, NEW q \in ReqData, NEW p \in Peers, NEW t,
           SameBut(t, peer), Give(r, q, p, t)
    PROVE  /\ req'[r] \in ReqData /\ req'[r].state = "holding" /\ req'[r].current = p
           /\ req'[r].past = q.past \cup {p} /\ req'[r].since = now
           /\ req'[r].backup = q.backup /\ req'[r].tried = q.tried
           /\ req' \in [Requests -> ReqData]
           /\ \A s \in Requests \ {r} : req'[s] = req[s]
           /\ DOMAIN peer' = Peers
           /\ \A x \in Peers \ {p} : peer'[x] = t[x]
           /\ peer'[p] \in Entry(p)
           /\ peer'[p].conns = peer[p].conns + 1 /\ peer'[p].fails = peer[p].fails
           /\ peer'[p].accessed = peer[p].accessed /\ peer'[p].checked = t[p].checked
           /\ peer'[p].current_weight = t[p].current_weight
           /\ peer'[p].effective_weight = t[p].effective_weight
           /\ served' \in [Peers -> [count : Nat, last : Nat]]
           /\ \A x \in Peers \ {p} : served'[x] = served[x]
           /\ served'[p] = [count |-> served[p].count + 1, last |-> now]
           /\ UNCHANGED <<up, now, failures>>
<1>1. req \in [Requests -> ReqData] /\ now \in Nat
  BY ReqIsData DEF TypeOK
<1> DEFINE d == [q EXCEPT !.state = "holding", !.current = p, !.past = @ \cup {p},
                          !.since = now]
<1>2. q.past \cup {p} \in SUBSET Peers /\ p \in Peers \cup {NoPeer}
  BY DEF ReqData
<1>3. /\ d \in ReqData /\ d.state = "holding" /\ d.current = p
      /\ d.past = q.past \cup {p} /\ d.since = now
      /\ d.backup = q.backup /\ d.tried = q.tried
  BY Zenon, <1>1, <1>2 DEF ReqData
<1>4. req' = [req EXCEPT ![r] = d]
  BY DEF Give
<1> HIDE DEF d
<1>5. /\ req'[r] = d /\ \A s \in Requests \ {r} : req'[s] = req[s]
      /\ req' \in [Requests -> ReqData]
  BY <1>1, <1>3, <1>4
<1>6. t[p] \in Entry(p) /\ DOMAIN t = Peers /\ t[p].conns = peer[p].conns
  BY DEF SameBut
<1>7. PICK n \in Nat : n = t[p].conns
  BY <1>6 DEF Entry
<1> DEFINE e == [t[p] EXCEPT !.conns = n + 1]
<1>8. peer' = [t EXCEPT ![p] = e]
  BY <1>7 DEF Give
<1>9. n + 1 \in Nat
  OBVIOUS
<1>10. /\ e \in Entry(p) /\ e.conns = n + 1 /\ e.fails = t[p].fails
       /\ e.accessed = t[p].accessed /\ e.checked = t[p].checked
       /\ e.current_weight = t[p].current_weight
       /\ e.effective_weight = t[p].effective_weight
  BY Zenon, <1>6, <1>9 DEF Entry
<1> HIDE DEF e
<1>11. DOMAIN peer' = Peers /\ peer'[p] = e /\ \A x \in Peers \ {p} : peer'[x] = t[x]
  BY <1>6, <1>8
<1>12. /\ peer'[p] \in Entry(p) /\ peer'[p].conns = peer[p].conns + 1
       /\ peer'[p].fails = peer[p].fails /\ peer'[p].accessed = peer[p].accessed
       /\ peer'[p].checked = t[p].checked
       /\ peer'[p].current_weight = t[p].current_weight
       /\ peer'[p].effective_weight = t[p].effective_weight
  BY <1>6, <1>7, <1>10, <1>11 DEF SameBut
<1>13. /\ served' \in [Peers -> [count : Nat, last : Nat]]
       /\ \A x \in Peers \ {p} : served'[x] = served[x]
       /\ served'[p] = [count |-> served[p].count + 1, last |-> now]
  <2>1. served' = [served EXCEPT ![p] = [count |-> served[p].count + 1, last |-> now]]
    BY DEF Give
  <2>2. served \in [Peers -> [count : Nat, last : Nat]]
    BY DEF TypeOK
  <2>3. [count |-> served[p].count + 1, last |-> now] \in [count : Nat, last : Nat]
    BY <1>1, <2>2
  <2> QED BY <2>1, <2>2, <2>3
<1>14. UNCHANGED <<up, now, failures>>
  BY DEF Give
<1> QED BY <1>3, <1>5, <1>11, <1>12, <1>13, <1>14

-----------------------------------------------------------------------------
(* What both ways to give a peer have in common.                            *)
Gives(r, p) ==
    /\ req[r].state = "ready" /\ p \in Peers /\ ~Full(p) /\ ~Server(p).down
    /\ req' \in [Requests -> ReqData]
    /\ \A s \in Requests \ {r} : req'[s] = req[s]
    /\ req'[r].state = "holding" /\ req'[r].current = p
    /\ req'[r].past = req[r].past \cup {p} /\ req'[r].since = now
    /\ DOMAIN peer' = Peers
    /\ \A x \in Peers :
        /\ peer'[x] \in Entry(x)
        /\ peer'[x].conns = IF x = p THEN peer[x].conns + 1 ELSE peer[x].conns
        /\ peer'[x].fails = peer[x].fails /\ peer'[x].accessed = peer[x].accessed
    /\ served' \in [Peers -> [count : Nat, last : Nat]]
    /\ \A x \in Peers \ {p} : served'[x] = served[x]
    /\ served'[p] = [count |-> served[p].count + 1, last |-> now]
    /\ UNCHANGED <<up, now, failures>>

LEMMA GivenOnlyGives ==
    ASSUME TypeOK, NEW r \in Requests, NEW p \in Peers, GivenOnly(r, p)
    PROVE  /\ Gives(r, p)
           /\ \A x \in Peers : /\ peer'[x].checked = peer[x].checked
                               /\ peer'[x].current_weight = peer[x].current_weight
                               /\ peer'[x].effective_weight = peer[x].effective_weight
           /\ req'[r].backup = req[r].backup /\ req'[r].tried = req[r].tried
<1>1. SameBut(peer, peer) /\ req[r] \in ReqData
  BY ReqIsData DEF SameBut, TypeOK
<1>2. Give(r, req[r], p, peer)
  BY DEF GivenOnly
<1>3. \A x \in Peers : peer[x] \in Entry(x)
  BY DEF TypeOK
<1> QED BY <1>1, <1>2, <1>3, GiveFacts DEF Gives, GivenOnly

LEMMA GivenOneOfGives ==
    ASSUME TypeOK, NEW r \in Requests, NEW q, NEW p, NEW t, GivenOneOf(r, q, p, t)
    PROVE  /\ Gives(r, p)
           /\ SameBut(t, peer)
           /\ \A x \in Peers :
                /\ peer'[x].checked =
                      IF x = p /\ now - peer[x].checked > Server(x).fail_timeout
                      THEN now ELSE peer[x].checked
                /\ peer'[x].current_weight = t[x].current_weight
                /\ peer'[x].effective_weight = t[x].effective_weight
           /\ req'[r].backup = q.backup /\ req'[r].tried = q.tried \cup {p}
<1>1. /\ req[r].state = "ready" /\ q \in ReqData /\ q.past = req[r].past
      /\ p \in Candidates(q) /\ Table(q, p, t)
      /\ Give(r, Tried(q, p), p, Probe(t, p))
  BY DEF GivenOneOf, Follows
<1>2. p \in Peers /\ ~Full(p) /\ ~Server(p).down
  BY <1>1, CandidatesArePeers DEF Available
<1>3. SameBut(t, peer) /\ \A x \in Peers : t[x].checked = peer[x].checked
  BY <1>1, TableFacts
<1> DEFINE d == Tried(q, p)
           u == Probe(t, p)
<1>4. /\ d \in ReqData /\ d.past = req[r].past /\ d.backup = q.backup
      /\ d.tried = q.tried \cup {p}
  <2>1. q.tried \cup {p} \in SUBSET Peers
    BY <1>1, <1>2 DEF ReqData
  <2> QED BY Zenon, <1>1, <2>1 DEF Tried, ReqData
<1>5. /\ SameBut(u, peer)
      /\ \A x \in Peers \ {p} : u[x] = t[x]
      /\ u[p].current_weight = t[p].current_weight
      /\ u[p].effective_weight = t[p].effective_weight
      /\ u[p].checked = IF now - t[p].checked > Server(p).fail_timeout
                        THEN now ELSE t[p].checked
  BY <1>2, <1>3, ProbeFacts
<1> HIDE DEF d, u
<1>6. Give(r, d, p, u)
  BY <1>1 DEF d, u
<1>7. /\ req'[r].state = "holding" /\ req'[r].current = p
      /\ req'[r].past = d.past \cup {p} /\ req'[r].since = now
      /\ req'[r].backup = d.backup /\ req'[r].tried = d.tried
      /\ req' \in [Requests -> ReqData]
      /\ \A s \in Requests \ {r} : req'[s] = req[s]
      /\ DOMAIN peer' = Peers
      /\ \A x \in Peers \ {p} : peer'[x] = u[x]
      /\ peer'[p] \in Entry(p)
      /\ peer'[p].conns = peer[p].conns + 1 /\ peer'[p].fails = peer[p].fails
      /\ peer'[p].accessed = peer[p].accessed /\ peer'[p].checked = u[p].checked
      /\ peer'[p].current_weight = u[p].current_weight
      /\ peer'[p].effective_weight = u[p].effective_weight
      /\ served' \in [Peers -> [count : Nat, last : Nat]]
      /\ \A x \in Peers \ {p} : served'[x] = served[x]
      /\ served'[p] = [count |-> served[p].count + 1, last |-> now]
      /\ UNCHANGED <<up, now, failures>>
  BY <1>2, <1>4, <1>5, <1>6, GiveFacts
<1>8. ASSUME NEW x \in Peers
      PROVE  /\ peer'[x] \in Entry(x)
             /\ peer'[x].conns = IF x = p THEN peer[x].conns + 1 ELSE peer[x].conns
             /\ peer'[x].fails = peer[x].fails /\ peer'[x].accessed = peer[x].accessed
             /\ peer'[x].checked =
                   IF x = p /\ now - peer[x].checked > Server(x).fail_timeout
                   THEN now ELSE peer[x].checked
             /\ peer'[x].current_weight = t[x].current_weight
             /\ peer'[x].effective_weight = t[x].effective_weight
  <2>1. CASE x = p
    BY <1>2, <1>3, <1>5, <1>7, <2>1
  <2>2. CASE x # p
    <3>1. peer'[x] = t[x]
      BY <1>5, <1>7, <2>2
    <3> QED BY <1>3, <2>2, <3>1 DEF SameBut
  <2> QED BY <2>1, <2>2
<1>9. Gives(r, p)
  BY <1>1, <1>2, <1>4, <1>7, <1>8 DEF Gives
<1> QED BY <1>3, <1>4, <1>7, <1>8, <1>9

(* NGX_BUSY, and the end of a request that got it.                          *)
LEMMA RefusedFacts ==
    ASSUME TypeOK, NEW r \in Requests, NEW q, RefusedAll(r, q)
    PROVE  /\ req' \in [Requests -> ReqData]
           /\ \A s \in Requests \ {r} : req'[s] = req[s]
           /\ req'[r].state = "busy" /\ req'[r].past = req[r].past
           /\ req'[r].backup = q.backup /\ req'[r].tried = q.tried
           /\ UNCHANGED <<up, peer, now, served, failures>>
<1>1. q \in ReqData /\ q.past = req[r].past
  BY DEF RefusedAll, Follows
<1> DEFINE d == [q EXCEPT !.state = "busy"]
<1>2. d \in ReqData /\ d.state = "busy" /\ d.past = q.past /\ d.backup = q.backup
      /\ d.tried = q.tried
  BY Zenon, <1>1 DEF ReqData
<1>3. req' = [req EXCEPT ![r] = d] /\ UNCHANGED <<up, peer, now, served, failures>>
  BY DEF RefusedAll, Busy
<1> HIDE DEF d
<1> QED BY <1>1, <1>2, <1>3, ReqIsData

LEMMA NewFacts ==
    /\ NewRequest \in ReqData /\ NewRequest.state = "new" /\ NewRequest.past = {}
    /\ NewRequest.tried = {} /\ NewRequest.backup = FALSE
BY DEF NewRequest, ReqData

LEMMA InitPeerFacts ==
    ASSUME TypeOK, NEW r \in Requests, InitPeer(r)
    PROVE  /\ req' \in [Requests -> ReqData]
           /\ \A s \in Requests \ {r} : req'[s] = req[s]
           /\ req[r].state = "new" /\ req'[r].state = "ready" /\ req'[r].past = {}
           /\ req'[r].tried = {} /\ req'[r].backup = FALSE
           /\ UNCHANGED <<up, peer, now, served, failures>>
<1>1. PICK a \in Addresses :
          req' = [req EXCEPT ![r] = [NewRequest EXCEPT !.state = "ready", !.addr = a,
                                                       !.tries = Cardinality(Peers)]]
  BY DEF InitPeer
<1> DEFINE d == [NewRequest EXCEPT !.state = "ready", !.addr = a,
                                   !.tries = Cardinality(Peers)]
<1>2. Cardinality(Peers) \in Nat
  BY PeersFinite, FS_CardinalityType DEF TypeOK
<1>3. d \in ReqData /\ d.state = "ready" /\ d.past = {} /\ d.tried = {} /\ d.backup = FALSE
  BY Zenon, <1>2, NewFacts DEF ReqData
<1>4. req' = [req EXCEPT ![r] = d] /\ req[r].state = "new"
      /\ UNCHANGED <<up, peer, now, served, failures>>
  BY <1>1 DEF InitPeer
<1> HIDE DEF d
<1> QED BY <1>3, <1>4, ReqIsData

LEMMA FinalizeFacts ==
    ASSUME TypeOK, NEW r \in Requests, Finalize(r)
    PROVE  /\ req' \in [Requests -> ReqData] /\ req[r].state = "busy"
           /\ \A s \in Requests \ {r} : req'[s] = req[s]
           /\ req'[r] = NewRequest
           /\ UNCHANGED <<up, peer, now, served, failures>>
BY ReqIsData, NewFacts DEF Finalize

-----------------------------------------------------------------------------
(* What free does to the entry of the peer.                                 *)
Judged(r, failed) ==
    LET p == req[r].current IN
    IF Single THEN peer[p]
    ELSE IF failed THEN Punished(peer[p], Server(p)) ELSE Passed(peer[p])

LEMMA PunishedFacts ==
    ASSUME TypeOK, NEW p \in Peers
    PROVE  LET e == Punished(peer[p], Server(p)) IN
           /\ e \in Entry(p) /\ e.conns = peer[p].conns
           /\ e.current_weight = peer[p].current_weight
           /\ e.checked = now /\ e.accessed = now /\ e.fails = peer[p].fails + 1
<1>1. /\ peer[p] \in Entry(p) /\ now \in Nat
      /\ Server(p).weight \in Nat /\ Server(p).max_fails \in Nat
  BY ServerFields DEF TypeOK
<1>2. PICK w \in Nat : w = Server(p).weight
  BY <1>1
<1>3. PICK n \in Nat : n = peer[p].fails
  BY <1>1 DEF Entry
<1>4. PICK k \in 0 .. w : k = peer[p].effective_weight
  BY <1>1, <1>2 DEF Entry
<1> DEFINE rest == IF Server(p).max_fails = 0 THEN peer[p].effective_weight
                   ELSE peer[p].effective_weight
                            - (Server(p).weight \div Server(p).max_fails)
           left == IF rest < 0 THEN 0 ELSE rest
           e == [peer[p] EXCEPT !.fails = @ + 1, !.accessed = now, !.checked = now,
                                !.effective_weight = left]
<1>5. left \in 0 .. Server(p).weight
  <2>1. CASE Server(p).max_fails = 0
    BY <1>2, <1>4, <2>1
  <2>2. CASE Server(p).max_fails # 0
    <3>1. PICK m \in Nat \ {0} : m = Server(p).max_fails
      BY <1>1, <2>2
    <3>2. PICK c \in Nat : c = w \div m
      OBVIOUS
    <3>3. rest = k - c
      BY <1>2, <1>4, <2>2, <3>1, <3>2
    <3> HIDE DEF rest
    <3> QED BY <1>2, <3>3
  <2> QED BY <2>1, <2>2
<1>6. n + 1 \in Nat
  OBVIOUS
<1> HIDE DEF left, rest
<1>7. e = [peer[p] EXCEPT !.fails = n + 1, !.accessed = now, !.checked = now,
                          !.effective_weight = left]
  BY Zenon, <1>3
<1> HIDE DEF e
<1>8. /\ e \in Entry(p) /\ e.conns = peer[p].conns
      /\ e.current_weight = peer[p].current_weight
      /\ e.checked = now /\ e.accessed = now /\ e.fails = n + 1
  BY Zenon, <1>1, <1>5, <1>6, <1>7 DEF Entry
<1>9. Punished(peer[p], Server(p)) = e
  BY Zenon DEF Punished, e, left, rest
<1> QED BY <1>3, <1>8, <1>9

LEMMA PassedFacts ==
    ASSUME TypeOK, NEW p \in Peers
    PROVE  LET e == Passed(peer[p]) IN
           /\ e \in Entry(p) /\ e.conns = peer[p].conns
           /\ e.current_weight = peer[p].current_weight
           /\ e.effective_weight = peer[p].effective_weight
           /\ e.checked = peer[p].checked /\ e.accessed = peer[p].accessed
           /\ e.fails \in {0, peer[p].fails}
<1>1. peer[p] \in Entry(p) /\ 0 \in Nat
  BY DEF TypeOK
<1> QED BY <1>1 DEF Passed, Entry

LEMMA JudgedFacts ==
    ASSUME TypeOK, NEW r \in Requests, req[r].current \in Peers, NEW failed \in BOOLEAN
    PROVE  LET p == req[r].current
               e == Judged(r, failed) IN
           /\ e \in Entry(p) /\ e.conns = peer[p].conns
           /\ e.current_weight = peer[p].current_weight
           /\ ~failed => e.effective_weight = peer[p].effective_weight
           /\ \/ e.checked = now /\ e.accessed = now /\ e.fails = peer[p].fails + 1
                 /\ failed /\ ~Single
              \/ e.checked = peer[p].checked /\ e.accessed = peer[p].accessed
                 /\ e.fails \in {0, peer[p].fails} /\ (Single \/ ~failed)
<1> DEFINE p == req[r].current
<1>1. CASE Single
  <2>1. peer[p] \in Entry(p) /\ Judged(r, failed) = peer[p]
    BY <1>1 DEF Judged, TypeOK
  <2> QED BY <1>1, <2>1
<1>2. CASE ~Single /\ failed
  <2>1. Judged(r, failed) = Punished(peer[p], Server(p))
    BY <1>2 DEF Judged
  <2> QED BY <1>2, <2>1, PunishedFacts
<1>3. CASE ~Single /\ ~failed
  <2>1. Judged(r, failed) = Passed(peer[p])
    BY <1>3 DEF Judged
  <2> QED BY <1>3, <2>1, PassedFacts
<1> QED BY <1>1, <1>2, <1>3

LEMMA FreeFacts ==
    ASSUME TypeInv, NEW r \in Requests, NEW failed \in BOOLEAN, Free(r, failed),
           peer[req[r].current].conns # 0
    PROVE  LET p == req[r].current
               e == Judged(r, failed) IN
           /\ req[r].state = "holding" /\ p \in Peers
           /\ req' \in [Requests -> ReqData]
           /\ \A s \in Requests \ {r} : req'[s] = req[s]
           /\ \/ /\ failed /\ ~Single /\ req'[r].state = "ready"
                 /\ req'[r].past = req[r].past /\ req'[r].tried = req[r].tried
                 /\ req'[r].backup = req[r].backup
              \/ req'[r] = NewRequest
           /\ DOMAIN peer' = Peers
           /\ \A x \in Peers \ {p} : peer'[x] = peer[x]
           /\ peer'[p] \in Entry(p) /\ peer'[p].conns = peer[p].conns - 1
           /\ peer'[p].current_weight = e.current_weight
           /\ peer'[p].effective_weight = e.effective_weight
           /\ peer'[p].checked = e.checked /\ peer'[p].accessed = e.accessed
           /\ peer'[p].fails = e.fails
           /\ failures' \in 0 .. MaxFailures
           /\ failures' = IF failed THEN failures + 1 ELSE failures
           /\ UNCHANGED <<up, now, served>>
<1> DEFINE p == req[r].current
           e == Judged(r, failed)
           g == [e EXCEPT !.conns = @ - 1]
<1>1. req[r].state = "holding" /\ p \in Peers
  BY DEF Free, TypeInv, HoldersHold
<1>2. e \in Entry(p) /\ e.conns = peer[p].conns
  BY <1>1, JudgedFacts DEF TypeInv
<1>3. peer' = [peer EXCEPT ![p] = g]
  BY DEF Free, Judged, Released
<1>4. /\ g \in Entry(p) /\ g.conns = peer[p].conns - 1
      /\ g.current_weight = e.current_weight
      /\ g.effective_weight = e.effective_weight
      /\ g.checked = e.checked /\ g.accessed = e.accessed /\ g.fails = e.fails
  <2>1. PICK n \in Nat \ {0} : n = e.conns
    BY <1>2 DEF Entry
  <2>2. g = [e EXCEPT !.conns = n - 1] /\ n - 1 \in Nat
    BY <2>1
  <2> HIDE DEF g, e
  <2>3. /\ g \in Entry(p) /\ g.conns = n - 1
        /\ g.current_weight = e.current_weight
        /\ g.effective_weight = e.effective_weight
        /\ g.checked = e.checked /\ g.accessed = e.accessed /\ g.fails = e.fails
    BY Zenon, <1>2, <2>2 DEF Entry
  <2> QED BY <1>2, <2>1, <2>3
<1> HIDE DEF g, e
<1>5. /\ DOMAIN peer' = Peers /\ peer'[p] = g
      /\ \A x \in Peers \ {p} : peer'[x] = peer[x]
  BY <1>1, <1>3 DEF TypeInv, TypeOK
<1> DEFINE left == IF Single THEN 0
                   ELSE IF req[r].tries > 0 THEN req[r].tries - 1 ELSE 0
<1>6. \/ /\ failed /\ left > 0
         /\ req' = [req EXCEPT ![r].state = "ready", ![r].tries = left]
      \/ req' = [req EXCEPT ![r] = NewRequest]
  BY DEF Free
<1>7. req \in [Requests -> ReqData]
  BY ReqIsData DEF TypeInv
<1>8. /\ req' \in [Requests -> ReqData]
      /\ \A s \in Requests \ {r} : req'[s] = req[s]
      /\ \/ /\ failed /\ ~Single /\ req'[r].state = "ready"
            /\ req'[r].past = req[r].past /\ req'[r].tried = req[r].tried
            /\ req'[r].backup = req[r].backup
         \/ req'[r] = NewRequest
  <2>1. CASE req' = [req EXCEPT ![r] = NewRequest]
    BY <1>7, <2>1, NewFacts
  <2>2. CASE /\ failed /\ left > 0
             /\ req' = [req EXCEPT ![r].state = "ready", ![r].tries = left]
    <3>1. ~Single /\ left \in Nat
      <4>1. req[r].tries \in Nat
        BY <1>7 DEF ReqData
      <4> QED BY <2>2, <4>1
    <3> DEFINE d == [req[r] EXCEPT !.state = "ready", !.tries = left]
    <3> HIDE DEF left
    <3>2. /\ d \in ReqData /\ d.state = "ready" /\ d.past = req[r].past
          /\ d.tried = req[r].tried /\ d.backup = req[r].backup
      BY Zenon, <1>7, <3>1 DEF ReqData
    <3>3. req' = [req EXCEPT ![r] = d]
      BY <1>7, <2>2
    <3> HIDE DEF d
    <3> QED BY <1>7, <2>2, <3>1, <3>2, <3>3
  <2> QED BY <1>6, <2>1, <2>2
<1>9. /\ failures' \in 0 .. MaxFailures
      /\ failures' = IF failed THEN failures + 1 ELSE failures
      /\ UNCHANGED <<up, now, served>>
  <2>1. failures \in 0 .. MaxFailures /\ MaxFailures \in Nat
    BY UpstreamAssumption DEF TypeInv, TypeOK
  <2>2. /\ IF failed THEN failures < MaxFailures /\ failures' = failures + 1
                     ELSE UNCHANGED failures
        /\ UNCHANGED <<up, now, served>>
    BY DEF Free
  <2> QED BY <2>1, <2>2
<1> QED BY <1>1, <1>2, <1>4, <1>5, <1>8, <1>9 DEF e

-----------------------------------------------------------------------------
RequestStep(r) ==
    \/ InitPeer(r)
    \/ \E p \in Peers : GivenOnly(r, p)
    \/ \E q, p, t : GivenOneOf(r, q, p, t)
    \/ \E q : RefusedAll(r, q)
    \/ \E failed \in BOOLEAN : Free(r, failed)
    \/ Finalize(r)

LEMMA StepCases ==
    ASSUME TypeOK, [Next]_vars
    PROVE  (\E r \in Requests : RequestStep(r)) \/ Tick \/ UNCHANGED vars
<1>1. CASE \E r \in Requests :
              InitPeer(r) \/ Get(r) \/ Free(r, TRUE) \/ Free(r, FALSE) \/ Finalize(r)
  <2>1. PICK r \in Requests :
              InitPeer(r) \/ Get(r) \/ Free(r, TRUE) \/ Free(r, FALSE) \/ Finalize(r)
    BY <1>1
  <2>2. CASE Get(r)
    BY <2>2, GetOutcomes DEF RequestStep
  <2>3. CASE Free(r, TRUE) \/ Free(r, FALSE)
    <3>1. \E failed \in BOOLEAN : Free(r, failed)
      BY Zenon, <2>3
    <3> QED BY <3>1 DEF RequestStep
  <2> QED BY <2>1, <2>2, <2>3 DEF RequestStep
<1> QED BY <1>1 DEF Next

LEMMA TypeFrom ==
    ASSUME TypeOK, UNCHANGED up, DOMAIN peer' = Peers, \A x \in Peers : peer'[x] \in Entry(x),
           req' \in [Requests -> ReqData], now' \in Nat,
           served' \in [Peers -> [count : Nat, last : Nat]], failures' \in 0 .. MaxFailures
    PROVE  TypeOK'
<1>1. /\ Peers' = Peers /\ ReqData' = ReqData /\ \A p : Entry(p)' = Entry(p)
  BY UpSame
<1>2. DOMAIN peer' = Peers' /\ \A x \in Peers' : peer'[x] \in Entry(x)'
  BY <1>1
<1>3. req' \in [Requests -> ReqData'] /\ served' \in [Peers' -> [count : Nat, last : Nat]]
  BY <1>1
<1>4. up' \in Upstreams
  BY DEF TypeOK
<1> QED BY Zenon, <1>2, <1>3, <1>4 DEF TypeOK, ReqData

LEMMA HoldersFinite ==
    ASSUME NEW p
    PROVE  IsFiniteSet(Holders(p)) /\ Cardinality(Holders(p)) \in Nat
BY UpstreamAssumption, FS_Subset, FS_CardinalityType DEF Holders

(* A peer that is held has a connection to give back.                       *)
LEMMA HeldHasConns ==
    ASSUME TypeInv, ConnsAccount, NEW r \in Requests, req[r].state = "holding"
    PROVE  req[r].current \in Peers /\ peer[req[r].current].conns # 0
<1>1. req[r].current \in Peers
  BY DEF TypeInv, HoldersHold
<1>2. r \in Holders(req[r].current)
  BY DEF Holders
<1>3. Cardinality(Holders(req[r].current)) # 0
  BY <1>2, HoldersFinite, FS_EmptySet
<1> QED BY <1>1, <1>3 DEF ConnsAccount

LEMMA FreeHasConns ==
    ASSUME TypeInv, ConnsAccount, NEW r \in Requests, NEW failed, Free(r, failed)
    PROVE  peer[req[r].current].conns # 0
BY HeldHasConns DEF Free

LEMMA TypeStep ==
    ASSUME TypeInv, ConnsAccount, [Next]_vars
    PROVE  TypeInv'
<1>1. /\ TypeOK /\ req \in [Requests -> ReqData] /\ now \in Nat
      /\ served \in [Peers -> [count : Nat, last : Nat]] /\ failures \in 0 .. MaxFailures
      /\ DOMAIN peer = Peers /\ \A x \in Peers : peer[x] \in Entry(x)
  BY ReqIsData DEF TypeInv, TypeOK
<1>2. HoldersHold
  BY DEF TypeInv
<1>3. CASE UNCHANGED vars
  BY <1>1, <1>2, <1>3, TypeFrom, UpSame DEF vars, TypeInv, HoldersHold
<1>4. CASE Tick
  <2>1. now' \in Nat /\ UNCHANGED <<up, peer, req, served, failures>>
    BY <1>1, <1>4 DEF Tick
  <2> QED BY <1>1, <1>2, <2>1, TypeFrom, UpSame DEF TypeInv, HoldersHold
<1>5. CASE \E r \in Requests : RequestStep(r)
  <2>1. PICK r \in Requests : RequestStep(r)
    BY <1>5
  <2>2. CASE InitPeer(r)
    <3>1. UNCHANGED <<up, peer, now, served, failures>> /\ req' \in [Requests -> ReqData]
          /\ req'[r].state = "ready" /\ \A s \in Requests \ {r} : req'[s] = req[s]
      BY <1>1, <2>2, InitPeerFacts
    <3>2. TypeOK' /\ Peers' = Peers
      BY <1>1, <3>1, TypeFrom, UpSame
    <3> QED BY <1>2, <3>1, <3>2 DEF TypeInv, HoldersHold
  <2>3. ASSUME NEW p, Gives(r, p) PROVE TypeInv'
    <3>1. TypeOK' /\ Peers' = Peers
      BY <1>1, <2>3, TypeFrom, UpSame DEF Gives
    <3> QED BY <1>2, <2>3, <3>1 DEF TypeInv, HoldersHold, Gives
  <2>4. CASE \E p \in Peers : GivenOnly(r, p)
    BY <1>1, <2>3, <2>4, GivenOnlyGives
  <2>5. CASE \E q, p, t : GivenOneOf(r, q, p, t)
    BY <1>1, <2>3, <2>5, GivenOneOfGives
  <2>6. CASE \E q : RefusedAll(r, q)
    <3>1. UNCHANGED <<up, peer, now, served, failures>> /\ req' \in [Requests -> ReqData]
          /\ req'[r].state = "busy" /\ \A s \in Requests \ {r} : req'[s] = req[s]
      BY <1>1, <2>6, RefusedFacts
    <3>2. TypeOK' /\ Peers' = Peers
      BY <1>1, <3>1, TypeFrom, UpSame
    <3> QED BY <1>2, <3>1, <3>2 DEF TypeInv, HoldersHold
  <2>7. CASE \E failed \in BOOLEAN : Free(r, failed)
    <3>1. PICK failed \in BOOLEAN : Free(r, failed)
      BY <2>7
    <3>2. /\ req' \in [Requests -> ReqData] /\ req[r].current \in Peers
          /\ \A s \in Requests \ {r} : req'[s] = req[s]
          /\ req'[r].state # "holding"
          /\ DOMAIN peer' = Peers
          /\ \A x \in Peers \ {req[r].current} : peer'[x] = peer[x]
          /\ peer'[req[r].current] \in Entry(req[r].current)
          /\ failures' \in 0 .. MaxFailures
          /\ UNCHANGED <<up, now, served>>
      BY <3>1, FreeHasConns, FreeFacts, NewFacts
    <3>3. \A x \in Peers : peer'[x] \in Entry(x)
      BY <1>1, <3>2
    <3>4. TypeOK' /\ Peers' = Peers
      BY <1>1, <3>2, <3>3, TypeFrom, UpSame
    <3> QED BY <1>2, <3>2, <3>4 DEF TypeInv, HoldersHold
  <2>8. CASE Finalize(r)
    <3>1. UNCHANGED <<up, peer, now, served, failures>> /\ req' \in [Requests -> ReqData]
          /\ req'[r].state = "new" /\ \A s \in Requests \ {r} : req'[s] = req[s]
      BY <1>1, <2>8, FinalizeFacts, NewFacts
    <3>2. TypeOK' /\ Peers' = Peers
      BY <1>1, <3>1, TypeFrom, UpSame
    <3> QED BY <1>2, <3>1, <3>2 DEF TypeInv, HoldersHold
  <2> QED BY <2>1, <2>2, <2>4, <2>5, <2>6, <2>7, <2>8 DEF RequestStep
<1> QED BY <1>1, <1>3, <1>4, <1>5, StepCases

-----------------------------------------------------------------------------
(* Connections.                                                             *)
LEMMA ConnsSame ==
    ASSUME TypeInv, ConnsAccount, UNCHANGED <<up, peer>>,
           \A r \in Requests : \/ req'[r] = req[r]
                               \/ req[r].state # "holding" /\ req'[r].state # "holding"
    PROVE  ConnsAccount'
<1>1. Peers' = Peers /\ \A p : Server(p)' = Server(p)
  BY UpSame
<1>2. \A p : Holders(p)' = Holders(p)
  BY DEF Holders
<1> QED BY <1>1, <1>2 DEF ConnsAccount

LEMMA ConnsGiven ==
    ASSUME TypeInv, ConnsAccount, NEW r \in Requests, NEW p, Gives(r, p)
    PROVE  ConnsAccount'
<1>1. Peers' = Peers /\ (\A x : Server(x)' = Server(x)) /\ p \in Peers /\ up \in Upstreams
  BY UpSame DEF Gives, TypeInv, TypeOK
<1>2. Holders(p)' = Holders(p) \cup {r} /\ r \notin Holders(p)
  BY DEF Holders, Gives
<1>3. \A x \in Peers \ {p} : Holders(x)' = Holders(x)
  BY DEF Holders, Gives
<1>4. Cardinality(Holders(p)') = Cardinality(Holders(p)) + 1
  BY <1>2, HoldersFinite, FS_AddElement
<1>5. ASSUME NEW x \in Peers
      PROVE  /\ peer'[x].conns = Cardinality(Holders(x)')
             /\ Server(x).max_conns # 0 => peer'[x].conns <= Server(x).max_conns
  <2>1. CASE x = p
    <3>1. /\ peer[p].conns = Cardinality(Holders(p))
          /\ peer'[p].conns = peer[p].conns + 1
          /\ ~Full(p) /\ Server(p).max_conns \in Nat
      BY <1>1, ServerFields DEF ConnsAccount, Gives
    <3>2. peer[p].conns \in Nat
      BY <1>1, GainedInt DEF TypeInv
    <3> QED BY <1>4, <2>1, <3>1, <3>2 DEF Full
  <2>2. CASE x # p
    BY <1>3, <2>2 DEF ConnsAccount, Gives
  <2> QED BY <2>1, <2>2
<1> QED BY <1>1, <1>5 DEF ConnsAccount

LEMMA ConnsFreed ==
    ASSUME TypeInv, ConnsAccount, NEW r \in Requests, NEW failed \in BOOLEAN,
           Free(r, failed)
    PROVE  ConnsAccount'
<1> DEFINE p == req[r].current
<1>1. /\ req[r].state = "holding" /\ p \in Peers
      /\ \A s \in Requests \ {r} : req'[s] = req[s]
      /\ req'[r].state # "holding"
      /\ \A x \in Peers \ {p} : peer'[x] = peer[x]
      /\ peer'[p].conns = peer[p].conns - 1
      /\ UNCHANGED up
  BY FreeHasConns, FreeFacts, NewFacts
<1>2. Peers' = Peers /\ (\A x : Server(x)' = Server(x)) /\ up \in Upstreams
  BY <1>1, UpSame DEF TypeInv, TypeOK
<1>3. PICK h : h = p
  OBVIOUS
<1> HIDE DEF p
<1>4. req[r].current = h
  BY <1>3 DEF p
<1>5. Holders(h)' = Holders(h) \ {r} /\ r \in Holders(h)
  BY <1>1, <1>4 DEF Holders
<1>6. \A x \in Peers \ {h} : Holders(x)' = Holders(x)
  BY <1>1, <1>4 DEF Holders
<1>7. Cardinality(Holders(h)') = Cardinality(Holders(h)) - 1
  BY <1>5, HoldersFinite, FS_RemoveElement
<1>8. ASSUME NEW x \in Peers
      PROVE  /\ peer'[x].conns = Cardinality(Holders(x)')
             /\ Server(x).max_conns # 0 => peer'[x].conns <= Server(x).max_conns
  <2>1. CASE x = h
    <3>1. /\ peer[h].conns = Cardinality(Holders(h))
          /\ Server(h).max_conns # 0 => peer[h].conns <= Server(h).max_conns
          /\ peer'[h].conns = peer[h].conns - 1
          /\ Server(h).max_conns \in Nat /\ peer[h].conns \in Nat
      BY <1>1, <1>2, <1>3, ServerFields, GainedInt DEF ConnsAccount, TypeInv
    <3> QED BY <1>7, <2>1, <3>1
  <2>2. CASE x # h
    BY <1>1, <1>3, <1>6, <2>2 DEF ConnsAccount
  <2> QED BY <2>1, <2>2
<1> QED BY <1>2, <1>8 DEF ConnsAccount

LEMMA ConnsStep ==
    ASSUME TypeInv, ConnsAccount, [Next]_vars
    PROVE  ConnsAccount'
<1>1. TypeOK
  BY DEF TypeInv
<1>2. CASE UNCHANGED vars \/ Tick
  BY <1>2, ConnsSame DEF vars, Tick
<1>3. CASE \E r \in Requests : RequestStep(r)
  <2>1. PICK r \in Requests : RequestStep(r)
    BY <1>3
  <2>2. CASE InitPeer(r)
    BY <1>1, <2>2, InitPeerFacts, ConnsSame
  <2>3. CASE \E p \in Peers : GivenOnly(r, p)
    BY <1>1, <2>3, GivenOnlyGives, ConnsGiven
  <2>4. CASE \E q, p, t : GivenOneOf(r, q, p, t)
    BY <1>1, <2>4, GivenOneOfGives, ConnsGiven
  <2>5. CASE \E q : RefusedAll(r, q)
    <3>1. PICK q : RefusedAll(r, q)
      BY <2>5
    <3>2. req[r].state = "ready"
      BY <3>1 DEF RefusedAll
    <3> QED BY <1>1, <3>1, <3>2, RefusedFacts, ConnsSame
  <2>6. CASE \E failed \in BOOLEAN : Free(r, failed)
    BY <2>6, ConnsFreed
  <2>7. CASE Finalize(r)
    BY <1>1, <2>7, FinalizeFacts, NewFacts, ConnsSame
  <2> QED BY <2>1, <2>2, <2>3, <2>4, <2>5, <2>6, <2>7 DEF RequestStep
<1> QED BY <1>1, <1>2, <1>3, StepCases

LEMMA ConnsInit == Init => TypeInv /\ ConnsAccount
<1> SUFFICES ASSUME Init PROVE TypeInv /\ ConnsAccount
  OBVIOUS
<1>1. up \in Upstreams
  BY DEF Init
<1>2. ASSUME NEW p \in Peers
      PROVE  /\ peer[p] \in Entry(p) /\ peer[p].conns = 0
             /\ Server(p).max_conns \in Nat
  <2>1. peer[p] = [current_weight |-> 0, effective_weight |-> Server(p).weight,
                   conns |-> 0, fails |-> 0, accessed |-> 0, checked |-> 0]
    BY DEF Init
  <2>2. Server(p).weight \in 0 .. Server(p).weight /\ Server(p).max_conns \in Nat
    BY <1>1, ServerFields
  <2> QED BY <2>1, <2>2 DEF Entry
<1>3. DOMAIN peer = Peers /\ served \in [Peers -> [count : Nat, last : Nat]]
  BY DEF Init
<1>4. req \in [Requests -> ReqData] /\ \A r \in Requests : req[r].state = "new"
  BY NewFacts DEF Init
<1>5. now \in Nat /\ failures \in 0 .. MaxFailures
  BY UpstreamAssumption DEF Init
<1>6. TypeOK
  BY Zenon, <1>1, <1>2, <1>3, <1>4, <1>5 DEF TypeOK, ReqData
<1>7. \A p : Holders(p) = {}
  BY <1>4 DEF Holders
<1>8. ConnsAccount
  BY <1>2, <1>7, FS_EmptySet DEF ConnsAccount
<1> QED BY <1>4, <1>6, <1>8 DEF TypeInv, HoldersHold

LEMMA ConnsInvariant == Spec => [](TypeInv /\ ConnsAccount)
<1>1. TypeInv /\ ConnsAccount /\ [Next]_vars => (TypeInv /\ ConnsAccount)'
  BY TypeStep, ConnsStep
<1> QED BY <1>1, ConnsInit, PTL DEF Spec

(* Every reachable state of the peers and the requests is well typed; in    *)
(* particular no punishment and no recovery takes effective_weight out of   *)
(* 0 .. weight, and ngx_http_upstream_free_round_robin_peer never takes     *)
(* conns below 0.                                                           *)
THEOREM PeersTypeCorrect == Spec => []TypeOK
<1>1. TypeInv => TypeOK
  BY DEF TypeInv
<1> QED BY <1>1, ConnsInvariant, PTL

(* peer->conns, counted up by every way to get a peer and down by every     *)
(* free, is at any time the number of requests that hold the peer, and      *)
(* never more than max_conns.                                               *)
THEOREM ConnsCorrect == Spec => []ConnsAccount
BY ConnsInvariant, PTL

-----------------------------------------------------------------------------
(* A step of r leaves the other requests alone.                             *)
LEMMA OnlyOne ==
    ASSUME TypeInv, ConnsAccount, NEW r \in Requests, RequestStep(r)
    PROVE  UNCHANGED up /\ \A s \in Requests \ {r} : req'[s] = req[s]
<1>1. TypeOK
  BY DEF TypeInv
<1>2. CASE \E p \in Peers : GivenOnly(r, p)
  BY <1>1, <1>2, GivenOnlyGives DEF Gives
<1>3. CASE \E q, p, t : GivenOneOf(r, q, p, t)
  BY <1>1, <1>3, GivenOneOfGives DEF Gives
<1>4. CASE \E failed \in BOOLEAN : Free(r, failed)
  BY <1>4, FreeHasConns, FreeFacts
<1> QED BY <1>1, <1>2, <1>3, <1>4, InitPeerFacts, RefusedFacts, FinalizeFacts
       DEF RequestStep

(* What a request remembers of the peers it was given.                      *)
Remembers(d) ==
    /\ d.tried \subseteq d.past
    /\ ~d.backup => d.past \subseteq Group(FALSE)
    /\ ~Single => d.past \cap Group(d.backup) \subseteq d.tried
    /\ Single /\ d.state = "ready" => d.past = {}
HistoryInv == \A r \in Requests : Remembers(req[r])

LEMMA NewRemembers == Remembers(NewRequest)
BY NewFacts DEF Remembers

LEMMA GroupsApart ==
    ASSUME up \in Upstreams
    PROVE  /\ Group(TRUE) \cap Group(FALSE) = {}
           /\ Group(TRUE) \cup Group(FALSE) = Peers
<1>1. \A p \in Peers : Server(p).backup \in BOOLEAN
  BY ServerFields
<1> QED BY Zenon, <1>1 DEF Group

LEMMA GivenRemembers ==
    ASSUME TypeInv, NEW r \in Requests, Remembers(req[r]), NEW q, NEW p, NEW t,
           GivenOneOf(r, q, p, t)
    PROVE  Remembers(req'[r]) /\ p \notin req[r].past
<1>1. /\ Gives(r, p) /\ req'[r].backup = q.backup /\ req'[r].tried = q.tried \cup {p}
  BY GivenOneOfGives DEF TypeInv
<1>2. /\ req'[r].past = req[r].past \cup {p} /\ req'[r].state = "holding"
      /\ q.backup \in BOOLEAN /\ req[r].backup \in BOOLEAN
  <2>1. q \in ReqData /\ req[r] \in ReqData
    BY ReqIsData DEF GivenOneOf, Follows, TypeInv
  <2> QED BY <1>1, <2>1 DEF Gives, ReqData
<1>3. ~Single /\ p \in Group(q.backup) /\ p \notin q.tried
  BY CandidatesArePeers DEF GivenOneOf
<1>4. Group(TRUE) \cap Group(FALSE) = {}
  BY GroupsApart DEF TypeInv, TypeOK
<1>5. CASE q.backup = req[r].backup /\ q.tried = req[r].tried
  <2>1. p \notin req[r].past
    BY <1>3, <1>5 DEF Remembers
  <2>2. ~req'[r].backup => p \in Group(FALSE)
    BY Zenon, <1>1, <1>2, <1>3
  <2>3. Group(req'[r].backup) = Group(req[r].backup)
    BY <1>1, <1>5
  <2>4. req'[r].past \cap Group(req'[r].backup) \subseteq req'[r].tried
    BY <1>1, <1>2, <1>3, <1>5, <2>3 DEF Remembers
  <2>5. ~req'[r].backup => req'[r].past \subseteq Group(FALSE)
    BY <1>1, <1>2, <1>5, <2>2 DEF Remembers
  <2>6. req'[r].tried \subseteq req'[r].past
    BY <1>1, <1>2, <1>5 DEF Remembers
  <2> QED BY <1>2, <2>1, <2>4, <2>5, <2>6 DEF Remembers
<1>6. CASE ~req[r].backup /\ q.backup /\ q.tried = {}
  <2>1. req[r].past \cap Group(TRUE) = {}
    BY <1>4, <1>6 DEF Remembers
  <2>2. Group(q.backup) = Group(TRUE)
    BY Zenon, <1>2, <1>6
  <2>3. p \notin req[r].past
    BY <1>3, <2>1, <2>2
  <2>4. Group(req'[r].backup) = Group(TRUE)
    BY <1>1, <2>2
  <2> QED BY <1>1, <1>2, <1>3, <1>6, <2>1, <2>3, <2>4 DEF Remembers
<1> QED BY <1>5, <1>6 DEF GivenOneOf, Follows

LEMMA GivenOnlyRemembers ==
    ASSUME TypeInv, NEW r \in Requests, Remembers(req[r]), NEW p \in Peers,
           GivenOnly(r, p)
    PROVE  Remembers(req'[r]) /\ p \notin req[r].past
<1>1. /\ Gives(r, p) /\ req'[r].backup = req[r].backup /\ req'[r].tried = req[r].tried
  BY GivenOnlyGives DEF TypeInv
<1>2. /\ req'[r].past = req[r].past \cup {p} /\ req'[r].state = "holding"
  BY <1>1 DEF Gives
<1>3. Single /\ req[r].state = "ready"
  BY DEF GivenOnly
<1>4. p \in Group(FALSE)
  BY <1>3, GroupsApart DEF Single, TypeInv, TypeOK
<1> QED BY <1>1, <1>2, <1>3, <1>4 DEF Remembers

LEMMA RefusedRemembers ==
    ASSUME TypeInv, NEW r \in Requests, Remembers(req[r]), NEW q, RefusedAll(r, q)
    PROVE  Remembers(req'[r])
<1>1. /\ req'[r].state = "busy" /\ req'[r].past = req[r].past
      /\ req'[r].backup = q.backup /\ req'[r].tried = q.tried
  BY RefusedFacts DEF TypeInv
<1>2. q.backup \in BOOLEAN
  BY DEF RefusedAll, Follows, ReqData
<1>3. Group(TRUE) \cap Group(FALSE) = {}
  BY GroupsApart DEF TypeInv, TypeOK
<1>4. CASE q.backup = req[r].backup /\ q.tried = req[r].tried
  <2>1. Group(req'[r].backup) = Group(req[r].backup)
    BY <1>1, <1>4
  <2> QED BY <1>1, <1>4, <2>1 DEF Remembers
<1>5. CASE ~req[r].backup /\ q.backup /\ q.tried = {}
  <2>1. req[r].past \cap Group(TRUE) = {}
    BY <1>3, <1>5 DEF Remembers
  <2>2. Group(req'[r].backup) = Group(TRUE)
    BY Zenon, <1>1, <1>2, <1>5
  <2> QED BY <1>1, <1>5, <2>1, <2>2 DEF Remembers
<1> QED BY <1>4, <1>5 DEF RefusedAll, Follows

LEMMA HistoryInit == Init => HistoryInv
BY NewRemembers DEF Init, HistoryInv

LEMMA GroupsSame ==
    ASSUME UNCHANGED up
    PROVE  (Single' <=> Single) /\ \A b : Group(b)' = Group(b)
BY DEF Single, Group, Peers, Server

LEMMA HistoryStep ==
    ASSUME TypeInv, ConnsAccount, HistoryInv, [Next]_vars
    PROVE  HistoryInv'
<1>1. TypeOK
  BY DEF TypeInv
<1>2. CASE UNCHANGED vars \/ Tick
  <2>1. UNCHANGED <<up, req>>
    BY <1>2 DEF vars, Tick
  <2> QED BY <2>1 DEF HistoryInv, Remembers, Single, Group, Peers, Server
<1>3. CASE \E r \in Requests : RequestStep(r)
  <2>1. PICK r \in Requests : RequestStep(r)
    BY <1>3
  <2>2. UNCHANGED up /\ \A s \in Requests \ {r} : req'[s] = req[s]
    BY <2>1, OnlyOne
  <2>3. Remembers(req[r])
    BY DEF HistoryInv
  <2>4. Remembers(req'[r])
    <3>1. CASE InitPeer(r)
      <4>1. req'[r].past = {} /\ req'[r].tried = {}
        BY <1>1, <3>1, InitPeerFacts
      <4> QED BY <4>1 DEF Remembers
    <3>2. CASE \E failed \in BOOLEAN : Free(r, failed)
      <4>1. PICK failed \in BOOLEAN : Free(r, failed)
        BY <3>2
      <4>2. \/ /\ ~Single /\ req'[r].past = req[r].past /\ req'[r].tried = req[r].tried
               /\ req'[r].backup = req[r].backup
            \/ req'[r] = NewRequest
        BY <4>1, FreeHasConns, FreeFacts
      <4> QED BY <2>3, <4>2, NewRemembers DEF Remembers
    <3>3. CASE Finalize(r)
      BY <1>1, <3>3, FinalizeFacts, NewRemembers
    <3> QED BY <2>1, <2>3, <3>1, <3>2, <3>3, GivenRemembers, GivenOnlyRemembers,
               RefusedRemembers DEF RequestStep
  <2>5. ASSUME NEW s \in Requests PROVE Remembers(req'[s])
    BY <2>2, <2>4 DEF HistoryInv
  <2>6. (Single' <=> Single) /\ \A b : Group(b)' = Group(b)
    BY <2>2, GroupsSame
  <2>7. ASSUME NEW s \in Requests PROVE Remembers(req[s])'
    <3>1. PICK d : d = req'[s]
      OBVIOUS
    <3>2. Remembers(d)
      BY <2>5, <3>1
    <3>3. /\ Group(d.backup)' = Group(d.backup) /\ Group(FALSE)' = Group(FALSE)
          /\ Single' <=> Single
      BY <2>6
    <3>4. Remembers(d)'
      BY <3>2, <3>3 DEF Remembers
    <3> QED BY <3>1, <3>4 DEF Remembers
  <2> QED BY <2>7 DEF HistoryInv
<1> QED BY <1>1, <1>2, <1>3, StepCases

LEMMA HistoryInvariant == Spec => [](TypeInv /\ ConnsAccount /\ HistoryInv)
<1>1. HistoryInv /\ TypeInv /\ ConnsAccount /\ [Next]_vars => HistoryInv'
  BY HistoryStep
<1> QED BY <1>1, ConnsInvariant, HistoryInit, PTL DEF Spec

LEMMA NeverTwiceStep ==
    ASSUME TypeInv, ConnsAccount, HistoryInv, [Next]_vars, NEW s \in Requests, Picks(s)
    PROVE  req'[s].current \notin req[s].past
<1>1. TypeOK
  BY DEF TypeInv
<1>2. CASE UNCHANGED vars \/ Tick
  BY <1>2 DEF vars, Tick, Picks
<1>3. CASE \E r \in Requests : RequestStep(r)
  <2>1. PICK r \in Requests : RequestStep(r)
    BY <1>3
  <2>2. r = s
    BY <2>1, OnlyOne DEF Picks
  <2>3. Remembers(req[s])
    BY DEF HistoryInv
  <2>4. CASE \E p \in Peers : GivenOnly(r, p)
    <3>1. PICK p \in Peers : GivenOnly(s, p)
      BY <2>2, <2>4
    <3>2. Gives(s, p) /\ p \notin req[s].past
      BY <1>1, <2>3, <3>1, GivenOnlyGives, GivenOnlyRemembers
    <3> QED BY <3>2 DEF Gives
  <2>5. CASE \E q, p, t : GivenOneOf(r, q, p, t)
    <3>1. PICK q, p, t : GivenOneOf(s, q, p, t)
      BY <2>2, <2>5
    <3>2. Gives(s, p) /\ p \notin req[s].past
      BY <1>1, <2>3, <3>1, GivenOneOfGives, GivenRemembers
    <3> QED BY <3>2 DEF Gives
  <2>6. CASE InitPeer(r) \/ Finalize(r)
    BY <1>1, <2>2, <2>6, InitPeerFacts, FinalizeFacts DEF Picks
  <2>7. CASE \E q : RefusedAll(r, q)
    BY <1>1, <2>2, <2>7, RefusedFacts DEF Picks
  <2>8. CASE \E failed \in BOOLEAN : Free(r, failed)
    BY <2>2, <2>8 DEF Picks, Free
  <2> QED BY <2>1, <2>4, <2>5, <2>6, <2>7, <2>8 DEF RequestStep
<1> QED BY <1>1, <1>2, <1>3, StepCases

(* Between ngx_http_upstream_init_round_robin_peer and the end of a request *)
(* get does not return the same peer twice, by whatever method and through  *)
(* whatever failures, for the bitmap tried remembers them all.              *)
THEOREM NeverTwiceCorrect == Spec => NeverTwice
<1>1. /\ TypeInv /\ ConnsAccount /\ HistoryInv /\ [Next]_vars
      => \A r \in Requests : Picks(r) => req'[r].current \notin req[r].past
  BY NeverTwiceStep
<1> QED BY <1>1, HistoryInvariant, PTL DEF Spec, NeverTwice

LEMMA NotPassedOverStep ==
    ASSUME TypeInv, ConnsAccount, HistoryInv, [Next]_vars, NEW s \in Requests
    PROVE  /\ ~req[s].backup /\ req'[s].backup => \A p \in Group(FALSE) : Useless(s, p)
           /\ req[s].state = "ready" /\ req'[s].state = "busy" =>
                \A p \in Group(req'[s].backup) : Useless(s, p)
<1>1. TypeOK
  BY DEF TypeInv
<1>2. CASE UNCHANGED vars \/ Tick
  BY <1>2 DEF vars, Tick
<1>3. CASE \E r \in Requests : RequestStep(r)
  <2>1. PICK r \in Requests : RequestStep(r)
    BY <1>3
  <2>2. CASE r # s
    BY <2>1, <2>2, OnlyOne
  <2>3. CASE r = s
    <3>1. req[s].tried \subseteq req[s].past
      BY DEF HistoryInv, Remembers
    <3>2. ASSUME NEW q, Follows(s, q), q.backup = req'[s].backup
          PROVE  ~req[s].backup /\ req'[s].backup => \A p \in Group(FALSE) : Useless(s, p)
      BY <3>1, <3>2 DEF Follows, Useful, Useless, Available
    <3>3. CASE \E p \in Peers : GivenOnly(r, p)
      BY <1>1, <2>3, <3>3, GivenOnlyGives DEF Gives
    <3>4. CASE \E q, p, t : GivenOneOf(r, q, p, t)
      <4>1. PICK q, p, t : GivenOneOf(r, q, p, t)
        BY <3>4
      <4>2. Gives(s, p) /\ Follows(s, q) /\ q.backup = req'[s].backup
        BY <1>1, <2>3, <4>1, GivenOneOfGives DEF GivenOneOf
      <4> QED BY <3>2, <4>2 DEF Gives
    <3>5. CASE \E q : RefusedAll(r, q)
      <4>1. PICK q : RefusedAll(r, q)
        BY <3>5
      <4>2. Follows(s, q) /\ q.backup = req'[s].backup
        BY <1>1, <2>3, <4>1, RefusedFacts DEF RefusedAll
      <4>3. q.tried \subseteq req[s].past
        BY <3>1, <4>2 DEF Follows
      <4>4. \A p \in Group(req'[s].backup) : Useless(s, p)
        BY <2>3, <4>1, <4>2, <4>3 DEF RefusedAll, Useless, Available
      <4> QED BY <3>2, <4>2, <4>4
    <3>6. CASE InitPeer(r) \/ Finalize(r)
      BY <1>1, <2>3, <3>6, InitPeerFacts, FinalizeFacts, NewFacts
    <3>7. CASE \E failed \in BOOLEAN : Free(r, failed)
      BY <2>3, <3>7, FreeHasConns, FreeFacts, NewFacts
    <3> QED BY <2>1, <3>3, <3>4, <3>5, <3>6, <3>7 DEF RequestStep
  <2> QED BY <2>2, <2>3
<1> QED BY <1>1, <1>2, <1>3, StepCases

(* get turns to the backup servers, and returns NGX_BUSY, only when every   *)
(* peer of the group was tried, is down, full or refused for its failures:  *)
(* neither least_conn's ties nor ip_hash's 20 attempts skip a peer.         *)
THEOREM NotPassedOverCorrect == Spec => NotPassedOver
<1>1. /\ TypeInv /\ ConnsAccount /\ HistoryInv /\ [Next]_vars
      => \A r \in Requests :
            /\ ~req[r].backup /\ req'[r].backup => \A p \in Group(FALSE) : Useless(r, p)
            /\ req[r].state = "ready" /\ req'[r].state = "busy" =>
                    \A p \in Group(req'[r].backup) : Useless(r, p)
  BY NotPassedOverStep
<1> QED BY <1>1, HistoryInvariant, PTL DEF Spec, NotPassedOver

-----------------------------------------------------------------------------
(* A peer that has failed too often was last given out no later than it was *)
(* checked.                                                                 *)
Disabled(p) ==
    ~Single /\ Server(p).max_fails # 0 /\ peer[p].fails >= Server(p).max_fails
ProbeInv ==
    \A p \in Peers : /\ served[p].last <= now
                     /\ Disabled(p) => served[p].last <= peer[p].checked

LEMMA PeerNumbers ==
    ASSUME TypeOK, NEW p \in Peers
    PROVE  /\ peer[p].checked \in Nat /\ peer[p].fails \in Nat /\ peer[p].accessed \in Nat
           /\ served[p].last \in Nat /\ served[p].count \in Nat /\ now \in Nat
           /\ Server(p).max_fails \in Nat /\ Server(p).fail_timeout \in Nat
BY ServerFields DEF TypeOK, Entry

LEMMA ProbeFrame ==
    ASSUME ProbeInv, UNCHANGED up,
           \A p \in Peers : /\ served'[p].last <= now'
                            /\ ~Single /\ Server(p).max_fails # 0
                               /\ peer'[p].fails >= Server(p).max_fails
                               => served'[p].last <= peer'[p].checked
    PROVE  ProbeInv'
BY UpSame DEF ProbeInv, Disabled

LEMMA ProbeStep ==
    ASSUME TypeInv, ConnsAccount, ProbeInv, [Next]_vars
    PROVE  ProbeInv'
<1>1. TypeOK
  BY DEF TypeInv
<1>2. CASE UNCHANGED <<up, peer, now, served>>
  <2>1. \A p \in Peers : /\ served'[p].last <= now'
                         /\ ~Single /\ Server(p).max_fails # 0
                            /\ peer'[p].fails >= Server(p).max_fails
                            => served'[p].last <= peer'[p].checked
    BY <1>2 DEF ProbeInv, Disabled
  <2> QED BY <1>2, <2>1, ProbeFrame
<1>3. CASE Tick
  <2>1. UNCHANGED <<up, peer, served>> /\ now' = now + 1
    BY <1>3 DEF Tick
  <2>2. ASSUME NEW p \in Peers
        PROVE  /\ served'[p].last <= now'
               /\ ~Single /\ Server(p).max_fails # 0
                  /\ peer'[p].fails >= Server(p).max_fails
                  => served'[p].last <= peer'[p].checked
    BY <1>1, <2>1, PeerNumbers DEF ProbeInv, Disabled
  <2> QED BY <2>1, <2>2, ProbeFrame
<1>4. CASE \E r \in Requests : RequestStep(r)
  <2>1. PICK r \in Requests : RequestStep(r)
    BY <1>4
  <2>2. CASE \E p \in Peers : GivenOnly(r, p)
    <3>1. PICK p \in Peers : GivenOnly(r, p)
      BY <2>2
    <3>2. Single /\ Gives(r, p)
      BY <1>1, <3>1, GivenOnlyGives DEF GivenOnly
    <3>3. ASSUME NEW x \in Peers PROVE served'[x].last <= now'
      <4>1. now' = now
        BY <3>2 DEF Gives
      <4>2. CASE x = p
        BY <1>1, <3>2, <4>1, <4>2, PeerNumbers DEF Gives
      <4>3. CASE x # p
        BY <3>2, <4>1, <4>3 DEF Gives, ProbeInv
      <4> QED BY <4>2, <4>3
    <3> QED BY <3>2, <3>3, ProbeFrame DEF Gives
  <2>3. CASE \E q, p, t : GivenOneOf(r, q, p, t)
    <3>1. PICK q, p, t : GivenOneOf(r, q, p, t)
      BY <2>3
    <3>2. /\ Gives(r, p)
          /\ \A x \in Peers : peer'[x].checked =
                  IF x = p /\ now - peer[x].checked > Server(x).fail_timeout
                  THEN now ELSE peer[x].checked
      BY <1>1, <3>1, GivenOneOfGives
    <3>3. p \in Peers /\ ~Refused(p)
      BY <3>1, CandidatesArePeers DEF GivenOneOf, Available
    <3>4. ASSUME NEW x \in Peers
          PROVE  /\ served'[x].last <= now'
                 /\ ~Single /\ Server(x).max_fails # 0
                    /\ peer'[x].fails >= Server(x).max_fails
                    => served'[x].last <= peer'[x].checked
      <4>1. now' = now /\ peer'[x].fails = peer[x].fails
        BY <3>2 DEF Gives
      <4>2. CASE x = p
        <5>1. served'[x].last = now
          BY <3>2, <4>2 DEF Gives
        <5>2. ASSUME Server(x).max_fails # 0, peer[x].fails >= Server(x).max_fails
              PROVE  peer'[x].checked = now
          <6>1. ~(now - peer[x].checked <= Server(x).fail_timeout)
            BY <3>3, <4>2, <5>2 DEF Refused
          <6>2. now - peer[x].checked > Server(x).fail_timeout
            BY <1>1, <6>1, PeerNumbers
          <6> QED BY <3>2, <4>2, <6>2
        <5> QED BY <1>1, <4>1, <5>1, <5>2, PeerNumbers
      <4>3. CASE x # p
        <5>1. served'[x] = served[x] /\ peer'[x].checked = peer[x].checked
          BY <3>2, <4>3 DEF Gives
        <5> QED BY <4>1, <5>1 DEF ProbeInv, Disabled
      <4> QED BY <4>2, <4>3
    <3> QED BY <3>2, <3>4, ProbeFrame DEF Gives
  <2>4. CASE \E failed \in BOOLEAN : Free(r, failed)
    <3>1. PICK failed \in BOOLEAN : Free(r, failed)
      BY <2>4
    <3>2. PICK h : h = req[r].current
      OBVIOUS
    <3>3. PICK e : e = Judged(r, failed)
      OBVIOUS
    <3>4. /\ h \in Peers /\ \A x \in Peers \ {h} : peer'[x] = peer[x]
          /\ peer'[h].checked = e.checked /\ peer'[h].fails = e.fails
          /\ UNCHANGED <<up, now, served>>
      BY <3>1, <3>2, <3>3, FreeHasConns, FreeFacts
    <3>5. \/ e.checked = now
          \/ e.checked = peer[h].checked /\ e.fails \in {0, peer[h].fails}
      BY <1>1, <3>2, <3>3, <3>4, JudgedFacts
    <3>6. ASSUME NEW x \in Peers
          PROVE  /\ served'[x].last <= now'
                 /\ ~Single /\ Server(x).max_fails # 0
                    /\ peer'[x].fails >= Server(x).max_fails
                    => served'[x].last <= peer'[x].checked
      <4>1. CASE x = h
        BY <1>1, <3>4, <3>5, <4>1, PeerNumbers DEF ProbeInv, Disabled
      <4>2. CASE x # h
        BY <3>4, <4>2 DEF ProbeInv, Disabled
      <4> QED BY <4>1, <4>2
    <3> QED BY <3>4, <3>6, ProbeFrame
  <2> QED BY <1>1, <1>2, <2>1, <2>2, <2>3, <2>4, InitPeerFacts, RefusedFacts, FinalizeFacts
          DEF RequestStep
<1>5. UNCHANGED vars => UNCHANGED <<up, peer, now, served>>
  BY DEF vars
<1> QED BY <1>1, <1>2, <1>3, <1>4, <1>5, StepCases

LEMMA ProbeInit == Init => ProbeInv
<1> SUFFICES ASSUME Init PROVE ProbeInv
  OBVIOUS
<1>1. now \in Nat /\ now = Epoch
  BY UpstreamAssumption DEF Init
<1>2. ASSUME NEW p \in Peers PROVE served[p].last = 0 /\ peer[p].checked = 0
  BY DEF Init
<1> QED BY <1>1, <1>2 DEF ProbeInv

LEMMA OneProbeStep ==
    ASSUME TypeInv, ConnsAccount, ProbeInv, [Next]_vars, NEW p \in Peers,
           Disabled(p), served'[p] # served[p]
    PROVE  now - served[p].last > Server(p).fail_timeout
<1>1. TypeOK
  BY DEF TypeInv
<1>2. \E r \in Requests : RequestStep(r)
  BY <1>1, StepCases DEF vars, Tick
<1>3. PICK r \in Requests : RequestStep(r)
  BY <1>2
<1>4. ~Single /\ p \in Peers
  BY DEF Disabled
<1>5. ~\E x \in Peers : GivenOnly(r, x)
  BY <1>4 DEF GivenOnly
<1>6. ~\E failed \in BOOLEAN : Free(r, failed)
  BY FreeHasConns, FreeFacts
<1>7. \E q, x, t : GivenOneOf(r, q, x, t)
  <2>1. ~InitPeer(r) /\ ~Finalize(r)
    BY DEF InitPeer, Finalize
  <2>2. ~\E q : RefusedAll(r, q)
    BY DEF RefusedAll, Busy
  <2> QED BY <1>3, <1>5, <1>6, <2>1, <2>2 DEF RequestStep
<1>8. PICK q, x, t : GivenOneOf(r, q, x, t)
  BY <1>7
<1>9. x = p
  <2>1. Gives(r, x)
    BY <1>1, <1>8, GivenOneOfGives
  <2>2. \A y \in Peers \ {x} : served'[y] = served[y]
    BY <2>1 DEF Gives
  <2> QED BY <1>4, <2>2
<1>10. ~Refused(p)
  BY <1>8, <1>9, CandidatesArePeers DEF GivenOneOf, Available
<1>11. ~(now - peer[p].checked <= Server(p).fail_timeout)
  BY <1>10 DEF Refused, Disabled
<1>12. served[p].last <= peer[p].checked
  BY DEF ProbeInv
<1> QED BY <1>1, <1>11, <1>12, PeerNumbers

(* peer->checked, renewed when a peer is given out after fail_timeout, lets *)
(* only one request in every fail_timeout through to a peer that has failed *)
(* max_fails times.                                                         *)
THEOREM OneProbeCorrect == Spec => OneProbe
<1>1. TypeInv /\ ConnsAccount /\ ProbeInv /\ [Next]_vars => ProbeInv'
  BY ProbeStep
<1>2. Spec => [](TypeInv /\ ConnsAccount /\ ProbeInv)
  BY <1>1, ConnsInvariant, ProbeInit, PTL DEF Spec
<1>3. TypeInv /\ ConnsAccount /\ ProbeInv /\ [Next]_vars
      => \A p \in Peers :
            /\ ~Single /\ served'[p] # served[p]
            /\ Server(p).max_fails # 0 /\ peer[p].fails >= Server(p).max_fails
            => now - served[p].last > Server(p).fail_timeout
  BY OneProbeStep DEF Disabled
<1> QED BY <1>2, <1>3, PTL DEF Spec, OneProbe

-----------------------------------------------------------------------------
(* What round robin gives to each peer, for any number of peers and any     *)
(* weights.                                                                *)
LEMMA GroupsFinite ==
    ASSUME up \in Upstreams, NEW b
    PROVE  IsFiniteSet(Group(b)) /\ Group(b) \in SUBSET Peers
BY PeersFinite, FS_Subset DEF Group

LEMMA WeightsInt ==
    ASSUME TypeOK, NEW p \in Peers
    PROVE  /\ peer[p].current_weight \in Int /\ CurrentWeight[p] \in Int
           /\ CurrentWeight[p] = peer[p].current_weight
           /\ Weight[p] = Server(p).weight /\ Weight[p] \in Nat \ {0}
BY ServerFields DEF TypeOK, Entry, CurrentWeight, Weight

LEMMA BalanceSame ==
    ASSUME WeightsBalance, UNCHANGED up,
           \A x \in Peers : peer'[x].current_weight = peer[x].current_weight
    PROVE  WeightsBalance'
<1>1. CurrentWeight' = CurrentWeight
  BY UpSame DEF CurrentWeight
<1>2. \A b : Group(b)' = Group(b)
  BY GroupsSame
<1> QED BY <1>1, <1>2 DEF WeightsBalance

(* The balance of a group after a turn of some of its peers.                *)
LEMMA TurnBalances ==
    ASSUME TypeOK, NEW b, NEW T \in SUBSET Group(b), T # {},
           NEW h, \A x \in Peers : h[x] = Turn(T)[x].current_weight
    PROVE  SumFunctionOnSet(h, Group(b)) = SumFunctionOnSet(CurrentWeight, Group(b))
<1>1. up \in Upstreams /\ IsFiniteSet(Group(b)) /\ Group(b) \in SUBSET Peers
  BY GroupsFinite DEF TypeOK
<1> DEFINE e == [x \in T |-> peer[x].effective_weight]
           m == Richest(T)
<1>2. m \in T
  <2>1. \A x \in T : Gained(x) \in Int
    BY <1>1, GainedInt
  <2> QED BY <1>1, <2>1, RichestExists
<1>3. Price(T) = SumFunctionOnSet(e, T)
  BY DEF Price
<1>4. \A x \in T : e[x] = peer[x].effective_weight /\ e[x] \in Int
  BY <1>1, GainedInt
<1> HIDE DEF e, m
<1>5. \A x \in Group(b) : CurrentWeight[x] \in Int
  BY <1>1, WeightsInt
<1>6. \A x \in Group(b) \ T : h[x] = CurrentWeight[x]
  BY <1>1, TurnFacts, WeightsInt
<1>7. \A x \in T : Gained(x) = CurrentWeight[x] + e[x]
  BY <1>1, <1>4, WeightsInt DEF Gained
<1>8. ASSUME NEW x \in T \ {m} PROVE h[x] = CurrentWeight[x] + e[x]
  <2>1. h[x] = Gained(x) - 0
    BY <1>1, TurnFacts DEF m
  <2> QED BY <1>4, <1>5, <1>7, <2>1
<1>9. h[m] = CurrentWeight[m] + e[m] - SumFunctionOnSet(e, T)
  <2>1. h[m] = Gained(m) - Price(T)
    BY <1>1, <1>2, TurnFacts DEF m
  <2>2. Gained(m) = CurrentWeight[m] + e[m]
    BY <1>2, <1>7
  <2>3. SumFunctionOnSet(e, T) \in Int
    <3>1. IsFiniteSet(T)
      BY <1>1, FS_Subset
    <3> QED BY <1>4, <3>1, SumType
  <2>4. CurrentWeight[m] \in Int /\ e[m] \in Int
    BY <1>2, <1>4, <1>5
  <2> QED BY <1>3, <2>1, <2>2, <2>3, <2>4
<1> QED BY <1>1, <1>2, <1>4, <1>5, <1>6, <1>8, <1>9, SumOnePays

LEMMA BalanceGiven ==
    ASSUME TypeInv, WeightsBalance, NEW r \in Requests, NEW q, NEW p, NEW t,
           GivenOneOf(r, q, p, t)
    PROVE  WeightsBalance'
<1>1. TypeOK
  BY DEF TypeInv
<1>2. /\ \A x \in Peers : peer'[x].current_weight = t[x].current_weight
      /\ UNCHANGED up /\ Gives(r, p) /\ SameBut(t, peer)
  <2>1. /\ \A x \in Peers : peer'[x].current_weight = t[x].current_weight
        /\ Gives(r, p) /\ SameBut(t, peer)
    BY <1>1, GivenOneOfGives
  <2> QED BY <2>1 DEF Gives
<1>3. CASE t = peer
  BY <1>2, <1>3, BalanceSame
<1>4. CASE \E T \in SUBSET Candidates(q) : T # {} /\ t = Turn(T)
  <2>1. PICK T \in SUBSET Candidates(q) : T # {} /\ t = Turn(T)
    BY <1>4
  <2>2. T \in SUBSET Group(q.backup)
    BY CandidatesArePeers
  <2>3. CurrentWeight' = [x \in Peers |-> peer'[x].current_weight]
    BY <1>2, UpSame DEF CurrentWeight
  <2>4. PICK h : h = CurrentWeight'
    OBVIOUS
  <2>5. \A x \in Peers : h[x] = Turn(T)[x].current_weight
    BY <1>2, <2>1, <2>3, <2>4
  <2>6. q.backup \in BOOLEAN
    BY DEF GivenOneOf, Follows, ReqData
  <2>7. ASSUME NEW b \in BOOLEAN PROVE SumFunctionOnSet(h, Group(b)) = 0
    <3>1. CASE b = q.backup
      <4>1. T \in SUBSET Group(b)
        BY <2>2, <3>1
      <4>2. SumFunctionOnSet(h, Group(b)) = SumFunctionOnSet(CurrentWeight, Group(b))
        BY <1>1, <2>1, <2>5, <4>1, TurnBalances
      <4> QED BY <4>2 DEF WeightsBalance
    <3>2. CASE b # q.backup
      <4>1. /\ IsFiniteSet(Group(b)) /\ Group(b) \in SUBSET Peers
            /\ Group(q.backup) \in SUBSET Peers
        BY <1>1, GroupsFinite DEF TypeOK
      <4>2. \A x \in Group(b) : x \notin T
        BY <2>2, <3>2 DEF Group
      <4>3. \A x \in Group(b) : CurrentWeight[x] \in Int /\ h[x] = CurrentWeight[x]
        BY <1>1, <2>2, <2>5, <4>1, <4>2, TurnFacts, WeightsInt
      <4>4. SumFunctionOnSet(h, Group(b)) = SumFunctionOnSet(CurrentWeight, Group(b))
        BY <4>1, <4>3, SumSame
      <4> QED BY <4>4 DEF WeightsBalance
    <3> QED BY <3>1, <3>2
  <2>8. \A b : Group(b)' = Group(b)
    BY <1>2, GroupsSame
  <2> QED BY <2>4, <2>7, <2>8 DEF WeightsBalance
<1> QED BY <1>3, <1>4 DEF GivenOneOf, Table

LEMMA BalanceStep ==
    ASSUME TypeInv, ConnsAccount, WeightsBalance, [Next]_vars
    PROVE  WeightsBalance'
<1>1. TypeOK
  BY DEF TypeInv
<1>2. CASE UNCHANGED <<up, peer>>
  BY <1>2, BalanceSame
<1>3. UNCHANGED vars \/ Tick => UNCHANGED <<up, peer>>
  BY DEF vars, Tick
<1>4. CASE \E r \in Requests : RequestStep(r)
  <2>1. PICK r \in Requests : RequestStep(r)
    BY <1>4
  <2>2. CASE \E p \in Peers : GivenOnly(r, p)
    <3>1. UNCHANGED up /\ \A x \in Peers : peer'[x].current_weight = peer[x].current_weight
      BY <1>1, <2>2, GivenOnlyGives DEF Gives
    <3> QED BY <3>1, BalanceSame
  <2>3. CASE \E q, p, t : GivenOneOf(r, q, p, t)
    BY <2>3, BalanceGiven
  <2>4. CASE \E failed \in BOOLEAN : Free(r, failed)
    <3>1. PICK failed \in BOOLEAN : Free(r, failed)
      BY <2>4
    <3>2. PICK h : h = req[r].current
      OBVIOUS
    <3>3. PICK e : e = Judged(r, failed)
      OBVIOUS
    <3>4. /\ h \in Peers /\ (\A x \in Peers \ {h} : peer'[x] = peer[x])
          /\ peer'[h].current_weight = e.current_weight /\ UNCHANGED up
      BY <3>1, <3>2, <3>3, FreeHasConns, FreeFacts
    <3>5. e.current_weight = peer[h].current_weight
      BY <1>1, <3>2, <3>3, <3>4, JudgedFacts
    <3>6. \A x \in Peers : peer'[x].current_weight = peer[x].current_weight
      BY <3>4, <3>5
    <3> QED BY <3>4, <3>6, BalanceSame
  <2>5. CASE InitPeer(r) \/ Finalize(r) \/ \E q : RefusedAll(r, q)
    BY <1>1, <1>2, <2>5, InitPeerFacts, RefusedFacts, FinalizeFacts
  <2> QED BY <2>1, <2>2, <2>3, <2>4, <2>5 DEF RequestStep
<1> QED BY <1>1, <1>2, <1>3, <1>4, StepCases

LEMMA BalanceInit == Init => WeightsBalance
<1> SUFFICES ASSUME Init, NEW b \in BOOLEAN
             PROVE  SumFunctionOnSet(CurrentWeight, Group(b)) = 0
  BY DEF WeightsBalance
<1>1. IsFiniteSet(Group(b)) /\ Group(b) \in SUBSET Peers
  BY GroupsFinite DEF Init
<1>2. \A x \in Peers : CurrentWeight[x] = 0
  BY DEF Init, CurrentWeight
<1> QED BY <1>1, <1>2, SumZero

LEMMA BalanceInvariant == Spec => [](TypeInv /\ ConnsAccount /\ WeightsBalance)
<1>1. TypeInv /\ ConnsAccount /\ WeightsBalance /\ [Next]_vars => WeightsBalance'
  BY BalanceStep
<1> QED BY <1>1, ConnsInvariant, BalanceInit, PTL DEF Spec

(* A turn of ngx_http_upstream_get_peer, with any peers left out and any    *)
(* effective weights, takes from the chosen peer what it gave to all: the   *)
(* current weights of a group always add up to 0.                           *)
THEOREM BalanceCorrect == Spec => []WeightsBalance
BY BalanceInvariant, PTL

-----------------------------------------------------------------------------
(* As long as nothing disturbs it, a current weight is the share that is    *)
(* due to the peer less what it was given.                                  *)
Share(p) == Picked * Weight[p] - served[p].count * TotalWeight
ShareInv ==
    Undisturbed =>
        /\ \A p \in Peers : /\ peer[p].fails = 0
                            /\ peer[p].effective_weight = Weight[p]
                            /\ peer[p].current_weight = Share(p)
                            /\ peer[p].current_weight > -TotalWeight
        /\ \A r \in Requests : req[r].state = "ready" => req[r].tried = {}

Counts == [p \in Peers |-> served[p].count]

LEMMA PickedIsSum == Picked = SumFunctionOnSet(Counts, Peers)
BY DEF Picked, Counts, SumFunction

LEMMA TotalFacts ==
    ASSUME TypeOK
    PROVE  /\ Picked \in Int /\ TotalWeight \in Int
           /\ Group(TRUE) = {} => Group(FALSE) = Peers
           /\ Group(TRUE) = {} => TotalWeight > 0
<1>1. up \in Upstreams /\ IsFiniteSet(Peers)
  BY PeersFinite DEF TypeOK
<1>2. Picked \in Int
  <2>1. \A x \in Peers : Counts[x] \in Int
    BY PeerNumbers DEF Counts
  <2> QED BY <1>1, <2>1, SumType, PickedIsSum
<1>0. PICK G : G = Group(FALSE)
  OBVIOUS
<1>3. /\ IsFiniteSet(G) /\ G \in SUBSET Peers /\ TotalWeight = SumFunctionOnSet(Weight, G)
      /\ \A x \in G : Weight[x] \in Int /\ 1 <= Weight[x]
  <2>1. IsFiniteSet(G) /\ G \in SUBSET Peers
    BY <1>0, <1>1, GroupsFinite
  <2>2. ASSUME NEW x \in G PROVE Weight[x] \in Int /\ 1 <= Weight[x]
    BY <2>1, WeightsInt
  <2> QED BY <1>0, <2>1, <2>2 DEF TotalWeight
<1>4. TotalWeight \in Int
  BY <1>3, SumType
<1>5. Group(TRUE) = {} => Group(FALSE) = Peers
  BY <1>1, GroupsApart
<1>6. TotalWeight > 0
  <2>1. Group(FALSE) # {}
    <3>1. PICK i \in DOMAIN up.servers : ~up.servers[i].backup
      BY <1>1, UpstreamAssumption
    <3>2. up.servers \in Seq(Servers)
      BY <1>1, UpstreamAssumption
    <3>3. up.servers[i] \in Servers
      BY <3>1, <3>2
    <3>4. PICK n \in Nat \ {0} : n = up.servers[i].naddrs
      BY <3>3 DEF Servers
    <3>5. <<i, 1>> \in {i} \X (1 .. n)
      BY <3>4
    <3>6. <<i, 1>> \in Peers
      BY <3>4, <3>5 DEF Peers, PeersOf
    <3>7. Server(<<i, 1>>) = up.servers[i]
      BY DEF Server
    <3>8. ~Server(<<i, 1>>).backup /\ Server(<<i, 1>>).backup \in BOOLEAN
      BY <1>1, <3>1, <3>6, <3>7, ServerFields
    <3>9. <<i, 1>> \in Group(FALSE)
      BY Zenon, <3>6, <3>8 DEF Group
    <3> QED BY <3>9
  <2>2. Cardinality(G) * 1 <= TotalWeight
    <3>1. 1 \in Int
      OBVIOUS
    <3> QED BY <1>3, <3>1, SumAtLeast
  <2>3. Cardinality(G) \in Nat /\ Cardinality(G) # 0
    BY <1>0, <1>3, <2>1, FS_CardinalityType, FS_EmptySet
  <2> QED BY <1>4, <2>2, <2>3
<1> QED BY <1>2, <1>4, <1>5, <1>6

LEMMA TotalSame ==
    ASSUME UNCHANGED up
    PROVE  TotalWeight' = TotalWeight /\ Weight' = Weight
BY UpSame DEF TotalWeight, Weight

LEMMA PickedGiven ==
    ASSUME TypeOK, NEW r \in Requests, NEW p, Gives(r, p)
    PROVE  Picked' = Picked + 1
<1>1. up \in Upstreams /\ IsFiniteSet(Peers) /\ p \in Peers
  BY PeersFinite DEF TypeOK, Gives
<1>2. Peers' = Peers
  BY UpSame DEF Gives
<1>3. PICK f : f = Counts
  OBVIOUS
<1>4. PICK g : g = Counts'
  OBVIOUS
<1>5. /\ \A x \in Peers : f[x] = served[x].count /\ f[x] \in Int
      /\ \A x \in Peers : g[x] = served'[x].count
  BY <1>2, <1>3, <1>4, PeerNumbers DEF Counts
<1>6. g[p] = f[p] + 1 /\ \A x \in Peers \ {p} : g[x] = f[x]
  BY <1>1, <1>5 DEF Gives
<1>7. \A x \in Peers : g[x] \in Int
  BY <1>1, <1>5, <1>6
<1>8. SumFunctionOnSet(g, Peers) = SumFunctionOnSet(f, Peers) + (g[p] - f[p])
  BY <1>1, <1>5, <1>6, <1>7, SumChange
<1>9. Picked' = SumFunctionOnSet(g, Peers)
  BY <1>2, <1>4 DEF Picked, Counts, SumFunction
<1>10. Picked = SumFunctionOnSet(f, Peers) /\ Picked \in Int
  BY <1>3, PickedIsSum, TotalFacts
<1> QED BY <1>1, <1>5, <1>6, <1>8, <1>9, <1>10

(* The chosen peer is richer than nothing.                                  *)
LEMMA RichestGains ==
    ASSUME TypeOK, WeightsBalance, Group(TRUE) = {},
           \A x \in Peers : peer[x].effective_weight = Weight[x]
    PROVE  Gained(Richest(Peers)) > 0
<1> DEFINE m == Richest(Peers)
           g == [x \in Peers |-> Gained(x)]
           zero == [x \in Peers |-> 0]
<1>1. /\ up \in Upstreams /\ IsFiniteSet(Peers) /\ Group(FALSE) = Peers
      /\ TotalWeight \in Int /\ TotalWeight > 0
  BY PeersFinite, TotalFacts DEF TypeOK
<1>2. Peers # {}
  <2>1. ASSUME Peers = {} PROVE TotalWeight = 0
    BY <1>1, <2>1, SumEmpty DEF TotalWeight
  <2> QED BY <1>1, <2>1
<1>3. \A x \in Peers : Gained(x) \in Int
  BY GainedInt
<1>4. m \in Peers /\ \A x \in Peers \ {m} : Gained(x) <= Gained(m)
  <2>1. m \in Peers /\ \A x \in Peers \ {m} : Richer(x, m)
    BY <1>1, <1>2, <1>3, RichestExists
  <2> QED BY <1>3, <2>1 DEF Richer
<1>5. SumFunctionOnSet(g, Peers) = TotalWeight
  <2>1. \A x \in Peers : /\ CurrentWeight[x] \in Int /\ Weight[x] \in Int
                         /\ g[x] = CurrentWeight[x] + Weight[x]
    BY WeightsInt DEF Gained
  <2>2. SumFunctionOnSet(g, Peers)
          = SumFunctionOnSet(CurrentWeight, Peers) + SumFunctionOnSet(Weight, Peers)
    BY <1>1, <2>1, SumPlus
  <2>3. SumFunctionOnSet(CurrentWeight, Peers) = 0
    <3>1. SumFunctionOnSet(CurrentWeight, Group(FALSE)) = 0
      BY Zenon DEF WeightsBalance
    <3> QED BY <1>1, <3>1
  <2>4. SumFunctionOnSet(Weight, Peers) = TotalWeight
    BY Zenon, <1>1 DEF TotalWeight
  <2> QED BY <1>1, <2>2, <2>3, <2>4
<1>6. ASSUME ~(Gained(m) > 0) PROVE FALSE
  <2>1. \A x \in Peers : g[x] \in Int /\ zero[x] \in Int /\ g[x] <= zero[x]
    BY <1>3, <1>4, <1>6
  <2>2. SumFunctionOnSet(g, Peers) <= SumFunctionOnSet(zero, Peers)
    BY <1>1, <2>1, SumAtMost
  <2>3. SumFunctionOnSet(zero, Peers) = 0
    BY <1>1, SumZero
  <2> QED BY <1>1, <1>5, <2>2, <2>3
<1> QED BY <1>6

-----------------------------------------------------------------------------
LEMMA UndisturbedBefore ==
    ASSUME TypeInv, ConnsAccount, [Next]_vars, Undisturbed'
    PROVE  Undisturbed /\ UNCHANGED <<up, failures>>
<1>1. TypeOK /\ failures \in Nat
  BY DEF TypeInv, TypeOK
<1>2. UNCHANGED up /\ failures' \in {failures, failures + 1}
  <2>1. CASE UNCHANGED vars \/ Tick
    BY <2>1 DEF vars, Tick
  <2>2. CASE \E r \in Requests : RequestStep(r)
    <3>1. PICK r \in Requests : RequestStep(r)
      BY <2>2
    <3>2. UNCHANGED up
      BY <3>1, OnlyOne
    <3>3. CASE \E failed \in BOOLEAN : Free(r, failed)
      BY <3>2, <3>3 DEF Free
    <3>4. CASE InitPeer(r) \/ Finalize(r)
      BY <3>2, <3>4 DEF InitPeer, Finalize
    <3>5. CASE \E q : RefusedAll(r, q)
      BY <3>2, <3>5 DEF RefusedAll, Busy
    <3>6. CASE \E p \in Peers : GivenOnly(r, p)
      BY <3>2, <3>6 DEF GivenOnly, Give
    <3>7. CASE \E q, p, t : GivenOneOf(r, q, p, t)
      BY <3>2, <3>7 DEF GivenOneOf, Give
    <3> QED BY <3>1, <3>3, <3>4, <3>5, <3>6, <3>7 DEF RequestStep
  <2> QED BY <1>1, <2>1, <2>2, StepCases
<1>3. failures' = 0
  BY DEF Undisturbed
<1>4. UNCHANGED failures
  BY <1>1, <1>2, <1>3
<1>5. /\ Peers' = Peers /\ Group(TRUE)' = Group(TRUE)
      /\ \A p : Server(p)' = Server(p)
  BY <1>2, UpSame
<1> QED BY <1>2, <1>4, <1>5 DEF Undisturbed

LEMMA ShareSame ==
    ASSUME UNCHANGED <<up, served>>
    PROVE  /\ Peers' = Peers /\ TotalWeight' = TotalWeight /\ Weight' = Weight
           /\ Picked' = Picked /\ \A p : Share(p)' = Share(p)
<1>1. Peers' = Peers /\ TotalWeight' = TotalWeight /\ Weight' = Weight
  BY UpSame, TotalSame
<1>2. Picked' = Picked
  BY <1>1 DEF Picked, SumFunction
<1> QED BY <1>1, <1>2 DEF Share

LEMMA ShareFrame ==
    ASSUME ShareInv, Undisturbed, UNCHANGED <<up, served>>,
           \A x \in Peers : /\ peer'[x].fails = 0
                            /\ peer'[x].effective_weight = peer[x].effective_weight
                            /\ peer'[x].current_weight = peer[x].current_weight,
           \A r \in Requests : req'[r] = req[r] \/ req'[r].state # "ready"
                               \/ req'[r].tried = {}
    PROVE  ShareInv'
BY ShareSame DEF ShareInv

(* A peer is given and the shares of all follow.                            *)
LEMMA ShareGiven ==
    ASSUME TypeInv, ShareInv, Undisturbed, NEW r \in Requests, NEW p, Gives(r, p),
           \A x \in Peers :
                /\ peer'[x].effective_weight = Weight[x]
                /\ peer'[x].current_weight
                       = Share(x) + Weight[x] - (IF x = p THEN TotalWeight ELSE 0)
                /\ peer'[x].current_weight > -TotalWeight
    PROVE  ShareInv'
<1>1. /\ TypeOK /\ UNCHANGED up /\ p \in Peers
      /\ \A x \in Peers \ {p} : served'[x] = served[x]
      /\ served'[p] = [count |-> served[p].count + 1, last |-> now]
      /\ \A x \in Peers : peer'[x].fails = peer[x].fails
      /\ req'[r].state = "holding" /\ \A s \in Requests \ {r} : req'[s] = req[s]
  BY DEF TypeInv, Gives
<1>2. Peers' = Peers /\ TotalWeight' = TotalWeight /\ Weight' = Weight
  BY <1>1, UpSame, TotalSame
<1>3. PICK n \in Int : n = Picked
  BY <1>1, TotalFacts
<1>4. Picked' = n + 1
  BY <1>1, <1>3, PickedGiven
<1>5. PICK total \in Int : total = TotalWeight
  BY <1>1, TotalFacts
<1>6. ASSUME NEW x \in Peers
      PROVE  /\ peer'[x].fails = 0
             /\ peer'[x].current_weight = (n + 1) * Weight[x] - served'[x].count * total
  <2>1. peer'[x].fails = 0
    BY <1>1 DEF ShareInv
  <2>2. PICK w \in Int : w = Weight[x]
    BY <1>1, WeightsInt
  <2>3. PICK c \in Int : c = served[x].count
    BY <1>1, PeerNumbers
  <2>4. Share(x) = n * w - c * total
    BY <1>3, <1>5, <2>2, <2>3 DEF Share
  <2>5. (n + 1) * w = n * w + w /\ (c + 1) * total = c * total + total
    OBVIOUS
  <2>6. n * w \in Int /\ c * total \in Int
    OBVIOUS
  <2>7. CASE x = p
    <3>1. served'[x].count = c + 1
      BY <1>1, <2>3, <2>7
    <3>2. peer'[x].current_weight = n * w - c * total + w - total
      BY <1>5, <2>2, <2>4, <2>6, <2>7
    <3> QED BY <2>1, <2>2, <2>5, <2>6, <3>1, <3>2
  <2>8. CASE x # p
    <3>1. served'[x].count = c
      BY <1>1, <2>3, <2>8
    <3>2. peer'[x].current_weight = n * w - c * total + w
      BY <2>2, <2>4, <2>6, <2>8
    <3> QED BY <2>1, <2>2, <2>5, <2>6, <3>1, <3>2
  <2> QED BY <2>7, <2>8
<1>7. ASSUME NEW x \in Peers' PROVE peer'[x].current_weight = Share(x)'
  BY <1>2, <1>4, <1>5, <1>6 DEF Share
<1>8. \A s \in Requests : req'[s].state = "ready" => req'[s].tried = {}
  BY <1>1 DEF ShareInv
<1> QED BY <1>2, <1>6, <1>7, <1>8 DEF ShareInv

LEMMA ShareGivenOnly ==
    ASSUME TypeInv, ShareInv, Undisturbed, NEW r \in Requests, NEW p \in Peers,
           GivenOnly(r, p)
    PROVE  ShareInv'
<1>1. /\ TypeOK /\ up \in Upstreams /\ Single /\ Group(TRUE) = {}
  BY DEF TypeInv, TypeOK, GivenOnly, Undisturbed
<1>2. /\ Gives(r, p)
      /\ \A x \in Peers : /\ peer'[x].current_weight = peer[x].current_weight
                          /\ peer'[x].effective_weight = peer[x].effective_weight
  BY <1>1, GivenOnlyGives
<1>3. Group(FALSE) = Peers /\ TotalWeight \in Int
  BY <1>1, TotalFacts
<1>4. Peers = {p}
  <2>1. IsFiniteSet(Peers) /\ Cardinality(Peers) = 1
    BY Zenon, <1>1, <1>3, PeersFinite DEF Single
  <2> QED BY <2>1, FS_Singleton
<1>5. TotalWeight = Weight[p]
  <2>1. TotalWeight = SumFunctionOnSet(Weight, Peers)
    BY Zenon, <1>3 DEF TotalWeight
  <2>2. \A x \in Peers : Weight[x] \in Int
    BY <1>1, WeightsInt
  <2>3. SumFunctionOnSet(Weight, Peers) = Weight[p] + SumFunctionOnSet(Weight, Peers \ {p})
    BY <1>1, <2>2, PeersFinite, SumRemove
  <2>4. SumFunctionOnSet(Weight, Peers \ {p}) = 0
    BY <1>4, SumEmpty
  <2> QED BY <2>1, <2>2, <2>3, <2>4
<1>6. ASSUME NEW x \in Peers
      PROVE  /\ peer'[x].effective_weight = Weight[x]
             /\ peer'[x].current_weight
                    = Share(x) + Weight[x] - (IF x = p THEN TotalWeight ELSE 0)
             /\ peer'[x].current_weight > -TotalWeight
  <2>1. x = p
    BY <1>4
  <2>2. /\ peer[x].effective_weight = Weight[x] /\ peer[x].current_weight = Share(x)
        /\ peer[x].current_weight > -TotalWeight
    BY DEF ShareInv
  <2>3. Weight[x] \in Int /\ peer[x].current_weight \in Int
    BY <1>1, WeightsInt
  <2> QED BY <1>2, <1>3, <1>5, <2>1, <2>2, <2>3
<1> QED BY <1>2, <1>6, ShareGiven

LEMMA ShareGivenOneOf ==
    ASSUME TypeInv, ShareInv, WeightsBalance, Undisturbed, NEW r \in Requests,
           NEW q, NEW p, NEW t, GivenOneOf(r, q, p, t)
    PROVE  ShareInv'
<1>1. /\ TypeOK /\ up \in Upstreams /\ Group(TRUE) = {} /\ up.method = "round_robin"
      /\ req[r].state = "ready" /\ Follows(r, q) /\ p \in Candidates(q) /\ Table(q, p, t)
  BY DEF TypeInv, TypeOK, GivenOneOf, Undisturbed
<1>2. /\ Gives(r, p)
      /\ \A x \in Peers : /\ peer'[x].current_weight = t[x].current_weight
                          /\ peer'[x].effective_weight = t[x].effective_weight
  BY <1>1, GivenOneOfGives
<1>3. Group(FALSE) = Peers /\ TotalWeight \in Int /\ TotalWeight > 0
  BY <1>1, TotalFacts
<1>4. \A x \in Peers : /\ peer[x].fails = 0 /\ peer[x].effective_weight = Weight[x]
                       /\ peer[x].current_weight = Share(x)
                       /\ peer[x].current_weight > -TotalWeight
  BY DEF ShareInv
<1>5. Candidates(q) = Peers
  <2>1. q.tried = {}
    BY <1>1 DEF ShareInv, Follows
  <2>2. q.backup = FALSE
    <3>1. q.backup \in BOOLEAN
      BY <1>1 DEF Follows, ReqData
    <3>2. p \in Group(q.backup)
      BY <1>1, CandidatesArePeers
    <3> QED BY Zenon, <1>1, <3>1, <3>2
  <2>3. ASSUME NEW x \in Peers PROVE Available(x)
    <3>1. ~Server(x).down /\ Server(x).max_conns = 0
      BY DEF Undisturbed
    <3>2. ~(Server(x).max_fails # 0 /\ peer[x].fails >= Server(x).max_fails)
      BY <1>1, <1>4, PeerNumbers
    <3> QED BY <3>1, <3>2 DEF Available, Full, Refused
  <2>4. Group(q.backup) = Peers
    BY Zenon, <1>3, <2>2
  <2> QED BY <2>1, <2>3, <2>4 DEF Candidates
<1>6. p = Richest(Peers) /\ t = Turn(Peers) /\ p \in Peers
  BY <1>1, <1>5 DEF Table
<1>7. Gained(p) > 0
  BY <1>1, <1>4, <1>6, RichestGains
<1>8. Price(Peers) = TotalWeight
  <2>1. TotalWeight = SumFunctionOnSet(Weight, Peers)
    BY Zenon, <1>3 DEF TotalWeight
  <2>2. /\ IsFiniteSet(Peers) /\ \A x \in Peers : Weight[x] \in Int
    BY <1>1, PeersFinite, WeightsInt
  <2>3. SumFunctionOnSet([x \in Peers |-> peer[x].effective_weight], Peers)
          = SumFunctionOnSet(Weight, Peers)
    BY <1>4, <2>2, SumSame
  <2> QED BY <2>1, <2>3 DEF Price
<1>9. ASSUME NEW x \in Peers
      PROVE  /\ peer'[x].effective_weight = Weight[x]
             /\ peer'[x].current_weight
                    = Share(x) + Weight[x] - (IF x = p THEN TotalWeight ELSE 0)
             /\ peer'[x].current_weight > -TotalWeight
  <2>1. PICK w \in Nat \ {0} : w = Weight[x] /\ w = Server(x).weight
    BY <1>1, WeightsInt
  <2>2. PICK c \in Int : c = peer[x].current_weight /\ c = Share(x)
    BY <1>1, <1>4, WeightsInt
  <2>3. Gained(x) = c + w
    BY <1>4, <2>1, <2>2 DEF Gained
  <2>4. peer'[x].effective_weight = Weight[x]
    <3>1. Recovered(x) = Weight[x]
      <4>1. peer[x].effective_weight = w /\ Server(x).weight = w /\ w \in Nat
        BY <1>4, <2>1
      <4>2. ~(w < w)
        OBVIOUS
      <4> QED BY <2>1, <4>1, <4>2 DEF Recovered
    <3> QED BY <1>1, <1>2, <1>6, <3>1, TurnFacts
  <2>5. peer'[x].current_weight = c + w - (IF x = p THEN TotalWeight ELSE 0)
    <3>1. peer'[x].current_weight = Gained(x) - (IF x = p THEN TotalWeight ELSE 0)
      BY <1>1, <1>2, <1>6, <1>8, TurnFacts
    <3> QED BY <1>3, <2>3, <3>1
  <2>6. peer'[x].current_weight > -TotalWeight
    <3>1. PICK total \in Int : total = TotalWeight /\ total > 0
      BY <1>3
    <3>2. w \in Int /\ w > 0 /\ c > -total
      BY <1>4, <2>2, <3>1
    <3>3. CASE x = p
      <4>1. c + w > 0
        BY <1>7, <2>3, <3>3
      <4>2. peer'[x].current_weight = c + w - total
        BY <2>5, <3>1, <3>3
      <4> QED BY <3>1, <3>2, <4>1, <4>2
    <3>4. CASE x # p
      <4>1. peer'[x].current_weight = c + w
        BY <2>5, <3>2, <3>4
      <4> QED BY <3>1, <3>2, <4>1
    <3> QED BY <3>3, <3>4
  <2> QED BY <2>1, <2>2, <2>4, <2>5, <2>6
<1> QED BY <1>2, <1>9, ShareGiven

-----------------------------------------------------------------------------
LEMMA ShareFreed ==
    ASSUME TypeInv, ConnsAccount, ShareInv, Undisturbed, UNCHANGED failures,
           NEW r \in Requests, NEW failed \in BOOLEAN, Free(r, failed)
    PROVE  ShareInv'
<1> DEFINE h == req[r].current
           e == Judged(r, failed)
<1>1. TypeOK
  BY DEF TypeInv
<1>2. /\ h \in Peers /\ \A s \in Requests \ {r} : req'[s] = req[s]
      /\ \A x \in Peers \ {h} : peer'[x] = peer[x]
      /\ peer'[h].current_weight = e.current_weight
      /\ peer'[h].effective_weight = e.effective_weight
      /\ peer'[h].fails = e.fails
      /\ UNCHANGED <<up, served>>
      /\ failures' = IF failed THEN failures + 1 ELSE failures
      /\ failed \/ req'[r] = NewRequest
  BY FreeHasConns, FreeFacts
<1>3. ~failed
  <2>1. failures \in Nat
    BY <1>1, UpstreamAssumption DEF TypeOK
  <2> QED BY <1>2, <2>1
<1>4. /\ e.current_weight = peer[h].current_weight
      /\ e.effective_weight = peer[h].effective_weight
      /\ e.fails \in {0, peer[h].fails}
  BY <1>1, <1>2, <1>3, JudgedFacts
<1>5. \A x \in Peers : peer[x].fails = 0
  BY DEF ShareInv
<1> HIDE DEF h, e
<1>6. ASSUME NEW x \in Peers
      PROVE  /\ peer'[x].fails = 0
             /\ peer'[x].effective_weight = peer[x].effective_weight
             /\ peer'[x].current_weight = peer[x].current_weight
  <2>1. CASE x = h
    BY <1>2, <1>4, <1>5, <2>1
  <2>2. CASE x # h
    BY <1>2, <1>5, <2>2
  <2> QED BY <2>1, <2>2
<1>7. \A s \in Requests : req'[s] = req[s] \/ req'[s].state # "ready" \/ req'[s].tried = {}
  BY <1>2, <1>3, NewFacts
<1> QED BY <1>2, <1>6, <1>7, ShareFrame

LEMMA ShareStep ==
    ASSUME TypeInv, ConnsAccount, WeightsBalance, ShareInv, [Next]_vars
    PROVE  ShareInv'
<1>1. SUFFICES ASSUME Undisturbed' PROVE ShareInv'
  BY DEF ShareInv
<1>2. TypeOK /\ Undisturbed /\ UNCHANGED <<up, failures>>
  BY <1>1, UndisturbedBefore DEF TypeInv
<1>3. ASSUME UNCHANGED <<up, peer, served>>, NEW r,
             \A s \in Requests \ {r} : req'[s] = req[s],
             req'[r] = req[r] \/ req'[r].state # "ready" \/ req'[r].tried = {}
      PROVE  ShareInv'
  <2>1. \A x \in Peers : /\ peer'[x].fails = 0
                         /\ peer'[x].effective_weight = peer[x].effective_weight
                         /\ peer'[x].current_weight = peer[x].current_weight
    BY <1>2, <1>3 DEF ShareInv
  <2>2. \A s \in Requests : req'[s] = req[s] \/ req'[s].state # "ready" \/ req'[s].tried = {}
    BY <1>3
  <2> QED BY <1>2, <1>3, <2>1, <2>2, ShareFrame
<1>4. CASE UNCHANGED vars \/ Tick
  BY <1>3, <1>4 DEF vars, Tick
<1>5. CASE \E r \in Requests : RequestStep(r)
  <2>1. PICK r \in Requests : RequestStep(r)
    BY <1>5
  <2>2. CASE InitPeer(r)
    BY <1>2, <1>3, <2>2, InitPeerFacts
  <2>3. CASE \E p \in Peers : GivenOnly(r, p)
    BY <1>2, <2>3, ShareGivenOnly
  <2>4. CASE \E q, p, t : GivenOneOf(r, q, p, t)
    BY <1>2, <2>4, ShareGivenOneOf
  <2>5. CASE \E q : RefusedAll(r, q)
    BY <1>2, <1>3, <2>5, RefusedFacts
  <2>6. CASE \E failed \in BOOLEAN : Free(r, failed)
    BY <1>2, <2>6, ShareFreed
  <2>7. CASE Finalize(r)
    BY <1>2, <1>3, <2>7, FinalizeFacts, NewFacts
  <2> QED BY <2>1, <2>2, <2>3, <2>4, <2>5, <2>6, <2>7 DEF RequestStep
<1> QED BY <1>2, <1>4, <1>5, StepCases

LEMMA ShareInit == Init => ShareInv
<1> SUFFICES ASSUME Init, Undisturbed PROVE ShareInv
  BY DEF ShareInv
<1>1. TypeOK
  BY ConnsInit DEF TypeInv
<1>2. \A r \in Requests : req[r].tried = {}
  BY NewFacts DEF Init
<1>3. Picked = 0
  <2>1. \A x \in Peers : Counts[x] = 0
    BY DEF Counts, Init
  <2>2. IsFiniteSet(Peers)
    BY <1>1, PeersFinite DEF TypeOK
  <2> QED BY <2>1, <2>2, PickedIsSum, SumZero
<1>4. TotalWeight \in Int /\ TotalWeight > 0
  BY <1>1, TotalFacts DEF Undisturbed
<1>5. ASSUME NEW x \in Peers
      PROVE  /\ peer[x].fails = 0 /\ peer[x].effective_weight = Weight[x]
             /\ peer[x].current_weight = Share(x)
             /\ peer[x].current_weight > -TotalWeight
  <2>1. peer[x] = [current_weight |-> 0, effective_weight |-> Server(x).weight,
                   conns |-> 0, fails |-> 0, accessed |-> 0, checked |-> 0]
    BY DEF Init
  <2>2. Weight[x] = Server(x).weight /\ Weight[x] \in Int
    BY <1>1, WeightsInt
  <2>3. served[x].count = 0
    BY DEF Init
  <2>4. Share(x) = 0
    <3>1. 0 * Weight[x] = 0 /\ 0 * TotalWeight = 0
      BY <1>4, <2>2
    <3> QED BY <1>3, <2>3, <3>1 DEF Share
  <2> QED BY <1>4, <2>1, <2>2, <2>4
<1> QED BY <1>2, <1>5 DEF ShareInv

LEMMA ShareInvariant == Spec => []ShareInv
<1>1. TypeInv /\ ConnsAccount /\ WeightsBalance /\ ShareInv /\ [Next]_vars => ShareInv'
  BY ShareStep
<1> QED BY <1>1, ConnsInvariant, BalanceCorrect, ShareInit, PTL DEF Spec

-----------------------------------------------------------------------------
(* What the balance of the weights leaves to one peer.                      *)
LEMMA BehindByLess ==
    ASSUME TypeOK, WeightsBalance, Group(TRUE) = {}, NEW p \in Peers,
           \A x \in Peers : peer[x].current_weight > -TotalWeight
    PROVE  peer[p].current_weight <= (Cardinality(Peers) - 1) * (TotalWeight - 1)
<1>1. IsFiniteSet(Peers) /\ Group(FALSE) = Peers
  BY PeersFinite, TotalFacts DEF TypeOK
<1>2. PICK f : f = CurrentWeight
  OBVIOUS
<1>3. \A x \in Peers : f[x] \in Int /\ f[x] = peer[x].current_weight
  BY <1>2, WeightsInt
<1>4. PICK total \in Int : total = TotalWeight
  BY TotalFacts
<1>5. SumFunctionOnSet(f, Peers) = 0
  <2>1. SumFunctionOnSet(CurrentWeight, Group(FALSE)) = 0
    BY Zenon DEF WeightsBalance
  <2> QED BY <1>1, <1>2, <2>1
<1>6. PICK rest \in Int : rest = SumFunctionOnSet(f, Peers \ {p})
  BY <1>1, <1>3, FS_Subset, SumType
<1>7. f[p] + rest = 0
  BY <1>1, <1>3, <1>5, <1>6, SumRemove
<1>8. PICK n \in Nat : n = Cardinality(Peers \ {p}) /\ Cardinality(Peers) = n + 1
  BY <1>1, FS_RemoveElement, FS_CardinalityType, FS_Subset
<1>9. n * (1 - total) <= rest
  <2>1. \A x \in Peers \ {p} : f[x] \in Int /\ 1 - total <= f[x]
    BY <1>3, <1>4
  <2>2. 1 - total \in Int /\ IsFiniteSet(Peers \ {p})
    BY <1>1, FS_Subset
  <2> QED BY <1>6, <1>8, <2>1, <2>2, SumAtLeast
<1>10. n * (1 - total) = -(n * (total - 1)) /\ n * (total - 1) \in Int
  OBVIOUS
<1>11. f[p] <= n * (total - 1)
  BY <1>3, <1>7, <1>9, <1>10
<1>12. Cardinality(Peers) - 1 = n
  BY <1>8
<1> QED BY <1>3, <1>4, <1>11, <1>12

(* After a full round nobody can owe anything without owing a full round.   *)
LEMMA NothingOwed ==
    ASSUME TypeInv, WeightsBalance, ShareInv, Undisturbed, Picked % TotalWeight = 0,
           NEW p \in Peers
    PROVE  peer[p].current_weight = 0
<1>1. /\ TypeOK /\ IsFiniteSet(Peers) /\ Group(FALSE) = Peers
      /\ TotalWeight > 0 /\ TotalWeight \in Int /\ Picked \in Int
  BY PeersFinite, TotalFacts DEF TypeInv, TypeOK, Undisturbed
<1>2. PICK total \in Nat \ {0} : total = TotalWeight
  BY <1>1
<1>3. PICK n \in Int : n = Picked
  BY <1>1
<1>4. PICK k \in Int : n = k * total
  <2>1. n % total = 0
    BY <1>2, <1>3
  <2>2. n = total * (n \div total) + (n % total) /\ n \div total \in Int
    OBVIOUS
  <2>3. n = (n \div total) * total
    BY <2>1, <2>2
  <2> QED BY <2>2, <2>3
<1>5. PICK f : f = CurrentWeight
  OBVIOUS
<1>6. ASSUME NEW x \in Peers PROVE f[x] \in Nat /\ f[x] = peer[x].current_weight
  <2>1. PICK w \in Int : w = Weight[x]
    BY <1>1, WeightsInt
  <2>2. PICK c \in Int : c = served[x].count
    BY <1>1, PeerNumbers
  <2>3. PICK m \in Int : m = k * w - c
    OBVIOUS
  <2>4. peer[x].current_weight = n * w - c * total
    BY <1>2, <1>3, <2>1, <2>2 DEF ShareInv, Share
  <2>5. n * w - c * total = m * total
    BY <1>4, <2>3
  <2>6. peer[x].current_weight = m * total /\ m * total > -total
    BY <1>2, <2>4, <2>5 DEF ShareInv
  <2>7. m >= 0
    BY <2>6
  <2>8. m * total \in Nat
    BY <2>7
  <2> QED BY <1>1, <1>5, <2>6, <2>8, WeightsInt
<1>7. SumFunctionOnSet(f, Peers) = 0
  <2>1. SumFunctionOnSet(CurrentWeight, Group(FALSE)) = 0
    BY Zenon DEF WeightsBalance
  <2> QED BY <1>1, <1>5, <2>1
<1> QED BY <1>1, <1>6, <1>7, SumOfNone

LEMMA ProportionalFollows ==
    ASSUME TypeInv, WeightsBalance, ShareInv
    PROVE  Proportional
<1> SUFFICES ASSUME Undisturbed, NEW p \in Peers
             PROVE  /\ Ahead(p) < TotalWeight
                    /\ Ahead(p) >= -((Cardinality(Peers) - 1) * (TotalWeight - 1))
                    /\ Picked % TotalWeight = 0 => Ahead(p) = 0
  BY DEF Proportional
<1>1. /\ TypeOK /\ Group(TRUE) = {} /\ IsFiniteSet(Peers)
      /\ TotalWeight \in Int /\ Picked \in Int
  BY PeersFinite, TotalFacts DEF TypeInv, TypeOK, Undisturbed
<1>2. PICK total \in Int : total = TotalWeight
  BY <1>1
<1>3. PICK owed \in Int : owed = peer[p].current_weight
  BY <1>1, WeightsInt
<1>4. Ahead(p) = -owed
  <2>1. PICK w \in Int : w = Weight[p]
    BY <1>1, WeightsInt
  <2>2. PICK c \in Int : c = served[p].count
    BY <1>1, PeerNumbers
  <2>3. PICK n \in Int : n = Picked
    BY <1>1
  <2>4. owed = n * w - c * total
    BY <1>2, <1>3, <2>1, <2>2, <2>3 DEF ShareInv, Share
  <2>5. Ahead(p) = c * total - n * w
    BY <1>2, <2>1, <2>2, <2>3 DEF Ahead
  <2>6. n * w \in Int /\ c * total \in Int
    OBVIOUS
  <2> QED BY <2>4, <2>5, <2>6
<1>5. owed > -total
  BY <1>2, <1>3 DEF ShareInv
<1>6. PICK most \in Int : most = (Cardinality(Peers) - 1) * (TotalWeight - 1)
  <2>1. Cardinality(Peers) \in Int
    BY <1>1, FS_CardinalityType
  <2> QED BY <1>1, <2>1
<1>7. owed <= most
  <2>1. \A x \in Peers : peer[x].current_weight > -TotalWeight
    BY DEF ShareInv
  <2> QED BY <1>1, <1>3, <1>6, <2>1, BehindByLess
<1>8. Picked % TotalWeight = 0 => owed = 0
  BY <1>3, NothingOwed
<1> QED BY <1>2, <1>4, <1>5, <1>6, <1>7, <1>8

(* ngx_http_upstream_get_peer keeps the promise of a weighted round robin   *)
(* for every number of servers and every weights: as long as nothing fails  *)
(* and nothing limits a server, each has exactly its share after each full  *)
(* round, is never a whole request ahead of it, and behind it by less than  *)
(* one request for each other server.                                       *)
THEOREM ShareCorrect == Spec => []Proportional
<1>1. TypeInv /\ WeightsBalance /\ ShareInv => Proportional
  BY ProportionalFollows
<1> QED BY <1>1, ConnsInvariant, BalanceCorrect, ShareInvariant, PTL
===============================================================================
