------------------------------- MODULE Upstream -------------------------------
(***************************************************************************)
(* The servers of one upstream block and the choice of one for each        *)
(* request, by round robin, least connections or the hash of the client's  *)
(* address (ngx_http_upstream_round_robin.c, ..._least_conn_module.c,       *)
(* ..._ip_hash_module.c), in one worker process.                           *)
(*                                                                         *)
(* The rlock, wlock and lock macros are empty: a call of get or free runs  *)
(* without interruption in the event loop, and what interleaves are the    *)
(* calls of different requests and the passing of time.  The caller,       *)
(* ngx_http_upstream.c, is not in the repository: it calls get, then free  *)
(* with the outcome, then get again while tries are left, and gives up     *)
(* when get returns NGX_BUSY.                                              *)
(*                                                                         *)
(* A peer is a server of the block and one of its addresses; peers are     *)
(* linked in this order.  The bitmap tried is a set.                       *)
(***************************************************************************)
EXTENDS Integers, Sequences, FiniteSets, Functions

CONSTANTS
    Upstreams,    \* the configurations: a method and the list of servers
    Requests,
    Addresses,    \* of clients, as sequences of bytes
    Epoch,        \* the time at the start, later than every fail_timeout
    Seconds,      \* bound on the time that passes
    MaxPicks,     \* bound on the peers given out
    MaxFailures   \* bound on the failures of peers

Servers == [naddrs : Nat \ {0}, weight : Nat \ {0}, max_conns : Nat, max_fails : Nat,
            fail_timeout : Nat, down : BOOLEAN, backup : BOOLEAN]

(* ngx_http_upstream_init_round_robin refuses a block without a server that *)
(* is not a backup; ip_hash does not take backup servers.                   *)
ASSUME UpstreamAssumption ==
    /\ \A u \in Upstreams :
        /\ u.method \in {"round_robin", "least_conn", "ip_hash"}
        /\ u.servers \in Seq(Servers)
        /\ \E i \in DOMAIN u.servers : ~u.servers[i].backup
        /\ u.method = "ip_hash" => \A i \in DOMAIN u.servers : ~u.servers[i].backup
        /\ \A i \in DOMAIN u.servers : u.servers[i].fail_timeout < Epoch
    /\ \A a \in Addresses : a \in Seq(0 .. 255)
    /\ IsFiniteSet(Requests)
    /\ Epoch \in Nat /\ Seconds \in Nat /\ MaxPicks \in Nat /\ MaxFailures \in Nat

VARIABLES
    up,        \* the configuration
    peer,      \* ngx_http_upstream_rr_peer_t, for each peer
    req,       \* ngx_http_upstream_rr_peer_data_t and tries, for each request
    now,       \* ngx_time()
    served,    \* auxiliary: how often each peer was given out, and when last
    failures   \* so far

vars == <<up, peer, req, now, served, failures>>

-----------------------------------------------------------------------------
(* The two lists of peers.                                                  *)
Server(p) == up.servers[p[1]]
PeersOf(u) == UNION {{i} \X (1 .. u.servers[i].naddrs) : i \in DOMAIN u.servers}
Peers == PeersOf(up)
Group(backup) == {p \in Peers : Server(p).backup = backup}
Before(p, q) == p[1] < q[1] \/ (p[1] = q[1] /\ p[2] < q[2])

Weight == [p \in Peers |-> Server(p).weight]
TotalWeight == SumFunctionOnSet(Weight, Group(FALSE))

(* Without backup servers and with one peer there is no choice.             *)
Single == Cardinality(Group(FALSE)) = 1 /\ Group(TRUE) = {}

NoPeer == <<0, 0>>
NewRequest == [state |-> "new", backup |-> FALSE, tried |-> {}, current |-> NoPeer,
               tries |-> 0, addr |-> <<>>, hash |-> 0, hash_tries |-> 0,
               past |-> {}, since |-> 0]   \* past, since: auxiliary

Init ==
    /\ up \in Upstreams
    /\ peer = [p \in Peers |->
                  [current_weight |-> 0, effective_weight |-> Server(p).weight,
                   conns |-> 0, fails |-> 0, accessed |-> 0, checked |-> 0]]
    /\ req = [r \in Requests |-> NewRequest]
    /\ now = Epoch
    /\ served = [p \in Peers |-> [count |-> 0, last |-> 0]]
    /\ failures = 0

(* ngx_http_upstream_init_round_robin_peer, and what least_conn and ip_hash *)
(* add to it.                                                               *)
InitPeer(r) ==
    /\ req[r].state = "new"
    /\ \E a \in Addresses :
        req' = [req EXCEPT ![r] = [NewRequest EXCEPT !.state = "ready", !.addr = a,
                                                     !.tries = Cardinality(Peers)]]
    /\ UNCHANGED <<up, peer, now, served, failures>>

-----------------------------------------------------------------------------
(* Can the peer be given out?                                               *)
Refused(p) ==
    /\ Server(p).max_fails # 0 /\ peer[p].fails >= Server(p).max_fails
    /\ now - peer[p].checked <= Server(p).fail_timeout

Full(p) == Server(p).max_conns # 0 /\ peer[p].conns >= Server(p).max_conns

Available(p) == ~Server(p).down /\ ~Refused(p) /\ ~Full(p)

Candidates(q) == {p \in Group(q.backup) \ q.tried : Available(p)}

(* Peer p of the changed table t is given to r, whose data are now q.       *)
Give(r, q, p, t) ==
    /\ SumFunction([x \in Peers |-> served[x].count]) < MaxPicks
    /\ peer' = [t EXCEPT ![p].conns = @ + 1]
    /\ req' = [req EXCEPT ![r] = [q EXCEPT !.state = "holding", !.current = p,
                                           !.past = @ \cup {p}, !.since = now]]
    /\ served' = [served EXCEPT ![p] = [count |-> @.count + 1, last |-> now]]
    /\ UNCHANGED <<up, now, failures>>

Busy(r, q) ==
    /\ req' = [req EXCEPT ![r] = [q EXCEPT !.state = "busy"]]
    /\ UNCHANGED <<up, peer, now, served, failures>>

(* Mutant of Probe: the time of the check is not noted.                     *)
ProbeUnnoted(t, p) == t

(* A peer that was not checked for its fail_timeout is checked by this one. *)
Probe(t, p) ==
    IF now - t[p].checked > Server(p).fail_timeout THEN [t EXCEPT ![p].checked = now]
                                                   ELSE t

(* Mutant of Tried: the bit is not set.                                     *)
TriedForgets(q, p) == q

Tried(q, p) == [q EXCEPT !.tried = @ \cup {p}]

-----------------------------------------------------------------------------
(* One turn of the smooth weighted round robin among the peers in C: every  *)
(* one gains its effective weight, the richest is chosen and pays for all.  *)
Gained(p) == peer[p].current_weight + peer[p].effective_weight

(* Mutant of Richest: chosen by the weights alone.                          *)
RichestConfigured(C) ==
    CHOOSE p \in C : \A q \in C \ {p} : \/ Weight[q] < Weight[p]
                                        \/ Weight[q] = Weight[p] /\ Before(p, q)

Richest(C) ==
    CHOOSE p \in C : \A q \in C \ {p} : \/ Gained(q) < Gained(p)
                                        \/ Gained(q) = Gained(p) /\ Before(p, q)

(* Mutant of Price: the weights as configured.                              *)
PriceConfigured(C) == SumFunctionOnSet(Weight, C)

Price(C) == SumFunctionOnSet([p \in C |-> peer[p].effective_weight], C)

Recovered(p) == IF peer[p].effective_weight < Server(p).weight
                THEN peer[p].effective_weight + 1 ELSE peer[p].effective_weight

Turn(C) ==
    [p \in Peers |->
        IF p \notin C THEN peer[p]
        ELSE [peer[p] EXCEPT !.current_weight = Gained(p) -
                                 (IF p = Richest(C) THEN Price(C) ELSE 0),
                             !.effective_weight = Recovered(p)]]

(* The peers with the fewest connections for their weight; only when there  *)
(* are several do they take a turn.                                         *)
Least(C) ==
    {p \in C : \A q \in C : peer[p].conns * Weight[q] <= peer[q].conns * Weight[p]}

(* r gets one of the available peers C; tried and current are in q.         *)
Choose(r, q, C) ==
    LET T == IF up.method = "least_conn" THEN Least(C) ELSE C
        best == Richest(T)
        t == IF up.method = "least_conn" /\ Cardinality(T) = 1 THEN peer ELSE Turn(T)
    IN  Give(r, Tried(q, best), best, Probe(t, best))

-----------------------------------------------------------------------------
(***************************************************************************)
(* The hash of the first bytes of the client's address points at a peer,   *)
(* in proportion to the weights; a peer that is not available or tried     *)
(* already leads to the next hash, 20 times at most for a request.         *)
(***************************************************************************)
Hash(h, a) ==
    LET f[i \in 0 .. Len(a)] == IF i = 0 THEN h ELSE (f[i - 1] * 113 + a[i]) % 6271
    IN  f[Len(a)]

(* The hashes of a client, one after the other; a request keeps its place.  *)
Hashes ==
    [a \in Addresses |->
        LET h[k \in 0 .. MaxPicks + 21] == IF k = 0 THEN 89 ELSE Hash(h[k - 1], a) IN h]

(* The weights of the peers are laid end to end.                            *)
PeerAt(u, h) ==
    LET weight == [p \in PeersOf(u) |-> u.servers[p[1]].weight]
        from(p) == SumFunctionOnSet(weight, {q \in PeersOf(u) : Before(q, p)})
        w == h % SumFunction(weight)
    IN  CHOOSE p \in PeersOf(u) : from(p) <= w /\ w < from(p) + weight[p]

HashPeers ==
    [u \in Upstreams |-> [a \in Addresses |->
        [k \in 1 .. MaxPicks + 21 |-> PeerAt(u, Hashes[a][k])]]]

ByHash(r) == up.method = "ip_hash" /\ ~Single /\ req[r].hash_tries <= 20
HashPeer(r, k) == HashPeers[up][req[r].addr][req[r].hash + k]

(* The number of hashes to take until one leads to a peer for r.            *)
Hit(r, k) ==
    /\ k <= 21 - req[r].hash_tries
    /\ HashPeer(r, k) \in Candidates(req[r])
    /\ \A l \in 1 .. k - 1 : HashPeer(r, l) \notin Candidates(req[r])
Hits(r) == {k \in 1 .. 21 : Hit(r, k)}

GetIpHash(r) ==
    /\ req[r].state = "ready" /\ ByHash(r)
    /\ \E k \in Hits(r) :
        LET p == HashPeer(r, k)
            q == [req[r] EXCEPT !.hash = @ + k, !.hash_tries = @ + k - 1]
        IN  Give(r, Tried(q, p), p, Probe(peer, p))

(* Otherwise r goes on with round robin, and for good.                      *)
Rehash(r) == [req[r] EXCEPT !.hash_tries = 21]
Data(r) == IF ByHash(r) THEN Rehash(r) ELSE req[r]

-----------------------------------------------------------------------------
(***************************************************************************)
(* ngx_http_upstream_get_round_robin_peer and                              *)
(* ngx_http_upstream_get_least_conn_peer.                                  *)
(***************************************************************************)
Asks(r) == req[r].state = "ready" /\ ~(ByHash(r) /\ Hits(r) # {})

GetSingle(r) ==
    /\ Asks(r) /\ Single
    /\ \E p \in Peers :
        IF Server(p).down \/ Full(p) THEN Busy(r, req[r]) ELSE Give(r, req[r], p, peer)

GetPeer(r) ==
    /\ Asks(r) /\ ~Single
    /\ Candidates(Data(r)) # {}
    /\ Choose(r, Data(r), Candidates(Data(r)))

(* Mutant of NoneLeft: backup servers are used when one peer was tried.     *)
NoneLeftTried(q) == Candidates(q) = {} \/ q.tried # {}

NoneLeft(q) == Candidates(q) = {}

(* No peer is left: r changes to the backup servers, once.                  *)
ToBackup(q) == [q EXCEPT !.backup = TRUE, !.tried = {}]

GetBackup(r) ==
    /\ Asks(r) /\ ~Single
    /\ NoneLeft(Data(r)) /\ ~req[r].backup /\ Group(TRUE) # {}
    /\ LET q == ToBackup(Data(r)) IN
        IF Candidates(q) = {} THEN Busy(r, q) ELSE Choose(r, q, Candidates(q))

GetBusy(r) ==
    /\ Asks(r) /\ ~Single
    /\ Candidates(Data(r)) = {} /\ (req[r].backup \/ Group(TRUE) = {})
    /\ Busy(r, Data(r))

-----------------------------------------------------------------------------
(***************************************************************************)
(* ngx_http_upstream_free_round_robin_peer, for all three methods.         *)
(***************************************************************************)
(* Mutant of Punished: the weight may become negative.                      *)
PunishedBelowZero(e, s) ==
    [e EXCEPT !.fails = @ + 1, !.accessed = now, !.checked = now,
              !.effective_weight = IF s.max_fails = 0 THEN @
                                   ELSE @ - (s.weight \div s.max_fails)]

Punished(e, s) ==
    LET rest == IF s.max_fails = 0 THEN e.effective_weight
                ELSE e.effective_weight - (s.weight \div s.max_fails)
    IN  [e EXCEPT !.fails = @ + 1, !.accessed = now, !.checked = now,
                  !.effective_weight = IF rest < 0 THEN 0 ELSE rest]

Passed(e) == IF e.accessed < e.checked THEN [e EXCEPT !.fails = 0] ELSE e

(* Mutant of Released: the connection of a failed request is not given back. *)
ReleasedIfPassed(e, failed) == IF failed THEN e ELSE [e EXCEPT !.conns = @ - 1]

Released(e, failed) == [e EXCEPT !.conns = @ - 1]

(* The request goes on while it has tries left; its caller may also stop.   *)
Free(r, failed) ==
    LET p == req[r].current
        e == IF Single THEN peer[p]
             ELSE IF failed THEN Punished(peer[p], Server(p)) ELSE Passed(peer[p])
        left == IF Single THEN 0 ELSE IF req[r].tries > 0 THEN req[r].tries - 1 ELSE 0
    IN  /\ req[r].state = "holding"
        /\ peer' = [peer EXCEPT ![p] = Released(e, failed)]
        /\ \/ /\ failed /\ left > 0
              /\ req' = [req EXCEPT ![r].state = "ready", ![r].tries = left]
           \/ req' = [req EXCEPT ![r] = NewRequest]
        /\ IF failed THEN failures < MaxFailures /\ failures' = failures + 1
                     ELSE UNCHANGED failures
        /\ UNCHANGED <<up, now, served>>

(* NGX_BUSY: the caller ends the request.                                   *)
Finalize(r) ==
    /\ req[r].state = "busy"
    /\ req' = [req EXCEPT ![r] = NewRequest]
    /\ UNCHANGED <<up, peer, now, served, failures>>

Tick ==
    /\ now < Epoch + Seconds
    /\ now' = now + 1
    /\ UNCHANGED <<up, peer, req, served, failures>>

Get(r) == GetSingle(r) \/ GetIpHash(r) \/ GetPeer(r) \/ GetBackup(r) \/ GetBusy(r)

Next ==
    \/ \E r \in Requests :
        InitPeer(r) \/ Get(r) \/ Free(r, TRUE) \/ Free(r, FALSE) \/ Finalize(r)
    \/ Tick

Spec == Init /\ [][Next]_vars
=============================================================================
