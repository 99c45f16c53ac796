-------------------------- MODULE UpstreamProperties --------------------------
(***************************************************************************)
(* What makes the choice of servers in Upstream correct.                   *)
(***************************************************************************)
EXTENDS Upstream

(* Type invariant of Upstream; effective_weight lies between 0 and weight.  *)
Entry(p) == [current_weight : Int, effective_weight : 0 .. Server(p).weight,
             conns : Nat, fails : Nat, accessed : Nat, checked : Nat]
TypeOK ==
    /\ up \in Upstreams
    /\ DOMAIN peer = Peers /\ \A p \in Peers : peer[p] \in Entry(p)
    /\ req \in [Requests -> [state : {"new", "ready", "holding", "busy"},
                             backup : BOOLEAN, tried : SUBSET Peers,
                             current : Peers \cup {NoPeer}, tries : Nat,
                             addr : Addresses \cup {<<>>}, hash : Nat,
                             hash_tries : 0 .. 21, past : SUBSET Peers, since : Nat]]
    /\ now \in Nat
    /\ served \in [Peers -> [count : Nat, last : Nat]]
    /\ failures \in 0 .. MaxFailures

(* The counters of connections are the requests that hold the peer, through *)
(* failures and retries, and do not exceed max_conns.                       *)
Holders(p) == {r \in Requests : req[r].state = "holding" /\ req[r].current = p}
ConnsAccount ==
    \A p \in Peers :
        /\ peer[p].conns = Cardinality(Holders(p))
        /\ Server(p).max_conns # 0 => peer[p].conns <= Server(p).max_conns

(* What the chosen peer pays is what the others gain: in each group the     *)
(* current weights add up to 0, whoever was left out of a turn.             *)
CurrentWeight == [p \in Peers |-> peer[p].current_weight]
WeightsBalance ==
    \A b \in BOOLEAN : SumFunctionOnSet(CurrentWeight, Group(b)) = 0

(* "Out of every 6 requests, 5 are sent to backend1 and 1 to backend2": as  *)
(* long as nothing failed and nothing limits a peer, each has had exactly    *)
(* its share after each full round of the total weight, and in between it    *)
(* is never ahead of it by a whole request, and behind by less than one for  *)
(* each other peer.                                                         *)
Undisturbed ==
    /\ up.method = "round_robin" /\ failures = 0 /\ Group(TRUE) = {}
    /\ \A p \in Peers : ~Server(p).down /\ Server(p).max_conns = 0
Picked == SumFunction([p \in Peers |-> served[p].count])
Ahead(p) == served[p].count * TotalWeight - Picked * Weight[p]
Proportional ==
    Undisturbed =>
        \A p \in Peers :
            /\ Ahead(p) < TotalWeight
            /\ Ahead(p) >= -((Cardinality(Peers) - 1) * (TotalWeight - 1))
            /\ Picked % TotalWeight = 0 => Ahead(p) = 0

Picks(r) == req[r].state = "ready" /\ req'[r].state = "holding"

(* A request is not sent to a peer that it has been sent to already.        *)
NeverTwice ==
    [][\A r \in Requests : Picks(r) => req'[r].current \notin req[r].past]_vars

(* A request leaves a group of peers, for the backup servers or with        *)
(* NGX_BUSY, only when every peer of the group was tried or cannot be given *)
(* out, whatever the hash of the client did.                                *)
Useless(r, p) == p \in req[r].past \/ Server(p).down \/ Full(p) \/ Refused(p)
NotPassedOver ==
    [][\A r \in Requests :
        /\ ~req[r].backup /\ req'[r].backup => \A p \in Group(FALSE) : Useless(r, p)
        /\ req[r].state = "ready" /\ req'[r].state = "busy" =>
                \A p \in Group(req'[r].backup) : Useless(r, p)]_vars

(* A peer that is disabled by its failures is checked with one request in   *)
(* every fail_timeout, not more.                                            *)
OneProbe ==
    [][\A p \in Peers :
        /\ ~Single /\ served'[p] # served[p]
        /\ Server(p).max_fails # 0 /\ peer[p].fails >= Server(p).max_fails
        => now - served[p].last > Server(p).fail_timeout]_vars

(* "Mark peer live if check passed": a disabled peer is enabled again by a  *)
(* request that was sent to it after it had failed for the last time.       *)
EnabledByCheck ==
    [][\A r \in Requests :
        LET p == req[r].current IN
        /\ req[r].state = "holding" /\ req'[r].state # "holding"
        /\ Server(p).max_fails # 0
        /\ peer[p].fails >= Server(p).max_fails /\ peer'[p].fails = 0
        => req[r].since >= peer[p].accessed]_vars
=============================================================================
