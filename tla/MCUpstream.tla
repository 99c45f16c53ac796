------------------------------ MODULE MCUpstream ------------------------------
(* Instances of Upstream for TLC. *)
EXTENDS UpstreamProperties, TLC

Plain == [naddrs |-> 1, weight |-> 1, max_conns |-> 0, max_fails |-> 1,
          fail_timeout |-> 1, down |-> FALSE, backup |-> FALSE]
Heavy == [Plain EXCEPT !.weight = 3, !.max_fails = 2]
Limited == [Plain EXCEPT !.max_conns = 1]
Backup == [Plain EXCEPT !.backup = TRUE]
Down == [Plain EXCEPT !.down = TRUE]
Unlimited == [Plain EXCEPT !.max_fails = 0]

Upstream(method, servers) == [method |-> method, servers |-> servers]

Blocks == {
    Upstream("round_robin", <<Limited>>),
    Upstream("round_robin", <<Heavy, Backup, Limited>>),
    Upstream("round_robin", <<Heavy, Plain, Unlimited>>),
    Upstream("least_conn", <<Heavy, Plain, Backup>>),
    Upstream("ip_hash", <<Unlimited, Down, Limited>>)}

OldRequests == {Upstream("round_robin", <<Plain, Plain>>)}

Clients == {<<10, 0, 1>>, <<10, 0, 2>>}
OneClient == {<<10, 0, 1>>}

RequestSymmetry == Permutations(Requests)
=============================================================================
