------------------------------ MODULE MCCycle ------------------------------
(* Instances of Cycle for TLC. *)
EXTENDS CycleProperties

Zones(seq) == [k \in DOMAIN seq |-> [name |-> seq[k][1], size |-> seq[k][2], tag |-> seq[k][3]]]
Tcp == [addr |-> "80", type |-> "stream"]
Udp == [addr |-> "80", type |-> "datagram"]
Path == [addr |-> "unix:a", type |-> "stream"]

(* One zone that is reused, one socket. *)
Plain == [zones |-> Zones(<<<<"z", 1, "cache">>>>), files |-> <<"stderr", "log">>,
          listen |-> <<Tcp>>, pid |-> "pid1", environment |-> FALSE]
(* Keeps the zone (named twice), adds one that is never reused, a unix socket,
   a log, another pid file and its own environment. *)
Grown == [zones |-> Zones(<<<<"z", 0, "cache">>, <<"u", 1, "upstream">>, <<"z", 1, "cache">>>>),
          files |-> <<"log", "access">>,
          listen |-> <<Path, Tcp>>, pid |-> "pid2", environment |-> TRUE]
(* The zone has another size; each worker has a socket of its own. *)
Changed == [zones |-> Zones(<<<<"z", 2, "cache">>, <<"u", 1, "upstream">>>>),
            files |-> <<"log">>,
            listen |-> <<Tcp, Udp, Tcp>>, pid |-> "pid1", environment |-> FALSE]
(* Refused when read, and refused when its zones are made, after the pid file. *)
Conflict == [Plain EXCEPT !.zones = Zones(<<<<"z", 1, "cache">>, <<"z", 1, "limit">>>>)]
Unsized == [Plain EXCEPT !.zones = Zones(<<<<"z", 0, "cache">>>>), !.pid = "pid2"]

All == {Plain, Grown, Changed, Conflict, Unsized}
PlainUnsized == {Plain, Unsized}
FromOldBinary == <<[at |-> Tcp, ignore |-> FALSE], [at |-> Path, ignore |-> FALSE],
                   [at |-> Udp, ignore |-> TRUE]>>
Nothing == <<>>
=============================================================================
