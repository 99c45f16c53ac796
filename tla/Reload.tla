------------------------------- MODULE Reload -------------------------------
(***************************************************************************)
(* What a reconfiguration promises to the outside: a configuration that is *)
(* asked for comes into force as a whole or not at all, and a socket for   *)
(* which both configurations have a use is never closed in between, so no  *)
(* connection is refused.  Cycle implements this.                          *)
(***************************************************************************)
EXTENDS Naturals, FiniteSets

CONSTANTS Confs, NoConf

VARIABLES conf,     \* the configuration in force
          asked,    \* the one that is being loaded, or NoConf
          sockets   \* the sockets that are listened on

(* The uses a configuration has for sockets of an address and type: several *)
(* when each worker has a socket of its own.                                *)
Wanted(c, l) == Cardinality({k \in DOMAIN c.listen : c.listen[k] = l})
At(S, l) == {s \in S : s.at = l}
Lesser(m, n) == IF m < n THEN m ELSE n

Init == conf = NoConf /\ asked = NoConf

Ask(c) == asked = NoConf /\ asked' = c /\ UNCHANGED <<conf, sockets>>

Succeed ==
    /\ asked # NoConf
    /\ conf' = asked /\ asked' = NoConf
    /\ \A l \in {s.at : s \in sockets \cup sockets'} :
        /\ Cardinality(At(sockets', l)) = Wanted(asked, l)
        /\ Cardinality(At(sockets', l) \cap sockets) =
               Lesser(Cardinality(At(sockets, l)), Wanted(asked, l))

Fail == asked # NoConf /\ asked' = NoConf /\ UNCHANGED <<conf, sockets>>

Next == (\E c \in Confs : Ask(c)) \/ Succeed \/ Fail

Spec == Init /\ [][Next]_<<conf, asked, sockets>>
=============================================================================
