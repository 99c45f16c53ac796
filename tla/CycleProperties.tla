-------------------------- MODULE CycleProperties --------------------------
(***************************************************************************)
(* What makes loading a configuration in Cycle correct.                    *)
(***************************************************************************)
EXTENDS Cycle

(* The cycle in force: the new one from the moment it is committed, also if *)
(* the process then exits before it is done with the old one.               *)
Committed == at \in {"free", "close", "close_files", "finish"}
CommittedLast == at = "exited" /\ ~ngx_is_init_cycle(new) /\ new.id \in committed
InForce == IF Committed \/ CommittedLast THEN new ELSE old

(* At every step of a load, also one that will fail, whatever the process   *)
(* uses is there: each file and socket of the cycle in force is open and is *)
(* what the cycle takes it for, its zones are allocated, its unix sockets   *)
(* can be reached, and no pool with connections has been destroyed.         *)
InForceIntact ==
    at # "exited" =>
        /\ \A f \in Range(InForce.files) :
              f.fd \in DOMAIN fds /\ fds[f.fd] = FileOf(f.name)
        /\ \A l \in Range(InForce.listening) :
              /\ l.fd \in DOMAIN fds
              /\ "at" \in DOMAIN fds[l.fd] /\ fds[l.fd].at = l.at
              /\ l.at.addr \in Unix => l.at.addr \in sockfiles
        /\ \A z \in Range(InForce.zones) : z.addr \in shm
        /\ InForce.id \in pools /\ live \subseteq pools

(* Between loads nothing is left of other cycles, however the loads before  *)
(* went: every descriptor has one user, a zone that was ever in force and   *)
(* is not now has been freed, and only kept old cycles have pools.  (What   *)
(* failed loads leave behind, a pid file and zones, is the subject of       *)
(* RolledBack.)                                                             *)
Users(n) == {<<"file", k>> : k \in {j \in DOMAIN old.files : old.files[j].fd = n}}
            \cup {<<"socket", k>> : k \in {j \in DOMAIN old.listening :
                                             old.listening[j].fd = n}}
NothingLeft ==
    at = "idle" =>
        /\ \A n \in DOMAIN fds \ {0} : Cardinality(Users(n)) = 1 \/ fds[n] = PidFd
        /\ \A s \in shm : s.by \in committed => \E z \in Range(old.zones) : z.addr = s
        /\ pools = {old.id} \cup (Range(old_cycles) \ {0})

(* To the outside a load is one step: the new configuration comes into      *)
(* force with its sockets, those in common without interruption, or nothing *)
(* happens.                                                                 *)
Listening == {fds[l.fd] : l \in {k \in Range(InForce.listening) :
                                    ~k.ignore /\ k.fd \in DOMAIN fds}}
Abstract == INSTANCE Reload WITH
    conf <- InForce.conf,
    asked <- IF at \in {"idle", "reopen", "exited"} \/ Committed THEN NoConf ELSE new.conf,
    sockets <- Listening
ImplementsReload == Abstract!Spec

(* A rolled-back load leaves everything as it was ("rollback the new cycle  *)
(* configuration").                                                         *)
RolledBack ==
    [][at = "failed" /\ at' = "idle" =>
          <<fds', shm', disk', environ'>> =
          <<before.fds, before.shm, before.disk, before.environ>>]_vars

(* The event loop goes on, and comes back to its timers between two loads.  *)
FairSpec == Spec /\ WF_vars(Load \/ ReopenFile) /\ SF_vars(ngx_clean_old_cycles)

(* An old cycle is destroyed once its last connection is closed, whatever   *)
(* other cycles have become old, been cleaned or been kept meanwhile.       *)
OldCyclesFreed ==
    \A c \in 1 .. MaxCycles :
        c \in Range(old_cycles) /\ c \notin live ~> c \notin pools \/ at = "exited"
=============================================================================
