--------------------------- MODULE MasterProperties ---------------------------
(***************************************************************************)
(* What makes the control of the child processes in Master correct.        *)
(***************************************************************************)
EXTENDS Master

(* Type invariant of Master. *)
Entries == [pid : Pids \cup {None, 0}, exited : BOOLEAN, exiting : BOOLEAN,
            respawn : BOOLEAN, just_spawn : BOOLEAN, detached : BOOLEAN,
            kind : {"none", "worker", "manager", "loader", "binary"},
            channel : Pids \cup {None, Stale}]
Flags == {"reap", "sigalrm", "restart", "quit", "terminate", "reconfigure", "reopen",
          "change_binary", "noaccept"}
TypeOK ==
    /\ at \in {"start", "top", "suspend", "reap", "check", "signal", "reconfigure",
               "reconfigured", "restart", "reopen", "change_binary", "noaccept",
               "exited"}
    /\ loop.i \in Nat
    /\ flags \subseteq Flags
    /\ new_binary \in Pids \cup {0, InvalidPid}
    /\ noaccepting \in BOOLEAN /\ live \in BOOLEAN
    /\ delay \in Nat /\ sigio \in Nat
    /\ proc \in [Slots -> Entries] /\ last \in 0 .. MaxProcesses /\ slot \in Slots
    /\ pending \subseteq Flags \cup {"sigio"}
    /\ timer \in BOOLEAN
    /\ child \in [Pids -> [state : {"none", "init", "run", "exiting", "zombie", "reaped"},
                           kind : {"none", "worker", "manager", "loader", "binary"},
                           code : 0 .. 2,
                           flags : SUBSET {"quit", "terminate", "reopen", "kill"}]]
    /\ \A p \in Pids : Len(inbox[p]) <= ChannelSize
    /\ view \in [Pids -> [Slots -> Pids \cup {None, Stale}]]
    /\ nextPid \in 1 .. MaxPid + 1

(* The slots of p. *)
SlotsOf(p) == {s \in Used : proc[s].pid = p}

(* ngx_processes loses nobody: a child that was not waited for is in        *)
(* exactly one used slot, not marked exited, whatever reaping, respawning,  *)
(* shrinking of ngx_last_process and reuse of slots went on around it.      *)
NoForgottenChild ==
    Up => \A p \in Pids :
            Alive(p) \/ child[p].state = "zombie" =>
                \E s \in Used : SlotsOf(p) = {s} /\ ~proc[s].exited

(* A signal is sent to processes that are still the master's children: the  *)
(* pid of a child that was waited for may belong to another process by now. *)
(* (When a respawn fails its slot keeps the old pid.)                       *)
SignalsOwnChildren ==
    InSignal /\ ~Skipped /\ budget.faults = MaxFaults =>
        child[Entry.pid].state \notin {"none", "reaped"}

(* The master is the last to leave: when it exits, no worker or cache       *)
(* process is left without one ("worker supervision", "exit with cleanup"). *)
MasterLeavesLast ==
    ~Up => \A p \in Pids : child[p].kind # "binary" =>
                child[p].state \in {"none", "zombie", "reaped"}

(* No more workers serve than worker_processes asks for: all others in the  *)
(* table were told to leave.                                                *)
Serving == {s \in Used : /\ proc[s].kind = "worker" /\ proc[s].pid # None
                         /\ ~proc[s].exited /\ ~proc[s].exiting}
NoExtraWorkers == at = "suspend" => Cardinality(Serving) <= WorkerProcesses

(* Once the master was told to quit or terminate it creates no process any  *)
(* more, by whatever way its round got there.                               *)
NoSpawnWhenStopping == [][Stopping => nextPid' = nextPid]_vars

(* A child that has read all its messages knows the channels of the others: *)
(* for every slot in use its own table has the channel the master has, and  *)
(* none for a slot whose process is gone.                                   *)
ViewsAgree ==
    at = "suspend" =>
        \A p \in Pids : \A s \in Slots :
            /\ child[p].state \in {"run", "exiting"} /\ child[p].kind # "binary"
            /\ inbox[p] = <<>> /\ proc[s].pid # p
            => view[p][s] = proc[s].channel

-----------------------------------------------------------------------------
(* Fairness: the master and its timer go on; children, where assumed fair,  *)
(* read their channels and, told to quit, finish their connections.         *)
MasterFairness == WF_vars(MasterStep) /\ WF_vars(Up /\ Alarm)
ChildFairness == \A p \in Pids : WF_vars(ChildStep(p))
FairSpec == Spec /\ MasterFairness

(* A master told to quit or terminate does, when its children cooperate.    *)
StopTerminates == ChildFairness => (Stopping ~> ~Up)

(* A master told to terminate does even if no child ever reacts, by the     *)
(* growing delay after which it kills them.                                 *)
TerminateKills == "terminate" \in flags ~> ~Up

(* Supervision: after the last signal, reconfiguration and crash there are  *)
(* again (at least) worker_processes workers serving, all alive, unless they *)
(* were told to stop or one of them gave up with the fatal code 2 (children *)
(* cooperating).                                                            *)
Supervising ==
    /\ Up /\ ~Stopping /\ ~noaccepting
    /\ \A p \in Pids : child[p].code # 2
FullStrength ==
    /\ Cardinality(Serving) >= WorkerProcesses
    /\ \A s \in Serving : Alive(proc[s].pid)
Supervised == ChildFairness => <>[](Supervising => FullStrength)
=============================================================================
