-------------------------------- MODULE Master --------------------------------
(***************************************************************************)
(* The master process, the table ngx_processes of its children, and the    *)
(* children as far as the master sees them (ngx_process_cycle.c,           *)
(* ngx_process.c).                                                         *)
(*                                                                         *)
(* The master blocks every signal except inside sigsuspend, so a signal    *)
(* stays pending until then and a round of ngx_master_process_cycle runs   *)
(* without handlers; its children run all the while.  The round is split   *)
(* into one action per test of a flag and one per turn of the loops over   *)
(* the table.  A child gets commands through a channel (a socketpair whose *)
(* two ends the master keeps, so that writing to a dead child succeeds) or *)
(* by kill.  A channel is identified by the pid it was made for.           *)
(***************************************************************************)
EXTENDS Integers, Sequences, FiniteSets, Functions

CONSTANTS
    Kinds,         \* what one start makes, in order: workers, cache processes
    MaxProcesses,  \* NGX_MAX_PROCESSES
    ChannelSize,   \* messages that fit into a channel
    Signals,       \* signals an administrator may send to the master
    MaxSignals,    \* bound on their number
    MaxCrashes,    \* bound on the children that end by themselves
    MaxFaults,     \* bound on system calls that fail
    MaxPid,        \* bound on the processes ever created
    FirstDelay,    \* 50: the first wait after a TERM, in ms
    KillDelay      \* 1000: beyond this wait children are killed

ASSUME MasterAssumption ==
    /\ Kinds \in Seq({"worker", "manager", "loader"})
    /\ "loader" \in Range(Kinds) => "manager" \in Range(Kinds)
    /\ MaxProcesses \in Nat \ {0} /\ ChannelSize \in Nat \ {0}
    /\ Signals \subseteq {"quit", "terminate", "reconfigure", "reopen",
                          "change_binary", "noaccept", "sigio"}
    /\ MaxSignals \in Nat /\ MaxCrashes \in Nat /\ MaxFaults \in Nat
    /\ MaxPid \in Nat
    /\ FirstDelay \in Nat \ {0} /\ KillDelay \in Nat

VARIABLES
    at,        \* where the master is in ngx_master_process_cycle
    loop,      \* the loop it is in: index, what it does, where it goes then
    flags,     \* the global variables ngx_reap, ngx_quit, ... that are set
    new_binary, \* ngx_new_binary: 0, a pid, or -1 after a failed start
    noaccepting,
    live, delay, sigio,  \* locals of ngx_master_process_cycle
    proc,      \* ngx_processes
    last,      \* ngx_last_process
    slot,      \* ngx_process_slot
    pending,   \* signals pending for the master
    timer,     \* is its real-time timer running?
    child,     \* every process ever created, by pid
    inbox,     \* the messages in the channel made for each pid
    view,      \* the copy of the channels in each child's ngx_processes
    nextPid,
    budget     \* signals, crashes and failures still allowed

masterVars == <<flags, new_binary, noaccepting, live, delay, sigio>>
tableVars == <<proc, last, slot>>
childVars == <<child, inbox, view>>
vars == <<at, loop, masterVars, tableVars, pending, timer, childVars, nextPid, budget>>

Slots == 0 .. MaxProcesses - 1
Pids == 1 .. MaxPid
None == -1      \* pid -1, a closed channel
Stale == -2     \* descriptors closed by a failed ngx_spawn_process but kept
InvalidPid == -1

WorkerProcesses == Cardinality({i \in DOMAIN Kinds : Kinds[i] = "worker"})

FreeSlot == [pid |-> 0, exited |-> FALSE, exiting |-> FALSE, respawn |-> FALSE,
             just_spawn |-> FALSE, detached |-> FALSE, kind |-> "none",
             channel |-> None]
NoChild == [state |-> "none", kind |-> "none", code |-> 0, flags |-> {}]
NoView == [s \in Slots |-> None]
NoLoop == [i |-> 0, what |-> "none", then |-> "none", channel |-> None]

Init ==
    /\ at = "start"
    /\ loop = [NoLoop EXCEPT !.i = 1, !.what = "respawn", !.then = "top"]
    /\ flags = {} /\ new_binary = 0 /\ noaccepting = FALSE
    /\ live = TRUE /\ delay = 0 /\ sigio = 0
    /\ proc = [s \in Slots |-> FreeSlot] /\ last = 0 /\ slot = 0
    /\ pending = {} /\ timer = FALSE
    /\ child = [p \in Pids |-> NoChild]
    /\ inbox = [p \in Pids |-> <<>>]
    /\ view = [p \in Pids |-> NoView]
    /\ nextPid = 1
    /\ budget = [signals |-> MaxSignals, crashes |-> MaxCrashes, faults |-> MaxFaults]

Spend(what) == budget[what] > 0 /\ budget' = [budget EXCEPT ![what] = @ - 1]

Used == 0 .. last - 1
Alive(p) == child[p].state \in {"init", "run", "exiting"}
Up == at # "exited"

-----------------------------------------------------------------------------
(***************************************************************************)
(* Channels.                                                               *)
(***************************************************************************)
(* ngx_write_channel fails on a closed or stale descriptor, and with        *)
(* NGX_AGAIN on a full socket.                                              *)
CanWrite(c) == c \in Pids /\ Len(inbox[c]) < ChannelSize

(* The inboxes after message m was written to the channels in cs.           *)
Written(in, cs, m) ==
    [p \in Pids |-> IF p \in cs /\ Len(in[p]) < ChannelSize THEN Append(in[p], m)
                                                            ELSE in[p]]

(* Mutant of PassOpenChannel: only the slots after s are told.              *)
PassOpenToYounger(in, t, n, s) ==
    Written(in, {t[i].channel : i \in {j \in 0 .. n - 1 : j > s /\ t[j].pid # None}},
            [command |-> "open", slot |-> s, channel |-> t[s].channel])

(* ngx_pass_open_channel for slot s of table t: all other channels get it.  *)
(* A stale descriptor cannot be passed at all.                              *)
PassOpenChannel(in, t, n, s) ==
    IF t[s].channel = Stale THEN in
    ELSE Written(in,
                 {t[i].channel : i \in {j \in 0 .. n - 1 : j # s /\ t[j].pid # None}},
                 [command |-> "open", slot |-> s, channel |-> t[s].channel])

(* The messages ngx_reap_children sends when the child in slot s has gone,  *)
(* with the command and the descriptor its variable ch holds.               *)
PassCloseChannel(in, t, s, command, channel) ==
    Written(in,
            {t[i].channel : i \in {j \in Used : ~t[j].exited /\ t[j].pid # None}},
            [command |-> command, slot |-> s, channel |-> channel])

-----------------------------------------------------------------------------
(***************************************************************************)
(* ngx_spawn_process into slot s of table t (in which s may have been       *)
(* changed already), then ngx_pass_open_channel, as all its callers in      *)
(* ngx_process_cycle.c do.  The child inherits the table as it was.         *)
(***************************************************************************)
ChannelsOf(t) == [s \in Slots |-> t[s].channel]

Spawn(t, s, entry, in) ==
    LET t2 == [t EXCEPT ![s] = [entry EXCEPT !.pid = nextPid, !.exited = FALSE,
                                             !.channel = nextPid]]
        n == IF s = last THEN last + 1 ELSE last
    IN  /\ nextPid \in Pids
        /\ nextPid' = nextPid + 1
        /\ proc' = t2 /\ last' = n /\ slot' = s
        /\ child' = [child EXCEPT ![nextPid] =
                        [state |-> "init", kind |-> entry.kind, code |-> 0, flags |-> {}]]
        /\ view' = [view EXCEPT ![nextPid] = [ChannelsOf(t) EXCEPT ![s] = None]]
        /\ inbox' = PassOpenChannel(in, t2, n, s)

(* It fails in socketpair (nothing is changed), between socketpair and fork *)
(* (the channel is closed again, its numbers stay), or in fork (and         *)
(* ngx_process_slot has moved).                                             *)
SpawnFailed(t, s, t2, moved) ==
    /\ \/ t2 = t /\ ~moved
       \/ t2 = [t EXCEPT ![s].channel = Stale]
    /\ slot' = IF moved THEN s ELSE slot
    /\ proc' = t2
    /\ UNCHANGED <<last, child, view, nextPid>>

FailedTables(t, s) == {t, [t EXCEPT ![s].channel = Stale]}

(* The slot a new process gets: the first free one, else the next.          *)
FreeSlots == {s \in Used : proc[s].pid = None}
NewSlot == IF FreeSlots = {} THEN last
                             ELSE CHOOSE s \in FreeSlots : \A r \in FreeSlots : s <= r

NewEntry(k, what) ==
    [FreeSlot EXCEPT !.kind = k, !.respawn = (k # "loader"),
                     !.just_spawn = (what = "just_respawn")]

Goto(l) == at' = l /\ loop' = NoLoop
Loop(l, first, what, then) ==
    at' = l /\ loop' = [NoLoop EXCEPT !.i = first, !.what = what, !.then = then]
NextTurn == at' = at /\ loop' = [loop EXCEPT !.i = @ + 1]
OnlyMaster == UNCHANGED <<tableVars, childVars, nextPid, pending, timer>>

(* ngx_start_worker_processes and ngx_start_cache_manager_processes: the    *)
(* result of ngx_spawn_process is not looked at, ngx_process_slot is        *)
(* announced whether or not it succeeded.                                   *)
StartProcess ==
    /\ at = "start" /\ loop.i <= Len(Kinds)
    /\ NewSlot \in Slots
    /\ Spawn(proc, NewSlot, NewEntry(Kinds[loop.i], loop.what), inbox)
    /\ NextTurn
    /\ UNCHANGED <<masterVars, pending, timer, budget>>

StartProcessFails ==
    /\ at = "start" /\ loop.i <= Len(Kinds)
    /\ \/ /\ NewSlot \in Slots /\ Spend("faults")
          /\ \E t2 \in FailedTables(proc, NewSlot), moved \in BOOLEAN :
                SpawnFailed(proc, NewSlot, t2, moved)
       \/ /\ NewSlot \notin Slots      \* no more than NGX_MAX_PROCESSES
          /\ UNCHANGED <<tableVars, child, view, nextPid, budget>>
    /\ inbox' = PassOpenChannel(inbox, proc', last', slot')
    /\ NextTurn
    /\ UNCHANGED <<masterVars, pending, timer>>

(* What follows the start, by the branch that made it. *)
Started ==
    /\ at = "start" /\ loop.i > Len(Kinds)
    /\ Goto(loop.then)
    /\ UNCHANGED <<masterVars, budget>> /\ OnlyMaster
-----------------------------------------------------------------------------
(***************************************************************************)
(* ngx_reap_children, one turn of its loop over the table for each action.  *)
(***************************************************************************)
InTable == at = "reap" /\ loop.i < last
Entry == proc[loop.i]
Gone == Entry.pid # None /\ Entry.exited

(* Mutant of Respawns: ngx_quit is not looked at.                           *)
RespawnsOnQuit == Entry.respawn /\ ~Entry.exiting /\ "terminate" \notin flags

Respawns == /\ Entry.respawn /\ ~Entry.exiting
            /\ flags \cap {"terminate", "quit"} = {}

(* The table with the channel of a child that has gone closed, and the      *)
(* other children told so.  A detached process has no channel.              *)
ClosedTable == IF Entry.detached THEN proc
                                 ELSE [proc EXCEPT ![loop.i].channel = None]
ClosedInbox ==
    IF Entry.detached THEN inbox
    ELSE PassCloseChannel(inbox, ClosedTable, loop.i, loop.what, loop.channel)

(* Mutant of KeepsLive: only the children told to leave count.              *)
KeepsLiveExiting == Entry.pid # None /\ Entry.exiting

KeepsLive == Entry.pid # None /\ (Entry.exiting \/ ~Entry.detached)

ReapNothing ==
    /\ InTable /\ ~Gone
    /\ live' = (live \/ KeepsLive)
    /\ NextTurn
    /\ UNCHANGED <<flags, new_binary, noaccepting, delay, sigio, budget>> /\ OnlyMaster

(* From now on ch.command is NGX_CMD_OPEN_CHANNEL, for the slots still to   *)
(* come as well.                                                            *)
ReapRespawn ==
    /\ InTable /\ Gone /\ Respawns
    /\ Spawn(ClosedTable, loop.i, ClosedTable[loop.i], ClosedInbox)
    /\ live' = TRUE
    /\ at' = at
    /\ loop' = [loop EXCEPT !.i = @ + 1, !.what = "open", !.channel = nextPid]
    /\ UNCHANGED <<flags, new_binary, noaccepting, delay, sigio, pending, timer, budget>>

ReapRespawnFails ==
    /\ InTable /\ Gone /\ Respawns
    /\ Spend("faults")
    /\ \E t2 \in FailedTables(ClosedTable, loop.i), moved \in BOOLEAN :
            SpawnFailed(ClosedTable, loop.i, t2, moved)
    /\ inbox' = ClosedInbox
    /\ NextTurn
    /\ UNCHANGED <<masterVars, pending, timer>>

(* When the new binary has gone and the workers had been told to stop       *)
(* accepting, they are to be started again.                                 *)
(* Mutants of AfterBinary: never, or always.                                *)
AfterBinaryNothing == flags
AfterBinaryRestart == flags \cup {"restart"}

AfterBinary == IF noaccepting THEN flags \cup {"restart"} ELSE flags

(* Mutant of Shrinks: any slot given up makes the table shorter.            *)
ShrinksAlways == TRUE

Shrinks == loop.i = last - 1

(* The slot is given up.                                                    *)
ReapRemove ==
    /\ InTable /\ Gone /\ ~Respawns
    /\ IF Entry.pid = new_binary
       THEN /\ new_binary' = 0 /\ noaccepting' = FALSE
            /\ flags' = AfterBinary
       ELSE UNCHANGED <<new_binary, noaccepting, flags>>
    /\ IF Shrinks
       THEN last' = last - 1 /\ proc' = ClosedTable
       ELSE last' = last /\ proc' = [ClosedTable EXCEPT ![loop.i].pid = None]
    /\ inbox' = ClosedInbox
    /\ NextTurn
    /\ UNCHANGED <<live, delay, sigio, slot, child, view, nextPid, pending, timer,
                   budget>>

Reaped ==
    /\ at = "reap" /\ loop.i >= last
    /\ Goto("check")
    /\ UNCHANGED <<masterVars, budget>> /\ OnlyMaster

-----------------------------------------------------------------------------
(***************************************************************************)
(* ngx_signal_worker_processes(cycle, signo), one turn for each action;     *)
(* loop.what is the signal.                                                 *)
(***************************************************************************)
InSignal == at = "signal" /\ loop.i < last
Skipped == \/ Entry.detached \/ Entry.pid = None
           \/ Entry.just_spawn
           \/ Entry.exiting /\ loop.what = "quit"

SignalSkip ==
    /\ InSignal /\ Skipped
    /\ proc' = IF Entry.detached \/ Entry.pid = None
               THEN proc ELSE [proc EXCEPT ![loop.i].just_spawn = FALSE]
    /\ NextTurn
    /\ UNCHANGED <<masterVars, last, slot, childVars, nextPid, pending, timer, budget>>

MarkExiting == [proc EXCEPT ![loop.i].exiting = @ \/ loop.what # "reopen"]

SignalByChannel ==
    /\ InSignal /\ ~Skipped
    /\ loop.what # "kill" /\ CanWrite(Entry.channel)
    /\ inbox' = Written(inbox, {Entry.channel},
                        [command |-> loop.what, slot |-> 0, channel |-> None])
    /\ proc' = MarkExiting
    /\ NextTurn
    /\ UNCHANGED <<masterVars, last, slot, child, view, nextPid, pending, timer, budget>>

(* kill(): a zombie takes the signal, SIGKILL ends a process at once, and   *)
(* only a process already waited for is not found (ESRCH).                  *)
SignalByKill ==
    /\ InSignal /\ ~Skipped
    /\ loop.what = "kill" \/ ~CanWrite(Entry.channel)
    /\ IF child[Entry.pid].state = "reaped"
       THEN /\ proc' = [proc EXCEPT ![loop.i].exited = TRUE, ![loop.i].exiting = FALSE]
            /\ flags' = flags \cup {"reap"}
            /\ UNCHANGED <<child, pending>>
       ELSE /\ proc' = MarkExiting
            /\ IF loop.what = "kill" /\ Alive(Entry.pid)
               THEN /\ child' = [child EXCEPT ![Entry.pid].state = "zombie"]
                    /\ pending' = pending \cup {"reap"}
               ELSE /\ child' = IF Alive(Entry.pid)
                        THEN [child EXCEPT ![Entry.pid].flags = @ \cup {loop.what}]
                        ELSE child
                    /\ UNCHANGED pending
            /\ UNCHANGED flags
    /\ NextTurn
    /\ UNCHANGED <<new_binary, noaccepting, live, delay, sigio, last, slot, inbox, view,
                   nextPid, timer, budget>>

Signalled ==
    /\ at = "signal" /\ loop.i >= last
    /\ Goto(loop.then)
    /\ UNCHANGED <<masterVars, budget>> /\ OnlyMaster

-----------------------------------------------------------------------------
(***************************************************************************)
(* ngx_master_process_cycle, from the top of its loop to sigsuspend.        *)
(***************************************************************************)
(* Mutant of NextDelay: the wait after a TERM does not grow.                *)
SameDelay == delay

(* Beyond KillDelay the length of the wait makes no difference any more.    *)
NextDelay == IF delay > KillDelay THEN delay ELSE delay * 2

Top ==
    /\ at = "top" /\ Goto("suspend")
    /\ IF delay # 0 /\ "sigalrm" \in flags
       THEN sigio' = 0 /\ delay' = NextDelay /\ flags' = flags \ {"sigalrm"}
       ELSE UNCHANGED <<sigio, delay, flags>>
    /\ timer' = (timer \/ delay # 0)
    /\ UNCHANGED <<new_binary, noaccepting, live, tableVars, childVars, nextPid, pending,
                   budget>>

(* ngx_signal_handler for every pending signal, named after the flag it     *)
(* sets.  For SIGCHLD ngx_process_get_status waits for all children that    *)
(* have ended, and of those nothing is left but their slot.  SIGUSR2 is     *)
(* ignored while a new binary runs; SIGIO only wakes the master up.         *)
(* Mutant of Ended: waitpid is called once for a SIGCHLD.                   *)
EndedFirst == {p \in Pids : /\ child[p].state = "zombie"
                            /\ \A q \in Pids : child[q].state = "zombie" => p <= q}

Ended == {p \in Pids : child[p].state = "zombie"}

(* Mutants of Waited: the slot is not marked, or nobody who failed is       *)
(* respawned.                                                               *)
WaitedUnmarked(e) == [e EXCEPT !.respawn = @ /\ child[e.pid].code # 2]
WaitedGivesUp(e) == [e EXCEPT !.exited = TRUE, !.respawn = @ /\ child[e.pid].code = 0]

Waited(e) == [e EXCEPT !.exited = TRUE, !.respawn = @ /\ child[e.pid].code # 2]

Deliver ==
    /\ at = "suspend" /\ pending # {}
    /\ LET heard == pending \ (IF new_binary > 0 THEN {"change_binary", "sigio"}
                                                 ELSE {"sigio"})
       IN flags' = (flags \cup heard) \ {"reap"}
    /\ IF "reap" \in pending
       THEN /\ child' = [p \in Pids |-> IF p \in Ended
                            THEN [child[p] EXCEPT !.state = "reaped"] ELSE child[p]]
            /\ inbox' = [p \in Pids |-> IF p \in Ended THEN <<>> ELSE inbox[p]]
            /\ view' = [p \in Pids |-> IF p \in Ended THEN NoView ELSE view[p]]
            /\ proc' = [s \in Slots |-> IF s \in Used /\ proc[s].pid \in Ended
                                        THEN Waited(proc[s]) ELSE proc[s]]
       ELSE UNCHANGED <<childVars, proc>>
    /\ pending' = {}
    /\ IF "reap" \in pending \cup flags
       THEN /\ at' = "reap" /\ loop' = [NoLoop EXCEPT !.what = "close"]
            /\ live' = FALSE
       ELSE Goto("check") /\ UNCHANGED live
    /\ UNCHANGED <<new_binary, noaccepting, delay, sigio, last, slot, nextPid, timer,
                   budget>>

Stopping == flags \cap {"terminate", "quit"} # {}

(* ngx_master_process_exit *)
Exit ==
    /\ at = "check" /\ ~live /\ Stopping
    /\ Goto("exited")
    /\ UNCHANGED <<masterVars, budget>> /\ OnlyMaster

(* Mutant of RoundsLeft: one round too many is waited for.                  *)
RoundsLeftOneMore == sigio >= 0

RoundsLeft == sigio > 0

Terminate ==
    /\ at = "check" /\ live /\ "terminate" \in flags
    /\ delay' = IF delay = 0 THEN FirstDelay ELSE delay
    /\ IF RoundsLeft
       THEN sigio' = sigio - 1 /\ Goto("top")
       ELSE /\ sigio' = WorkerProcesses + 2
            /\ Loop("signal", 0, IF delay' > KillDelay THEN "kill" ELSE "terminate", "top")
    /\ UNCHANGED <<flags, new_binary, noaccepting, live, budget>> /\ OnlyMaster

(* The listening sockets are closed as well; nothing here depends on them.  *)
Quit ==
    /\ at = "check" /\ live /\ "quit" \in flags /\ "terminate" \notin flags
    /\ Loop("signal", 0, "quit", "top")
    /\ UNCHANGED <<masterVars, budget>> /\ OnlyMaster

Continue ==
    /\ at = "check" /\ ~Stopping
    /\ Goto("reconfigure")
    /\ UNCHANGED <<masterVars, budget>> /\ OnlyMaster

(* ngx_reconfigure while a new binary runs brings the workers back.         *)
WorkersAgain ==
    /\ at = "reconfigure" /\ "reconfigure" \in flags /\ new_binary # 0
    /\ flags' = flags \ {"reconfigure"}
    /\ noaccepting' = FALSE
    /\ Loop("start", 1, "respawn", "top")
    /\ UNCHANGED <<new_binary, live, delay, sigio, budget>> /\ OnlyMaster

(* Otherwise a new cycle is made, workers are started for it and the others *)
(* told to leave; when ngx_init_cycle fails the round ends.                 *)
Reconfigure ==
    /\ at = "reconfigure" /\ "reconfigure" \in flags /\ new_binary = 0
    /\ flags' = flags \ {"reconfigure"}
    /\ \/ Loop("start", 1, "just_respawn", "reconfigured") /\ UNCHANGED budget
       \/ Goto("top") /\ Spend("faults")
    /\ UNCHANGED <<new_binary, noaccepting, live, delay, sigio>> /\ OnlyMaster

(* Mutant of Reconfigured: the old workers are not told to leave.           *)
ReconfiguredKeepsOld ==
    /\ at = "reconfigured"
    /\ live' = TRUE /\ Goto("restart")
    /\ UNCHANGED <<flags, new_binary, noaccepting, delay, sigio, budget>> /\ OnlyMaster

Reconfigured ==
    /\ at = "reconfigured"
    /\ live' = TRUE
    /\ Loop("signal", 0, "quit", "restart")
    /\ UNCHANGED <<flags, new_binary, noaccepting, delay, sigio, budget>> /\ OnlyMaster

NoReconfigure ==
    /\ at = "reconfigure" /\ "reconfigure" \notin flags
    /\ Goto("restart")
    /\ UNCHANGED <<masterVars, budget>> /\ OnlyMaster

Restart ==
    /\ at = "restart"
    /\ IF "restart" \in flags
       THEN /\ flags' = flags \ {"restart"} /\ live' = TRUE
            /\ Loop("start", 1, "respawn", "reopen")
       ELSE Goto("reopen") /\ UNCHANGED <<flags, live>>
    /\ UNCHANGED <<new_binary, noaccepting, delay, sigio, budget>> /\ OnlyMaster

Reopen ==
    /\ at = "reopen"
    /\ flags' = flags \ {"reopen"}
    /\ IF "reopen" \in flags THEN Loop("signal", 0, "reopen", "change_binary")
                             ELSE Goto("change_binary")
    /\ UNCHANGED <<new_binary, noaccepting, live, delay, sigio, budget>> /\ OnlyMaster

(* ngx_exec_new_binary is not in the repository; by its use it spawns the   *)
(* new binary with ngx_execute and gives its pid, or NGX_INVALID_PID.       *)
ChangeBinary ==
    /\ at = "change_binary" /\ "change_binary" \in flags
    /\ NewSlot \in Slots /\ nextPid \in Pids
    /\ flags' = flags \ {"change_binary"}
    /\ new_binary' = nextPid /\ nextPid' = nextPid + 1
    /\ proc' = [proc EXCEPT ![NewSlot] = [FreeSlot EXCEPT !.kind = "binary",
                                              !.pid = nextPid, !.detached = TRUE]]
    /\ last' = IF NewSlot = last THEN last + 1 ELSE last
    /\ slot' = NewSlot
    /\ child' = [child EXCEPT ![nextPid] =
                    [state |-> "run", kind |-> "binary", code |-> 0, flags |-> {}]]
    /\ Goto("noaccept")
    /\ UNCHANGED <<noaccepting, live, delay, sigio, inbox, view, pending, timer, budget>>

ChangeBinaryFails ==
    /\ at = "change_binary" /\ "change_binary" \in flags
    /\ \/ NewSlot \notin Slots /\ UNCHANGED budget
       \/ Spend("faults")
    /\ flags' = flags \ {"change_binary"}
    /\ new_binary' = InvalidPid
    /\ Goto("noaccept")
    /\ UNCHANGED <<noaccepting, live, delay, sigio>> /\ OnlyMaster

(* ngx_execute has set the channel of its slot to -1 and ngx_process_slot   *)
(* to the slot when fork fails.                                             *)
ChangeBinaryForkFails ==
    /\ at = "change_binary" /\ "change_binary" \in flags
    /\ NewSlot \in Slots /\ Spend("faults")
    /\ flags' = flags \ {"change_binary"}
    /\ new_binary' = InvalidPid
    /\ proc' = [proc EXCEPT ![NewSlot].channel = None]
    /\ slot' = NewSlot
    /\ Goto("noaccept")
    /\ UNCHANGED <<noaccepting, live, delay, sigio, last, childVars, nextPid, pending, timer>>

NoChangeBinary ==
    /\ at = "change_binary" /\ "change_binary" \notin flags
    /\ Goto("noaccept")
    /\ UNCHANGED <<masterVars, budget>> /\ OnlyMaster

Noaccept ==
    /\ at = "noaccept"
    /\ flags' = flags \ {"noaccept"}
    /\ IF "noaccept" \in flags
       THEN noaccepting' = TRUE /\ Loop("signal", 0, "quit", "top")
       ELSE Goto("top") /\ UNCHANGED noaccepting
    /\ UNCHANGED <<new_binary, live, delay, sigio, budget>> /\ OnlyMaster

-----------------------------------------------------------------------------
(***************************************************************************)
(* The children.  A worker runs ngx_worker_process_init with all signals    *)
(* blocked, then its loop; a cache process leaves as soon as it is told to. *)
(***************************************************************************)
OnlyChild == UNCHANGED <<at, loop, masterVars, tableVars, timer, nextPid>>

End(p, code) ==
    /\ child' = [child EXCEPT ![p].state = "zombie", ![p].code = code, ![p].flags = {}]
    /\ pending' = pending \cup {"reap"}
    /\ UNCHANGED <<inbox, view, budget>> /\ OnlyChild

Initialised(p) ==
    /\ child[p].state = "init"
    /\ child' = [child EXCEPT ![p].state = "run"]
    /\ UNCHANGED <<inbox, view, pending, budget>> /\ OnlyChild

(* ngx_channel_handler, for one message. *)
ReadChannel(p) ==
    LET m == Head(inbox[p]) IN
    /\ child[p].state \in {"run", "exiting"} /\ child[p].kind # "binary"
    /\ inbox[p] # <<>>
    /\ inbox' = [inbox EXCEPT ![p] = Tail(@)]
    /\ IF m.command \in {"open", "close"}
       THEN /\ view' = [view EXCEPT ![p][m.slot] = m.channel]
            /\ UNCHANGED child
       ELSE /\ child' = [child EXCEPT ![p].flags = @ \cup {m.command}]
            /\ UNCHANGED view
    /\ UNCHANGED <<pending, budget>> /\ OnlyChild

(* ngx_worker_process_cycle and ngx_cache_manager_process_cycle: a worker   *)
(* told to quit goes on until its connections and timers are gone.          *)
GracefulExit(p) ==
    /\ child[p].state = "run" /\ child[p].kind = "worker"
    /\ "quit" \in child[p].flags /\ "terminate" \notin child[p].flags
    /\ child' = [child EXCEPT ![p].state = "exiting", ![p].flags = @ \ {"quit"}]
    /\ UNCHANGED <<inbox, view, pending, budget>> /\ OnlyChild

ReopenFiles(p) ==
    /\ child[p].state \in {"run", "exiting"} /\ "reopen" \in child[p].flags
    /\ child' = [child EXCEPT ![p].flags = @ \ {"reopen"}]
    /\ UNCHANGED <<inbox, view, pending, budget>> /\ OnlyChild

ExitProcess(p) ==
    /\ \/ child[p].state \in {"run", "exiting"} /\ "terminate" \in child[p].flags
       \/ child[p].state = "exiting"
       \/ /\ child[p].state = "run" /\ child[p].kind \in {"manager", "loader"}
          /\ "quit" \in child[p].flags
       \/ child[p].state = "run" /\ child[p].kind = "loader"   \* its work is done
    /\ End(p, 0)

(* A child crashes, or fails to initialise and asks not to be respawned;    *)
(* the new binary may leave at any time.                                    *)
Crash(p) ==
    /\ Alive(p) /\ Spend("crashes")
    /\ \E code \in IF child[p].state = "init" THEN {1, 2} ELSE {1} :
         /\ child' = [child EXCEPT ![p].state = "zombie", ![p].code = code,
                                   ![p].flags = {}]
    /\ pending' = pending \cup {"reap"}
    /\ UNCHANGED <<inbox, view>> /\ OnlyChild

(* The administrator and the timer. *)
Send(s) ==
    /\ Spend("signals")
    /\ pending' = pending \cup {s}
    /\ UNCHANGED <<at, loop, masterVars, tableVars, timer, childVars, nextPid>>

Alarm ==
    /\ timer /\ timer' = FALSE
    /\ pending' = pending \cup {"sigalrm"}
    /\ UNCHANGED <<at, loop, masterVars, tableVars, childVars, nextPid, budget>>

-----------------------------------------------------------------------------
MasterStep ==
    \/ StartProcess \/ StartProcessFails \/ Started
    \/ ReapNothing \/ ReapRespawn \/ ReapRespawnFails \/ ReapRemove \/ Reaped
    \/ SignalSkip \/ SignalByChannel \/ SignalByKill \/ Signalled
    \/ Top \/ Deliver \/ Exit \/ Terminate \/ Quit \/ Continue
    \/ WorkersAgain \/ Reconfigure \/ Reconfigured \/ NoReconfigure \/ Restart
    \/ Reopen \/ ChangeBinary \/ ChangeBinaryFails \/ ChangeBinaryForkFails
    \/ NoChangeBinary \/ Noaccept

ChildStep(p) ==
    \/ Initialised(p) \/ ReadChannel(p) \/ ReopenFiles(p) \/ GracefulExit(p)
    \/ ExitProcess(p)

Next ==
    \/ MasterStep
    \/ \E p \in Pids : ChildStep(p) \/ Crash(p)
    \/ Up /\ \E s \in Signals : Send(s)
    \/ Up /\ Alarm

Spec == Init /\ [][Next]_vars
=============================================================================
