---------------------------- MODULE Master_proof ----------------------------
(***************************************************************************)
(* The table ngx_processes of the master: every child it has not waited    *)
(* for is in exactly one slot, signals go to its own children only, it is  *)
(* the last to leave, and it creates no process once it stops; its         *)
(* children know each other's channels, and no more workers serve than     *)
(* were asked for.  For any kinds of children, sizes of table and          *)
(* channels, signals, crashes and failures.                                *)
(***************************************************************************)
EXTENDS MasterProperties, TLAPS, WellFoundedInduction,
        FiniteSetTheorems

(* The types again, with those of the loop, the messages and the budget.    *)
Places == {"start", "top", "suspend", "reap", "check", "signal", "reconfigure",
           "reconfigured", "restart", "reopen", "change_binary", "noaccept", "exited"}
Whats == {"none", "respawn", "just_respawn", "open", "close", "quit", "terminate",
          "reopen", "kill"}
Thens == {"none", "top", "reconfigured", "restart", "reopen", "change_binary"}
Messages == [command : {"open", "close", "quit", "terminate", "reopen"},
             slot : Slots, channel : Pids \cup {None}]
Children == [state : {"none", "init", "run", "exiting", "zombie", "reaped"},
             kind : {"none", "worker", "manager", "loader", "binary"},
             code : 0 .. 2,
             flags : SUBSET {"quit", "terminate", "reopen", "kill"}]
Views == [Slots -> Pids \cup {None, Stale}]

LoopTypes ==
    /\ at \in Places
    /\ loop \in [i : Nat, what : Whats, then : Thens, channel : Pids \cup {None}]
    /\ at = "start" => /\ loop.i # 0 /\ loop.what \in {"respawn", "just_respawn"}
                       /\ loop.then \in {"top", "reconfigured", "reopen"}
    /\ at = "reap" => loop.what \in {"open", "close"}
    /\ at = "signal" => /\ loop.what \in {"quit", "terminate", "reopen", "kill"}
                        /\ loop.then \in {"top", "restart", "change_binary"}
MasterTypes ==
    /\ flags \subseteq Flags
    /\ new_binary \in Pids \cup {0, InvalidPid}
    /\ noaccepting \in BOOLEAN /\ live \in BOOLEAN
    /\ delay \in Nat /\ sigio \in Nat
TableTypes == proc \in [Slots -> Entries] /\ last \in 0 .. MaxProcesses /\ slot \in Slots
InboxTypes ==
    /\ inbox \in [Pids -> Seq(Messages)]
    /\ \A p \in Pids : Len(inbox[p]) <= ChannelSize
ChildTypes ==
    /\ child \in [Pids -> Children] /\ view \in [Pids -> Views]
    /\ nextPid \in 1 .. MaxPid + 1
OuterTypes ==
    /\ pending \subseteq Flags \cup {"sigio"}
    /\ timer \in BOOLEAN
    /\ budget \in [{"signals", "crashes", "faults"} -> Nat]

TypeInv == LoopTypes /\ MasterTypes /\ TableTypes /\ InboxTypes /\ ChildTypes /\ OuterTypes

(* What ngx_processes and the processes have in common.                     *)
InUse == {s \in Used : proc[s].pid # None}
KnownPids == \A s \in InUse : proc[s].pid \in 1 .. nextPid - 1
OneSlotEach == \A s, r \in InUse : proc[s].pid = proc[r].pid => s = r
ExitedIsReaped == \A s \in InUse : proc[s].exited <=> child[proc[s].pid].state = "reaped"
KindsAgree == \A s \in InUse : /\ child[proc[s].pid].kind = proc[s].kind
                               /\ proc[s].detached <=> proc[s].kind = "binary"
PidsInOrder == \A p \in Pids : child[p].state = "none" <=> p >= nextPid
NobodyLost == \A p \in Pids : child[p].state \in {"none", "reaped"}
                                \/ \E s \in InUse : proc[s].pid = p
TableInv ==
    /\ KnownPids /\ OneSlotEach /\ ExitedIsReaped /\ KindsAgree /\ PidsInOrder
    /\ NobodyLost

(* While no call failed, a slot of a child waited for lasts no longer than  *)
(* the reaping it was waited for.                                           *)
FaultlessInv ==
    /\ budget.faults <= MaxFaults
    /\ budget.faults = MaxFaults =>
          \A s \in InUse : proc[s].exited => at = "reap" /\ s >= loop.i

(* live = 0 means that nobody is left to wait for but detached processes;   *)
(* during ngx_reap_children, among the slots it has passed, and with the    *)
(* exception of the moments before ngx_reconfigure's workers are counted.   *)
LiveInv ==
    /\ at = "start" => live \/ loop.then = "reconfigured"
    /\ at = "exited" => ~live
    /\ ~live /\ at \notin {"start", "reconfigured"} =>
          \A s \in InUse : (at = "reap" => s < loop.i) =>
                                proc[s].exited \/ proc[s].detached

-----------------------------------------------------------------------------
(* Types.                                                                   *)
LEMMA TypesAreTypes == TypeInv => TypeOK
BY DEF TypeInv, LoopTypes, MasterTypes, TableTypes, InboxTypes, ChildTypes, OuterTypes,
       TypeOK, Places, Children, Views

(* The smallest of some slots exists, so that NewSlot is what               *)
(* ngx_spawn_process finds.                                                 *)
LEMMA SmallestSlot ==
    ASSUME NEW T \in SUBSET Nat, T # {}
    PROVE  \E m \in T : \A k \in T : m <= k
<1>1. \E m \in T : \A k \in T : ~(<<k, m>> \in OpToRel(<, Nat))
  BY WFMin, NatLessThanWellFounded
<1>2. PICK m \in T : \A k \in T : ~(<<k, m>> \in OpToRel(<, Nat))
  BY <1>1
<1>3. \A k \in T : ~(k < m)
  BY <1>2 DEF OpToRel
<1> QED BY <1>3

LEMMA NewSlotFree ==
    ASSUME last \in Nat
    PROVE  /\ NewSlot \in 0 .. last
           /\ NewSlot = last \/ (NewSlot \in Used /\ proc[NewSlot].pid = None)
<1>1. CASE FreeSlots = {}
  BY <1>1 DEF NewSlot
<1>2. CASE FreeSlots # {}
  <2>1. FreeSlots \in SUBSET Nat
    BY DEF FreeSlots, Used
  <2>2. NewSlot \in FreeSlots
    BY <1>2, <2>1, SmallestSlot DEF NewSlot
  <2> QED BY <2>2 DEF FreeSlots, Used
<1> QED BY <1>1, <1>2

LEMMA ConstantTypes ==
    /\ MaxPid \in Nat /\ MaxProcesses \in Nat /\ MaxProcesses # 0
    /\ ChannelSize \in Nat /\ ChannelSize # 0
    /\ \A i \in 1 .. Len(Kinds) : Kinds[i] \in {"worker", "manager", "loader"}
    /\ FreeSlot \in Entries
    /\ None \notin Pids /\ None = -1 /\ 0 \notin Pids /\ 0 \in Slots
BY MasterAssumption DEF None, Pids, Slots, FreeSlot, Entries

(* Writing keeps the channels within their bounds.                          *)
LEMMA WrittenTypes ==
    ASSUME NEW in \in [Pids -> Seq(Messages)], NEW cs, NEW m \in Messages,
           \A p \in Pids : Len(in[p]) <= ChannelSize
    PROVE  /\ Written(in, cs, m) \in [Pids -> Seq(Messages)]
           /\ \A p \in Pids : Len(Written(in, cs, m)[p]) <= ChannelSize
<1> DEFINE w(p) == IF p \in cs /\ Len(in[p]) < ChannelSize THEN Append(in[p], m)
                                                            ELSE in[p]
<1>1. \A p \in Pids : w(p) \in Seq(Messages) /\ Len(w(p)) <= ChannelSize
  BY ConstantTypes
<1>2. Written(in, cs, m) = [p \in Pids |-> w(p)]
  BY DEF Written
<1> HIDE DEF w
<1> QED BY <1>1, <1>2

LEMMA PassOpenTypes ==
    ASSUME NEW in \in [Pids -> Seq(Messages)],
           \A p \in Pids : Len(in[p]) <= ChannelSize,
           NEW t \in [Slots -> Entries], NEW n, NEW s \in Slots
    PROVE  /\ PassOpenChannel(in, t, n, s) \in [Pids -> Seq(Messages)]
           /\ \A p \in Pids : Len(PassOpenChannel(in, t, n, s)[p]) <= ChannelSize
<1>1. CASE t[s].channel = Stale
  BY <1>1 DEF PassOpenChannel
<1>2. CASE t[s].channel # Stale
  <2>1. t[s].channel \in Pids \cup {None}
    BY <1>2 DEF Entries
  <2>2. [command |-> "open", slot |-> s, channel |-> t[s].channel] \in Messages
    BY <2>1 DEF Messages
  <2> QED BY <1>2, <2>2, WrittenTypes DEF PassOpenChannel
<1> QED BY <1>1, <1>2

(* A new process in slot s of table t.                                      *)
LEMMA SpawnTypes ==
    ASSUME TableTypes, ChildTypes, NEW t \in [Slots -> Entries], NEW s \in Slots,
           s <= last, NEW e \in Entries, NEW in \in [Pids -> Seq(Messages)],
           \A p \in Pids : Len(in[p]) <= ChannelSize,
           Spawn(t, s, e, in)
    PROVE  TableTypes' /\ ChildTypes' /\ InboxTypes'
<1> DEFINE t2 == [t EXCEPT ![s] = [e EXCEPT !.pid = nextPid, !.exited = FALSE,
                                             !.channel = nextPid]]
<1>1. nextPid \in Pids /\ nextPid' = nextPid + 1
  BY DEF Spawn
<1>2. t2 \in [Slots -> Entries]
  <2>1. [e EXCEPT !.pid = nextPid, !.exited = FALSE, !.channel = nextPid] \in Entries
    BY <1>1 DEF Entries
  <2> QED BY <2>1
<1>3. TableTypes'
  <2>1. proc' = t2 /\ slot' = s /\ last' = IF s = last THEN last + 1 ELSE last
    BY DEF Spawn
  <2>2. last' \in 0 .. MaxProcesses
    BY <2>1, ConstantTypes DEF TableTypes, Slots
  <2> QED BY <1>2, <2>1, <2>2 DEF TableTypes
<1>4. ChildTypes'
  <2>1. child' = [child EXCEPT ![nextPid] =
                     [state |-> "init", kind |-> e.kind, code |-> 0, flags |-> {}]]
    BY DEF Spawn
  <2>2. [state |-> "init", kind |-> e.kind, code |-> 0, flags |-> {}] \in Children
    BY DEF Entries, Children
  <2>3. child' \in [Pids -> Children]
    BY <2>1, <2>2 DEF ChildTypes
  <2>4. view' = [view EXCEPT ![nextPid] = [ChannelsOf(t) EXCEPT ![s] = None]]
    BY DEF Spawn
  <2>5. [ChannelsOf(t) EXCEPT ![s] = None] \in Views
    BY DEF ChannelsOf, Views, Entries
  <2>6. view' \in [Pids -> Views]
    BY <2>4, <2>5 DEF ChildTypes
  <2>7. nextPid' \in 1 .. MaxPid + 1
    BY <1>1, ConstantTypes DEF Pids
  <2> QED BY <2>3, <2>6, <2>7 DEF ChildTypes
<1>5. InboxTypes'
  <2>1. inbox' = PassOpenChannel(in, t2, last', s)
    BY DEF Spawn
  <2> HIDE DEF t2
  <2> QED BY <1>2, <2>1, PassOpenTypes DEF InboxTypes
<1> QED BY <1>3, <1>4, <1>5

LEMMA SpawnFailedTypes ==
    ASSUME TableTypes, ChildTypes, NEW t \in [Slots -> Entries], NEW s \in Slots,
           NEW t2, NEW moved, SpawnFailed(t, s, t2, moved)
    PROVE  TableTypes' /\ child' = child /\ view' = view /\ nextPid' = nextPid
<1>1. t2 \in [Slots -> Entries]
  BY DEF SpawnFailed, Entries
<1> QED BY <1>1 DEF SpawnFailed, TableTypes

(* Moving about in the round.                                               *)
LEMMA TurnTypes ==
    ASSUME LoopTypes, NextTurn
    PROVE  LoopTypes'
<1>1. at' = at /\ loop' = [loop EXCEPT !.i = @ + 1]
  BY DEF NextTurn
<1>2. loop.i \in Nat /\ loop.i + 1 \in Nat /\ loop.i + 1 # 0
  BY DEF LoopTypes
<1>3. loop' \in [i : Nat, what : Whats, then : Thens, channel : Pids \cup {None}]
  BY <1>1, <1>2 DEF LoopTypes
<1>4. loop'.i # 0 /\ loop'.what = loop.what /\ loop'.then = loop.then
  BY <1>1, <1>2 DEF LoopTypes
<1> QED BY <1>1, <1>3, <1>4 DEF LoopTypes

LEMMA GotoTypes ==
    ASSUME NEW l \in Places \ {"start", "reap", "signal"}, Goto(l)
    PROVE  LoopTypes'
BY DEF LoopTypes, Goto, NoLoop, Whats, Thens, Places

LEMMA LoopingTypes ==
    ASSUME NEW l \in {"start", "signal"}, NEW first \in Nat, NEW what \in Whats,
           NEW then \in Thens, Loop(l, first, what, then),
           l = "start" => /\ first # 0 /\ what \in {"respawn", "just_respawn"}
                          /\ then \in {"top", "reconfigured", "reopen"},
           l = "signal" => /\ what \in {"quit", "terminate", "reopen", "kill"}
                           /\ then \in {"top", "restart", "change_binary"}
    PROVE  LoopTypes'
BY DEF LoopTypes, Loop, NoLoop, Places

(* Steps that leave the types of the rest alone.                            *)
LEMMA OnlyMasterTypes ==
    ASSUME TypeInv, OnlyMaster
    PROVE  TableTypes' /\ InboxTypes' /\ ChildTypes'
BY DEF TypeInv, OnlyMaster, tableVars, childVars, TableTypes, InboxTypes, ChildTypes

LEMMA SpendTypes ==
    ASSUME OuterTypes, NEW what \in {"signals", "crashes", "faults"}, Spend(what)
    PROVE  budget' \in [{"signals", "crashes", "faults"} -> Nat]
<1>1. budget[what] - 1 \in Nat
  BY DEF OuterTypes, Spend
<1> QED BY <1>1 DEF OuterTypes, Spend

LEMMA OuterSame ==
    ASSUME OuterTypes, pending' = pending, timer' = timer,
           budget' = budget \/ (\E what \in {"signals", "crashes", "faults"} : Spend(what))
    PROVE  OuterTypes'
BY SpendTypes DEF OuterTypes

LEMMA MasterSame ==
    ASSUME MasterTypes, UNCHANGED masterVars
    PROVE  MasterTypes'
BY DEF MasterTypes, masterVars

LEMMA StartTypes ==
    ASSUME TypeInv, StartProcess \/ StartProcessFails \/ Started
    PROVE  TypeInv'
<1> USE DEF TypeInv
<1>1. CASE StartProcess
  <2>1. NewSlot \in Slots /\ NewSlot <= last
    BY <1>1, NewSlotFree DEF StartProcess, TableTypes
  <2>2. Kinds[loop.i] \in {"worker", "manager", "loader"}
    BY <1>1, ConstantTypes DEF StartProcess, LoopTypes
  <2>3. NewEntry(Kinds[loop.i], loop.what) \in Entries
    BY <2>2 DEF NewEntry, FreeSlot, Entries
  <2>4. TableTypes' /\ ChildTypes' /\ InboxTypes'
    BY <1>1, <2>1, <2>3, SpawnTypes DEF StartProcess, TableTypes, InboxTypes
  <2>5. LoopTypes'
    BY <1>1, TurnTypes DEF StartProcess
  <2>6. MasterTypes'
    BY <1>1, MasterSame DEF StartProcess
  <2>7. OuterTypes'
    BY <1>1, OuterSame DEF StartProcess
  <2> QED BY <2>4, <2>5, <2>6, <2>7
<1>2. CASE StartProcessFails
  <2>1. TableTypes' /\ UNCHANGED <<child, view, nextPid>>
    <3>1. CASE /\ NewSlot \in Slots
               /\ \E t2 \in FailedTables(proc, NewSlot), moved \in BOOLEAN :
                     SpawnFailed(proc, NewSlot, t2, moved)
      BY <3>1, SpawnFailedTypes DEF TableTypes
    <3>2. CASE UNCHANGED <<tableVars, child, view, nextPid>>
      BY <3>2 DEF tableVars, TableTypes
    <3> QED BY <1>2, <3>1, <3>2 DEF StartProcessFails
  <2>2. ChildTypes'
    BY <2>1 DEF ChildTypes
  <2>3. InboxTypes'
    <3>1. inbox' = PassOpenChannel(inbox, proc', last', slot')
      BY <1>2 DEF StartProcessFails
    <3>2. proc' \in [Slots -> Entries] /\ slot' \in Slots
      BY <2>1 DEF TableTypes
    <3> QED BY <3>1, <3>2, PassOpenTypes DEF InboxTypes
  <2>4. LoopTypes'
    BY <1>2, TurnTypes DEF StartProcessFails
  <2>5. MasterTypes'
    BY <1>2, MasterSame DEF StartProcessFails
  <2>6. OuterTypes'
    BY <1>2, OuterSame DEF StartProcessFails
  <2> QED BY <2>1, <2>2, <2>3, <2>4, <2>5, <2>6
<1>3. CASE Started
  <2>1. LoopTypes'
    BY <1>3, GotoTypes DEF Started, LoopTypes, Places
  <2>2. MasterTypes' /\ OuterTypes'
    BY <1>3, MasterSame, OuterSame DEF Started, OnlyMaster
  <2> QED BY <1>3, <2>1, <2>2, OnlyMasterTypes DEF Started
<1> QED BY <1>1, <1>2, <1>3

(* ngx_reap_children.                                                       *)
LEMMA EntryTypes ==
    ASSUME TypeInv, InTable \/ InSignal
    PROVE  /\ loop.i \in Used /\ loop.i \in Slots /\ loop.i < last /\ last \in Nat
           /\ Entry \in Entries
BY ConstantTypes DEF TypeInv, InTable, InSignal, LoopTypes, TableTypes, Used, Slots, Entry

LEMMA ClosedTypes ==
    ASSUME TypeInv, InTable
    PROVE  /\ ClosedTable \in [Slots -> Entries]
           /\ ClosedInbox \in [Pids -> Seq(Messages)]
           /\ \A p \in Pids : Len(ClosedInbox[p]) <= ChannelSize
<1>1. loop.i \in Slots
  BY EntryTypes
<1>2. ClosedTable \in [Slots -> Entries]
  <2>1. proc \in [Slots -> Entries]
    BY DEF TypeInv, TableTypes
  <2>2. [proc EXCEPT ![loop.i].channel = None] \in [Slots -> Entries]
    BY <1>1, <2>1 DEF Entries
  <2> QED BY <2>1, <2>2 DEF ClosedTable
<1>3. [command |-> loop.what, slot |-> loop.i, channel |-> loop.channel] \in Messages
  BY <1>1 DEF TypeInv, LoopTypes, InTable, Messages
<1>4. CASE Entry.detached
  BY <1>2, <1>4 DEF ClosedInbox, TypeInv, InboxTypes
<1>5. CASE ~Entry.detached
  BY <1>2, <1>3, <1>5, WrittenTypes DEF ClosedInbox, PassCloseChannel, TypeInv, InboxTypes
<1> QED BY <1>2, <1>4, <1>5

LEMMA ReapTypes ==
    ASSUME TypeInv,
           ReapNothing \/ ReapRespawn \/ ReapRespawnFails \/ ReapRemove \/ Reaped
    PROVE  TypeInv'
<1> USE DEF TypeInv
<1>1. CASE ReapNothing
  <2>1. live' \in BOOLEAN
    BY <1>1 DEF ReapNothing, MasterTypes
  <2>2. MasterTypes'
    BY <1>1, <2>1 DEF ReapNothing, MasterTypes
  <2>3. LoopTypes' /\ OuterTypes'
    BY <1>1, TurnTypes, OuterSame DEF ReapNothing, OnlyMaster
  <2> QED BY <1>1, <2>2, <2>3, OnlyMasterTypes DEF ReapNothing
<1>2. CASE ReapRespawn
  <2>1. /\ loop.i \in Slots /\ loop.i <= last /\ ClosedTable \in [Slots -> Entries]
        /\ ClosedInbox \in [Pids -> Seq(Messages)]
        /\ \A p \in Pids : Len(ClosedInbox[p]) <= ChannelSize
    BY <1>2, EntryTypes, ClosedTypes DEF ReapRespawn, Slots
  <2>2. Spawn(ClosedTable, loop.i, ClosedTable[loop.i], ClosedInbox)
    BY <1>2 DEF ReapRespawn
  <2>3. TableTypes' /\ ChildTypes' /\ InboxTypes'
    BY <2>1, <2>2, SpawnTypes
  <2>4. LoopTypes'
    <3>1. nextPid \in Pids /\ at' = "reap"
      BY <1>2, <2>2 DEF Spawn, ReapRespawn, InTable
    <3>2. loop' = [loop EXCEPT !.i = @ + 1, !.what = "open", !.channel = nextPid]
      BY <1>2 DEF ReapRespawn
    <3>3. PICK k \in Nat : k = loop.i + 1
      BY DEF LoopTypes
    <3>4. loop' = [loop EXCEPT !.i = k, !.what = "open", !.channel = nextPid]
      BY <3>2, <3>3
    <3>5. /\ loop' \in [i : Nat, what : Whats, then : Thens, channel : Pids \cup {None}]
          /\ loop'.what = "open"
      BY <3>1, <3>4, Zenon DEF LoopTypes, Whats
    <3> QED BY <3>1, <3>5 DEF LoopTypes, Places
  <2>5. MasterTypes' /\ OuterTypes'
    BY <1>2, OuterSame DEF ReapRespawn, MasterTypes
  <2> QED BY <2>3, <2>4, <2>5
<1>3. CASE ReapRespawnFails
  <2>1. /\ loop.i \in Slots /\ ClosedTable \in [Slots -> Entries]
        /\ ClosedInbox \in [Pids -> Seq(Messages)]
        /\ \A p \in Pids : Len(ClosedInbox[p]) <= ChannelSize
    BY <1>3, EntryTypes, ClosedTypes DEF ReapRespawnFails
  <2>2. TableTypes' /\ UNCHANGED <<child, view, nextPid>>
    BY <1>3, <2>1, SpawnFailedTypes DEF ReapRespawnFails
  <2>3. InboxTypes' /\ ChildTypes'
    BY <1>3, <2>1, <2>2 DEF ReapRespawnFails, InboxTypes, ChildTypes
  <2>4. LoopTypes'
    BY <1>3, TurnTypes DEF ReapRespawnFails
  <2>5. MasterTypes' /\ OuterTypes'
    BY <1>3, MasterSame, OuterSame DEF ReapRespawnFails
  <2> QED BY <2>2, <2>3, <2>4, <2>5
<1>4. CASE ReapRemove
  <2>1. /\ loop.i \in Slots /\ loop.i < last /\ last \in Nat
        /\ ClosedTable \in [Slots -> Entries]
        /\ ClosedInbox \in [Pids -> Seq(Messages)]
        /\ \A p \in Pids : Len(ClosedInbox[p]) <= ChannelSize
    BY <1>4, EntryTypes, ClosedTypes DEF ReapRemove
  <2>2. proc' \in [Slots -> Entries]
    <3>1. proc' \in {ClosedTable, [ClosedTable EXCEPT ![loop.i].pid = None]}
      BY <1>4 DEF ReapRemove
    <3>2. [ClosedTable[loop.i] EXCEPT !.pid = None] \in Entries
      BY <2>1 DEF Entries
    <3> QED BY <2>1, <3>1, <3>2
  <2>3. last' \in 0 .. MaxProcesses
    <3>1. last \in 0 .. MaxProcesses /\ loop.i >= 0
      BY <2>1 DEF TableTypes, Slots
    <3>2. last' = last \/ last' = last - 1
      BY <1>4 DEF ReapRemove
    <3> QED BY <2>1, <3>1, <3>2, ConstantTypes DEF Slots
  <2>4. TableTypes'
    BY <1>4, <2>2, <2>3 DEF TableTypes, ReapRemove
  <2>5. InboxTypes' /\ ChildTypes'
    BY <1>4, <2>1 DEF ReapRemove, InboxTypes, ChildTypes
  <2>6. LoopTypes' /\ OuterTypes'
    BY <1>4, TurnTypes, OuterSame DEF ReapRemove
  <2>7. MasterTypes'
    BY <1>4 DEF ReapRemove, AfterBinary, MasterTypes, Flags
  <2> QED BY <2>4, <2>5, <2>6, <2>7
<1>5. CASE Reaped
  <2>1. LoopTypes'
    BY <1>5, GotoTypes DEF Reaped, Places
  <2>2. MasterTypes' /\ OuterTypes'
    BY <1>5, MasterSame, OuterSame DEF Reaped, OnlyMaster
  <2> QED BY <1>5, <2>1, <2>2, OnlyMasterTypes DEF Reaped
<1> QED BY <1>1, <1>2, <1>3, <1>4, <1>5

(* ngx_signal_worker_processes.                                             *)
LEMMA MarkTypes ==
    ASSUME TypeInv, InSignal
    PROVE  /\ MarkExiting \in [Slots -> Entries]
           /\ [proc EXCEPT ![loop.i].just_spawn = FALSE] \in [Slots -> Entries]
           /\ [proc EXCEPT ![loop.i].exited = TRUE, ![loop.i].exiting = FALSE]
                 \in [Slots -> Entries]
<1>1. /\ loop.i \in Slots /\ proc \in [Slots -> Entries]
      /\ proc[loop.i] \in Entries
  BY EntryTypes DEF TypeInv, TableTypes
<1>2. (proc[loop.i].exiting \/ loop.what # "reopen") \in BOOLEAN
  OBVIOUS
<1>3. [proc[loop.i] EXCEPT !.exiting = @ \/ loop.what # "reopen"] \in Entries
  BY <1>1, <1>2, Zenon DEF Entries
<1>4. [proc[loop.i] EXCEPT !.just_spawn = FALSE] \in Entries
  BY <1>1, Zenon DEF Entries
<1>5. MarkExiting \in [Slots -> Entries]
  BY <1>1, <1>3, Zenon DEF MarkExiting
<1>6. [proc EXCEPT ![loop.i].just_spawn = FALSE] \in [Slots -> Entries]
  BY <1>1, <1>4
<1>7. [proc EXCEPT ![loop.i].exited = TRUE, ![loop.i].exiting = FALSE]
           \in [Slots -> Entries]
  <2> DEFINE e == [proc[loop.i] EXCEPT !.exited = TRUE, !.exiting = FALSE]
  <2>1. [proc EXCEPT ![loop.i].exited = TRUE, ![loop.i].exiting = FALSE]
            = [proc EXCEPT ![loop.i] = e]
    BY <1>1
  <2>2. e \in Entries
    BY <1>1, Zenon DEF Entries
  <2> HIDE DEF e
  <2>3. [proc EXCEPT ![loop.i] = e] \in [Slots -> Entries]
    BY <1>1, <2>2
  <2> QED BY <2>1, <2>3
<1> QED BY <1>5, <1>6, <1>7

LEMMA SignalTypes ==
    ASSUME TypeInv, SignalSkip \/ SignalByChannel \/ SignalByKill \/ Signalled
    PROVE  TypeInv'
<1> USE DEF TypeInv
<1>1. CASE SignalSkip
  <2>1. proc' \in [Slots -> Entries]
    BY <1>1, MarkTypes DEF SignalSkip, TableTypes
  <2>2. TableTypes' /\ ChildTypes' /\ InboxTypes'
    BY <1>1, <2>1 DEF SignalSkip, TableTypes, ChildTypes, InboxTypes, childVars
  <2>3. LoopTypes' /\ MasterTypes' /\ OuterTypes'
    BY <1>1, TurnTypes, MasterSame, OuterSame DEF SignalSkip
  <2> QED BY <2>2, <2>3
<1>2. CASE SignalByChannel
  <2>1. TableTypes'
    BY <1>2, MarkTypes DEF SignalByChannel, TableTypes
  <2>2. [command |-> loop.what, slot |-> 0, channel |-> None] \in Messages
    BY <1>2, ConstantTypes DEF SignalByChannel, InSignal, LoopTypes, Messages
  <2>3. InboxTypes'
    BY <1>2, <2>2, WrittenTypes DEF SignalByChannel, InboxTypes
  <2>4. LoopTypes' /\ MasterTypes' /\ OuterTypes' /\ ChildTypes'
    BY <1>2, TurnTypes, MasterSame, OuterSame DEF SignalByChannel, ChildTypes
  <2> QED BY <2>1, <2>3, <2>4
<1>3. CASE SignalByKill
  <2>1. TableTypes'
    BY <1>3, MarkTypes DEF SignalByKill, TableTypes
  <2>2. child' \in [Pids -> Children]
    <3>1. child \in [Pids -> Children]
          /\ loop.what \in {"quit", "terminate", "reopen", "kill"}
      BY <1>3 DEF ChildTypes, LoopTypes, SignalByKill, InSignal
    <3>2. \A p \in Pids : /\ [child[p] EXCEPT !.state = "zombie"] \in Children
                          /\ [child[p] EXCEPT !.flags = @ \cup {loop.what}] \in Children
      BY <3>1 DEF Children
    <3>3. \/ child' = child
          \/ child' = [child EXCEPT ![Entry.pid].state = "zombie"]
          \/ child' = [child EXCEPT ![Entry.pid].flags = @ \cup {loop.what}]
      BY <1>3 DEF SignalByKill
    <3>4. CASE Entry.pid \in Pids
      BY <3>1, <3>2, <3>3, <3>4
    <3>5. CASE Entry.pid \notin Pids
      BY <3>1, <3>3, <3>5
    <3> QED BY <3>4, <3>5
  <2>3. ChildTypes' /\ InboxTypes'
    BY <1>3, <2>2 DEF SignalByKill, ChildTypes, InboxTypes
  <2>4. pending' \subseteq Flags \cup {"sigio"}
    BY <1>3 DEF SignalByKill, OuterTypes, Flags
  <2>5. OuterTypes'
    BY <1>3, <2>4 DEF SignalByKill, OuterTypes
  <2>6. MasterTypes'
    <3>1. flags' \subseteq Flags
      BY <1>3 DEF SignalByKill, MasterTypes, Flags
    <3> QED BY <1>3, <3>1 DEF SignalByKill, MasterTypes
  <2>7. LoopTypes'
    BY <1>3, TurnTypes DEF SignalByKill
  <2> QED BY <2>1, <2>3, <2>5, <2>6, <2>7
<1>4. CASE Signalled
  <2>1. LoopTypes'
    BY <1>4, GotoTypes DEF Signalled, LoopTypes, Places
  <2>2. MasterTypes' /\ OuterTypes'
    BY <1>4, MasterSame, OuterSame DEF Signalled, OnlyMaster
  <2> QED BY <1>4, <2>1, <2>2, OnlyMasterTypes DEF Signalled
<1> QED BY <1>1, <1>2, <1>3, <1>4

(* Signals delivered, children waited for.                                  *)
LEMMA DeliverTypes ==
    ASSUME TypeInv, Deliver
    PROVE  TypeInv'
<1> USE DEF TypeInv
<1>1. MasterTypes'
  <2>1. flags' \subseteq Flags
    BY DEF Deliver, MasterTypes, OuterTypes, Flags
  <2>2. live' \in BOOLEAN
    BY DEF Deliver, MasterTypes
  <2> QED BY <2>1, <2>2 DEF Deliver, MasterTypes
<1>2. LoopTypes'
  <2>1. CASE Goto("check")
    BY <2>1, GotoTypes DEF Places
  <2>2. CASE at' = "reap" /\ loop' = [NoLoop EXCEPT !.what = "close"]
    BY <2>2 DEF LoopTypes, NoLoop, Whats, Thens, Places
  <2> QED BY <2>1, <2>2 DEF Deliver
<1>3. OuterTypes'
  BY DEF Deliver, OuterTypes
<1>4. TableTypes' /\ ChildTypes' /\ InboxTypes'
  <2>1. CASE "reap" \in pending
    <3>1. proc' \in [Slots -> Entries]
      <4>1. \A s \in Slots : proc[s] \in Entries
        BY DEF TableTypes
      <4>2. \A e \in Entries : Waited(e) \in Entries
        <5> SUFFICES ASSUME NEW e \in Entries PROVE Waited(e) \in Entries
          OBVIOUS
        <5>1. (e.respawn /\ child[e.pid].code # 2) \in BOOLEAN
          BY DEF Entries
        <5> QED BY <5>1, Zenon DEF Entries, Waited
      <4>3. proc' = [s \in Slots |-> IF s \in Used /\ proc[s].pid \in Ended
                                       THEN Waited(proc[s]) ELSE proc[s]]
        BY <2>1 DEF Deliver
      <4> QED BY <4>1, <4>2, <4>3
    <3>2. child' \in [Pids -> Children]
      <4>1. \A p \in Pids : child[p] \in Children
        BY DEF ChildTypes
      <4>2. \A c \in Children : [c EXCEPT !.state = "reaped"] \in Children
        BY DEF Children
      <4>3. child' = [p \in Pids |-> IF p \in Ended
                          THEN [child[p] EXCEPT !.state = "reaped"] ELSE child[p]]
        BY <2>1 DEF Deliver
      <4> QED BY <4>1, <4>2, <4>3
    <3>3. inbox' = [p \in Pids |-> IF p \in Ended THEN <<>> ELSE inbox[p]]
      BY <2>1 DEF Deliver
    <3>4. InboxTypes'
      BY <3>3, ConstantTypes DEF InboxTypes
    <3>5. view' = [p \in Pids |-> IF p \in Ended THEN NoView ELSE view[p]]
      BY <2>1 DEF Deliver
    <3>6. view' \in [Pids -> Views]
      BY <3>5 DEF ChildTypes, NoView, Views
    <3> QED BY <3>1, <3>2, <3>4, <3>6 DEF TableTypes, ChildTypes, Deliver
  <2>2. CASE "reap" \notin pending
    BY <2>2 DEF Deliver, TableTypes, ChildTypes, InboxTypes, childVars
  <2> QED BY <2>1, <2>2
<1> QED BY <1>1, <1>2, <1>3, <1>4

(* The rest of the round, by what it changes.                               *)
LEMMA RoundLoopTypes ==
    ASSUME TypeInv,
           \/ Top \/ Exit \/ Terminate \/ Quit \/ Continue \/ WorkersAgain \/ Reconfigure
           \/ Reconfigured \/ NoReconfigure \/ Restart \/ Reopen \/ ChangeBinary
           \/ ChangeBinaryFails \/ ChangeBinaryForkFails \/ NoChangeBinary \/ Noaccept
    PROVE  LoopTypes'
<1>1. CASE \E l \in Places \ {"start", "reap", "signal"} : Goto(l)
  BY <1>1, GotoTypes
<1>2. CASE Terminate /\ ~Goto("top")
  <2>1. PICK w \in {"kill", "terminate"} : Loop("signal", 0, w, "top")
    BY <1>2 DEF Terminate
  <2> QED BY <2>1, LoopingTypes DEF Whats, Thens
<1>3. CASE \E w \in {"quit", "reopen"}, t \in {"top", "restart", "change_binary"} :
               Loop("signal", 0, w, t)
  BY <1>3, LoopingTypes DEF Whats, Thens
<1>4. CASE \E w \in {"respawn", "just_respawn"}, t \in {"top", "reconfigured", "reopen"} :
               Loop("start", 1, w, t)
  BY <1>4, LoopingTypes DEF Whats, Thens
<1>5. \/ \E l \in Places \ {"start", "reap", "signal"} : Goto(l)
      \/ Terminate /\ ~Goto("top")
      \/ \E w \in {"quit", "reopen"}, t \in {"top", "restart", "change_binary"} :
               Loop("signal", 0, w, t)
      \/ \E w \in {"respawn", "just_respawn"}, t \in {"top", "reconfigured", "reopen"} :
               Loop("start", 1, w, t)
  BY DEF Places, Top, Exit, Quit, Continue, WorkersAgain, Reconfigure, Reconfigured,
         NoReconfigure, Restart, Reopen, ChangeBinary, ChangeBinaryFails,
         ChangeBinaryForkFails,
         NoChangeBinary, Noaccept
<1> QED BY <1>1, <1>2, <1>3, <1>4, <1>5

LEMMA RoundMasterTypes ==
    ASSUME TypeInv,
           \/ Top \/ Exit \/ Terminate \/ Quit \/ Continue \/ WorkersAgain \/ Reconfigure
           \/ Reconfigured \/ NoReconfigure \/ Restart \/ Reopen \/ ChangeBinary
           \/ ChangeBinaryFails \/ ChangeBinaryForkFails \/ NoChangeBinary \/ Noaccept
    PROVE  MasterTypes'
<1> USE DEF TypeInv, MasterTypes
<1>1. CASE Top
  <2>1. delay' \in Nat
    BY <1>1 DEF Top, NextDelay
  <2> QED BY <1>1, <2>1 DEF Top
<1>2. CASE Terminate
  <2>1. delay' \in Nat
    BY <1>2, MasterAssumption DEF Terminate
  <2>2. sigio' \in Nat
    <3>1. WorkerProcesses \in Nat
      <4>1. {i \in DOMAIN Kinds : Kinds[i] = "worker"} \subseteq 1 .. Len(Kinds)
        BY MasterAssumption
      <4>2. IsFiniteSet({i \in DOMAIN Kinds : Kinds[i] = "worker"})
        BY <4>1, MasterAssumption, FS_Interval, FS_Subset
      <4> QED BY <4>2, FS_CardinalityType DEF WorkerProcesses
    <3> QED BY <1>2, <3>1 DEF Terminate, RoundsLeft
  <2> QED BY <1>2, <2>1, <2>2 DEF Terminate
<1>3. CASE ChangeBinary
  <2>1. nextPid \in Pids
    BY <1>3 DEF ChangeBinary
  <2> QED BY <1>3, <2>1 DEF ChangeBinary
<1>4. CASE ChangeBinaryFails \/ ChangeBinaryForkFails
  BY <1>4 DEF ChangeBinaryFails, ChangeBinaryForkFails, InvalidPid
<1>5. CASE Exit \/ Quit \/ Continue \/ NoReconfigure \/ NoChangeBinary
  BY <1>5 DEF Exit, Quit, Continue, NoReconfigure, NoChangeBinary, masterVars
<1>6. CASE WorkersAgain \/ Reconfigure \/ Reconfigured
  BY <1>6 DEF WorkersAgain, Reconfigure, Reconfigured
<1>7. CASE Restart \/ Reopen \/ Noaccept
  BY <1>7 DEF Restart, Reopen, Noaccept
<1> QED BY <1>1, <1>2, <1>3, <1>4, <1>5, <1>6, <1>7

LEMMA RoundTypes ==
    ASSUME TypeInv,
           \/ Top \/ Exit \/ Terminate \/ Quit \/ Continue \/ WorkersAgain \/ Reconfigure
           \/ Reconfigured \/ NoReconfigure \/ Restart \/ Reopen \/ ChangeBinary
           \/ ChangeBinaryFails \/ ChangeBinaryForkFails \/ NoChangeBinary \/ Noaccept
    PROVE  TypeInv'
<1> USE DEF TypeInv
<1>1. LoopTypes' /\ MasterTypes'
  BY RoundLoopTypes, RoundMasterTypes
<1>2. CASE Top
  <2>1. TableTypes' /\ ChildTypes' /\ InboxTypes'
    BY <1>2 DEF Top, tableVars, childVars, TableTypes, ChildTypes, InboxTypes
  <2>2. pending' = pending /\ budget' = budget /\ timer' \in BOOLEAN
    BY <1>2 DEF Top, OuterTypes
  <2> QED BY <1>1, <2>1, <2>2 DEF OuterTypes
<1>3. CASE ChangeBinary
  <2>1. NewSlot \in Slots /\ NewSlot <= last /\ nextPid \in Pids
    BY <1>3, NewSlotFree DEF ChangeBinary, TableTypes
  <2>2. [FreeSlot EXCEPT !.kind = "binary", !.pid = nextPid, !.detached = TRUE] \in Entries
    BY <2>1 DEF FreeSlot, Entries
  <2>3. proc' \in [Slots -> Entries]
    BY <1>3, <2>1, <2>2 DEF ChangeBinary, TableTypes
  <2>4. last' \in 0 .. MaxProcesses
    BY <1>3, <2>1, ConstantTypes DEF ChangeBinary, TableTypes, Slots
  <2>5. [state |-> "run", kind |-> "binary", code |-> 0, flags |-> {}] \in Children
    BY DEF Children
  <2>6. child' \in [Pids -> Children]
    BY <1>3, <2>1, <2>5 DEF ChangeBinary, ChildTypes
  <2>7. nextPid' \in 1 .. MaxPid + 1
    BY <1>3, <2>1, ConstantTypes DEF ChangeBinary, Pids
  <2>8. TableTypes' /\ ChildTypes'
    BY <1>3, <2>1, <2>3, <2>4, <2>6, <2>7 DEF ChangeBinary, TableTypes, ChildTypes
  <2>9. InboxTypes' /\ OuterTypes'
    BY <1>3, OuterSame DEF ChangeBinary, InboxTypes
  <2> QED BY <1>1, <2>8, <2>9
<1>4. CASE ChangeBinaryForkFails
  <2>1. NewSlot \in Slots
    BY <1>4 DEF ChangeBinaryForkFails
  <2>2. [proc[NewSlot] EXCEPT !.channel = None] \in Entries
    BY <2>1 DEF TableTypes, Entries
  <2>3. TableTypes' /\ ChildTypes' /\ InboxTypes'
    BY <1>4, <2>1, <2>2
       DEF ChangeBinaryForkFails, TableTypes, ChildTypes, InboxTypes, childVars
  <2>4. OuterTypes'
    BY <1>4, OuterSame DEF ChangeBinaryForkFails
  <2> QED BY <1>1, <2>3, <2>4
<1>5. CASE OnlyMaster
  <2>1. TableTypes' /\ ChildTypes' /\ InboxTypes'
    BY <1>5, OnlyMasterTypes
  <2>2. CASE budget' = budget
    BY <1>1, <1>5, <2>1, <2>2, OuterSame DEF OnlyMaster
  <2>3. CASE Spend("faults")
    BY <1>1, <1>5, <2>1, <2>3, OuterSame DEF OnlyMaster
  <2>4. CASE Top \/ ChangeBinary \/ ChangeBinaryForkFails
    BY <1>2, <1>3, <1>4, <2>4
  <2> QED BY <2>2, <2>3, <2>4
          DEF Exit, Terminate, Quit, Continue, WorkersAgain, Reconfigure, Reconfigured,
              NoReconfigure, Restart, Reopen, ChangeBinaryFails, NoChangeBinary, Noaccept
<1> QED BY <1>2, <1>3, <1>4, <1>5
        DEF Exit, Terminate, Quit, Continue, WorkersAgain, Reconfigure, Reconfigured,
            NoReconfigure, Restart, Reopen, ChangeBinaryFails, NoChangeBinary, Noaccept

(* The children, the administrator and the timer.                           *)
LEMMA ChildTypesStep ==
    ASSUME TypeInv, NEW p \in Pids, ChildStep(p) \/ Crash(p)
    PROVE  TypeInv'
<1> USE DEF TypeInv
<1>1. child[p] \in Children /\ child \in [Pids -> Children]
  BY DEF ChildTypes
<1>2. LoopTypes' /\ MasterTypes' /\ TableTypes'
  <2>1. OnlyChild
    BY DEF ChildStep, Crash, Initialised, ReadChannel, ReopenFiles, GracefulExit,
           ExitProcess, End
  <2> QED BY <2>1 DEF OnlyChild, tableVars, masterVars, LoopTypes, MasterTypes, TableTypes
<1>3. OuterTypes'
  <2>1. timer' = timer
    BY DEF ChildStep, Crash, Initialised, ReadChannel, ReopenFiles, GracefulExit,
           ExitProcess, End, OnlyChild
  <2>2. pending' = pending \/ pending' = pending \cup {"reap"}
    BY DEF ChildStep, Crash, Initialised, ReadChannel, ReopenFiles, GracefulExit,
           ExitProcess, End
  <2>3. budget' = budget \/ Spend("crashes")
    BY DEF ChildStep, Crash, Initialised, ReadChannel, ReopenFiles, GracefulExit,
           ExitProcess, End
  <2>4. budget' \in [{"signals", "crashes", "faults"} -> Nat]
    BY <2>3, SpendTypes DEF OuterTypes
  <2> QED BY <2>1, <2>2, <2>4 DEF OuterTypes, Flags
<1>4. CASE ReadChannel(p)
  <2>1. inbox[p] \in Seq(Messages) /\ inbox[p] # <<>> /\ Len(inbox[p]) <= ChannelSize
    BY <1>4 DEF ReadChannel, InboxTypes
  <2>2. /\ Head(inbox[p]) \in Messages /\ Tail(inbox[p]) \in Seq(Messages)
        /\ Len(Tail(inbox[p])) <= ChannelSize
    BY <2>1, ConstantTypes
  <2>3. InboxTypes'
    BY <1>4, <2>2 DEF ReadChannel, InboxTypes
  <2> DEFINE m == Head(inbox[p])
  <2>4. CASE m.command \in {"open", "close"}
    <3>1. child' = child /\ view' = [view EXCEPT ![p][m.slot] = m.channel]
      BY <1>4, <2>4 DEF ReadChannel
    <3>2. m.slot \in Slots /\ m.channel \in Pids \cup {None, Stale}
      BY <2>2 DEF Messages
    <3>3. view[p] \in Views
      BY DEF ChildTypes
    <3>4. [view[p] EXCEPT ![m.slot] = m.channel] \in Views
      BY <3>2, <3>3 DEF Views
    <3>5. view' \in [Pids -> Views]
      BY <3>1, <3>4 DEF ChildTypes
    <3> QED BY <1>4, <2>3, <1>2, <1>3, <3>1, <3>5 DEF ChildTypes, ReadChannel, OnlyChild
  <2>5. CASE m.command \notin {"open", "close"}
    <3>1. view' = view /\ child' = [child EXCEPT ![p].flags = @ \cup {m.command}]
      BY <1>4, <2>5 DEF ReadChannel
    <3>2. m.command \in {"quit", "terminate", "reopen"}
      BY <2>2, <2>5 DEF Messages
    <3>3. [child[p] EXCEPT !.flags = @ \cup {m.command}] \in Children
      BY <1>1, <3>2 DEF Children
    <3>4. child' \in [Pids -> Children]
      BY <1>1, <3>1, <3>3
    <3> QED BY <1>4, <2>3, <1>2, <1>3, <3>1, <3>4 DEF ChildTypes, ReadChannel, OnlyChild
  <2> QED BY <2>4, <2>5
<1>5. CASE ~ReadChannel(p)
  <2>1. inbox' = inbox /\ view' = view /\ nextPid' = nextPid
    BY <1>5 DEF ChildStep, Crash, Initialised, ReopenFiles, GracefulExit, ExitProcess, End,
                OnlyChild
  <2>2. \E c \in Children : child' = [child EXCEPT ![p] = c]
    <3>1. CASE Initialised(p)
      <4>1. [child[p] EXCEPT !.state = "run"] \in Children
        BY <1>1 DEF Children
      <4> QED BY <1>1, <3>1, <4>1 DEF Initialised
    <3>2. CASE ReopenFiles(p)
      <4>1. [child[p] EXCEPT !.flags = @ \ {"reopen"}] \in Children
        BY <1>1 DEF Children
      <4> QED BY <1>1, <3>2, <4>1 DEF ReopenFiles
    <3>3. CASE GracefulExit(p)
      <4>1. (child[p].flags \ {"quit"}) \in SUBSET {"quit", "terminate", "reopen", "kill"}
        BY <1>1 DEF Children
      <4>2. [child[p] EXCEPT !.state = "exiting", !.flags = @ \ {"quit"}] \in Children
        BY <1>1, <4>1, Zenon DEF Children
      <4>3. child' = [child EXCEPT ![p].state = "exiting", ![p].flags = @ \ {"quit"}]
        BY <3>3 DEF GracefulExit
      <4>4. child' = [child EXCEPT ![p] =
                         [child[p] EXCEPT !.state = "exiting", !.flags = @ \ {"quit"}]]
        BY <1>1, <4>3
      <4> QED BY <4>2, <4>4
    <3>4. CASE ExitProcess(p) \/ Crash(p)
      <4>1. PICK code \in 0 .. 2 :
                child' = [child EXCEPT ![p].state = "zombie", ![p].code = code,
                                       ![p].flags = {}]
        <5>1. CASE ExitProcess(p)
          <6>1. child' = [child EXCEPT ![p].state = "zombie", ![p].code = 0,
                                       ![p].flags = {}]
            BY <5>1, Zenon DEF ExitProcess, End
          <6> QED BY <6>1
        <5>2. CASE Crash(p)
          <6>1. PICK code \in IF child[p].state = "init" THEN {1, 2} ELSE {1} :
                    child' = [child EXCEPT ![p].state = "zombie", ![p].code = code,
                                           ![p].flags = {}]
            BY <5>2, Zenon DEF Crash
          <6>2. code \in 0 .. 2
            OBVIOUS
          <6> QED BY <6>1, <6>2
        <5> QED BY <3>4, <5>1, <5>2
      <4>2. [child[p] EXCEPT !.state = "zombie", !.code = code, !.flags = {}] \in Children
        BY <1>1, Zenon DEF Children
      <4>3. child' = [child EXCEPT ![p] =
                 [child[p] EXCEPT !.state = "zombie", !.code = code, !.flags = {}]]
        BY <1>1, <4>1
      <4> QED BY <4>2, <4>3
    <3> QED BY <1>5, <3>1, <3>2, <3>3, <3>4 DEF ChildStep
  <2>3. child' \in [Pids -> Children]
    BY <1>1, <2>2
  <2> QED BY <1>2, <1>3, <2>1, <2>3 DEF ChildTypes, InboxTypes
<1> QED BY <1>4, <1>5

LEMMA OuterTypesStep ==
    ASSUME TypeInv, (\E s \in Signals : Send(s)) \/ Alarm
    PROVE  TypeInv'
<1> USE DEF TypeInv
<1>1. LoopTypes' /\ MasterTypes' /\ TableTypes' /\ InboxTypes' /\ ChildTypes'
  BY DEF Send, Alarm, masterVars, tableVars, childVars, LoopTypes, MasterTypes,
         TableTypes, InboxTypes, ChildTypes
<1>2. OuterTypes'
  <2>1. CASE Alarm
    BY <2>1 DEF Alarm, OuterTypes, Flags
  <2>2. CASE \E s \in Signals : Send(s)
    <3>1. PICK s \in Signals : Send(s)
      BY <2>2
    <3>2. s \in Flags \cup {"sigio"}
      BY MasterAssumption DEF Flags
    <3> QED BY <3>1, <3>2, SpendTypes DEF Send, OuterTypes
  <2> QED BY <2>1, <2>2
<1> QED BY <1>1, <1>2

LEMMA TypeInit == Init => TypeInv
<1> SUFFICES ASSUME Init PROVE TypeInv
  OBVIOUS
<1>1. /\ at = "start" /\ flags = {} /\ new_binary = 0 /\ noaccepting = FALSE
      /\ live = TRUE /\ delay = 0 /\ sigio = 0
      /\ proc = [s \in Slots |-> FreeSlot] /\ last = 0 /\ slot = 0
      /\ pending = {} /\ timer = FALSE /\ nextPid = 1
  BY Zenon DEF Init
<1>2. /\ child = [p \in Pids |-> NoChild] /\ inbox = [p \in Pids |-> <<>>]
      /\ view = [p \in Pids |-> NoView]
  BY Zenon DEF Init
<1>3. LoopTypes
  <2>1. NoLoop \in [i : Nat, what : Whats, then : Thens, channel : Pids \cup {None}]
    BY DEF NoLoop, Whats, Thens
  <2>2. loop = [NoLoop EXCEPT !.i = 1, !.what = "respawn", !.then = "top"]
    BY Zenon DEF Init
  <2>3. /\ loop \in [i : Nat, what : Whats, then : Thens, channel : Pids \cup {None}]
        /\ loop.i = 1 /\ loop.what = "respawn" /\ loop.then = "top"
    <3>1. 1 \in Nat /\ "respawn" \in Whats /\ "top" \in Thens
      BY DEF Whats, Thens
    <3> QED BY <2>1, <2>2, <3>1, Zenon
  <2> QED BY <1>1, <2>3 DEF LoopTypes, Places
<1>4. MasterTypes /\ TableTypes
  BY <1>1, ConstantTypes DEF MasterTypes, TableTypes
<1>5. InboxTypes /\ ChildTypes
  <2>1. NoChild \in Children /\ NoView \in Views
    BY DEF NoChild, Children, NoView, Views
  <2> QED BY <1>1, <1>2, <2>1, ConstantTypes DEF InboxTypes, ChildTypes
<1>6. OuterTypes
  <2>1. budget = [signals |-> MaxSignals, crashes |-> MaxCrashes, faults |-> MaxFaults]
    BY Zenon DEF Init
  <2>2. budget \in [{"signals", "crashes", "faults"} -> Nat]
    BY <2>1, MasterAssumption
  <2> QED BY <1>1, <2>2 DEF OuterTypes
<1> QED BY <1>3, <1>4, <1>5, <1>6 DEF TypeInv

LEMMA TypeNext == TypeInv /\ [Next]_vars => TypeInv'
<1> SUFFICES ASSUME TypeInv, [Next]_vars PROVE TypeInv'
  OBVIOUS
<1>1. CASE UNCHANGED vars
  BY <1>1 DEF vars, masterVars, tableVars, childVars, TypeInv, LoopTypes, MasterTypes,
              TableTypes, InboxTypes, ChildTypes, OuterTypes
<1>2. CASE MasterStep
  BY <1>2, StartTypes, ReapTypes, SignalTypes, DeliverTypes, RoundTypes DEF MasterStep
<1>3. CASE \E p \in Pids : ChildStep(p) \/ Crash(p)
  BY <1>3, ChildTypesStep
<1>4. CASE (\E s \in Signals : Send(s)) \/ Alarm
  BY <1>4, OuterTypesStep
<1> QED BY <1>1, <1>2, <1>3, <1>4 DEF Next

(* Every state of the master, its table, its children and their channels is *)
(* well typed, whatever comes together (ngx_master_process_cycle).          *)
THEOREM MasterTypeCorrect == Spec => []TypeOK
BY TypeInit, TypeNext, TypesAreTypes, PTL DEF Spec

-----------------------------------------------------------------------------
(* The table and the processes.                                             *)
USE DEF TableInv

(* A step that keeps the table and the processes, as far as they matter.    *)
LEMMA TableSame ==
    ASSUME TypeInv, TypeInv', TableInv, last' = last, nextPid' = nextPid,
           \A s \in Used : /\ proc'[s].pid = proc[s].pid
                           /\ proc'[s].exited = proc[s].exited
                           /\ proc'[s].detached = proc[s].detached
                           /\ proc'[s].kind = proc[s].kind,
           \A p \in Pids : /\ child'[p].kind = child[p].kind
                           /\ child'[p].state = "none" <=> child[p].state = "none"
                           /\ child'[p].state = "reaped" <=> child[p].state = "reaped"
    PROVE  TableInv'
<1>1. InUse' = InUse
  BY DEF InUse, Used
<1>2. \A s \in InUse : s \in Used /\ proc[s].pid \in Pids
  BY ConstantTypes DEF InUse, KnownPids, TypeInv, ChildTypes, Pids
<1> QED BY <1>1, <1>2
        DEF KnownPids, OneSlotEach, ExitedIsReaped, KindsAgree, PidsInOrder, NobodyLost

(* A new process e, in a slot after the used ones, in a free one or in that *)
(* of a child waited for.                                                   *)
LEMMA TableNew ==
    ASSUME TypeInv, TypeInv', TableInv, nextPid \in Pids, nextPid' = nextPid + 1,
           NEW s \in 0 .. last, s \in Slots,
           last' = IF s = last THEN last + 1 ELSE last,
           \/ s = last
           \/ proc[s].pid = None
           \/ proc[s].exited,
           \A r \in Used \ {s} : /\ proc'[r].pid = proc[r].pid
                                 /\ proc'[r].exited = proc[r].exited
                                 /\ proc'[r].detached = proc[r].detached
                                 /\ proc'[r].kind = proc[r].kind,
           proc'[s].pid = nextPid, ~proc'[s].exited,
           proc'[s].detached <=> proc'[s].kind = "binary",
           NEW c, child' = [child EXCEPT ![nextPid] = c],
           c.kind = proc'[s].kind, c.state \notin {"none", "reaped"}
    PROVE  TableInv'
<1>1. last \in Nat /\ nextPid \in Nat /\ nextPid >= 1 /\ MaxPid \in Nat
  BY ConstantTypes DEF TypeInv, TableTypes, ChildTypes
<1>2. Used' = Used \cup {s}
  BY <1>1 DEF Used
<1>3. InUse' = (InUse \ {s}) \cup {s}
  BY <1>2, <1>1, ConstantTypes DEF InUse, Pids
<1>4. \A r \in InUse : /\ proc[r].pid \in Pids /\ proc[r].pid # nextPid
                       /\ proc[r].pid \in 1 .. nextPid - 1
                       /\ r \in Used
  BY <1>1 DEF KnownPids, Pids, InUse, TypeInv, ChildTypes
<1>5. child'[nextPid] = c /\ \A p \in Pids \ {nextPid} : child'[p] = child[p]
  BY DEF TypeInv, ChildTypes
<1>6. \A r \in InUse' : proc'[r].pid \in 1 .. nextPid' - 1
  BY <1>1, <1>3, <1>4
<1>7. \A r, q \in InUse' : proc'[r].pid = proc'[q].pid => r = q
  BY <1>3, <1>4 DEF OneSlotEach
<1>8. \A r \in InUse' : proc'[r].exited <=> child'[proc'[r].pid].state = "reaped"
  BY <1>3, <1>4, <1>5 DEF ExitedIsReaped
<1>9. \A r \in InUse' : /\ child'[proc'[r].pid].kind = proc'[r].kind
                        /\ proc'[r].detached <=> proc'[r].kind = "binary"
  BY <1>3, <1>4, <1>5 DEF KindsAgree
<1>10. \A p \in Pids : child'[p].state = "none" <=> p >= nextPid'
  <2>1. \A p \in Pids : p \in Int /\ (p = nextPid \/ (p >= nextPid <=> p >= nextPid + 1))
    BY <1>1 DEF Pids
  <2>2. ~(nextPid >= nextPid + 1)
    BY <1>1
  <2> QED BY <1>5, <2>1, <2>2 DEF PidsInOrder
<1>11. \A p \in Pids : child'[p].state \in {"none", "reaped"}
                         \/ \E r \in InUse' : proc'[r].pid = p
  <2> SUFFICES ASSUME NEW p \in Pids, child'[p].state \notin {"none", "reaped"}
               PROVE  \E r \in InUse' : proc'[r].pid = p
    OBVIOUS
  <2>1. CASE p = nextPid
    BY <1>3, <2>1
  <2>2. CASE p # nextPid
    <3>1. PICK r \in InUse : proc[r].pid = p
      BY <1>5, <2>2 DEF NobodyLost
    <3>2. child[p].state # "reaped"
      BY <1>5, <2>2
    <3>3. r # s
      BY <3>1, <3>2, <1>4, <1>1 DEF ExitedIsReaped, InUse, Used
    <3> QED BY <1>3, <1>4, <3>1, <3>3
  <2> QED BY <2>1, <2>2
<1> QED BY <1>6, <1>7, <1>8, <1>9, <1>10, <1>11
        DEF KnownPids, OneSlotEach, ExitedIsReaped, KindsAgree, PidsInOrder, NobodyLost

(* The slot of a child waited for is given up.                              *)
LEMMA TableRemove ==
    ASSUME TypeInv, TypeInv', TableInv, nextPid' = nextPid, child' = child,
           NEW s \in Used, proc[s].pid # None, proc[s].exited,
           \/ s = last - 1 /\ last' = last - 1 /\ proc'[s].pid = proc[s].pid
           \/ last' = last /\ proc'[s].pid = None,
           \A r \in Used \ {s} : /\ proc'[r].pid = proc[r].pid
                                 /\ proc'[r].exited = proc[r].exited
                                 /\ proc'[r].detached = proc[r].detached
                                 /\ proc'[r].kind = proc[r].kind
    PROVE  TableInv'
<1>1. last \in Nat /\ nextPid \in 1 .. MaxPid + 1 /\ MaxPid \in Nat
  BY ConstantTypes DEF TypeInv, TableTypes, ChildTypes
<1>2. InUse' = InUse \ {s}
  BY <1>1 DEF InUse, Used
<1>3. \A r \in InUse : r \in Used /\ proc[r].pid \in Pids
  BY <1>1 DEF KnownPids, Pids, InUse, TypeInv, ChildTypes
<1>4. s \in InUse /\ child[proc[s].pid].state = "reaped"
  BY DEF ExitedIsReaped, InUse
<1>5. \A p \in Pids : child'[p].state \in {"none", "reaped"}
                        \/ \E r \in InUse' : proc'[r].pid = p
  BY <1>2, <1>3, <1>4 DEF NobodyLost
<1> QED BY <1>2, <1>3, <1>5
        DEF KnownPids, OneSlotEach, ExitedIsReaped, KindsAgree, PidsInOrder, NobodyLost

(* The children that have ended are waited for.                             *)
LEMMA TableDeliver ==
    ASSUME TypeInv, TypeInv', TableInv, Deliver
    PROVE  TableInv'
<1>1. CASE "reap" \notin pending
  BY <1>1, TableSame DEF Deliver, childVars
<1>2. CASE "reap" \in pending
  <2>1. child' = [p \in Pids |-> IF p \in Ended
                      THEN [child[p] EXCEPT !.state = "reaped"] ELSE child[p]]
    BY <1>2 DEF Deliver
  <2>2. proc' = [s \in Slots |-> IF s \in Used /\ proc[s].pid \in Ended
                                   THEN Waited(proc[s]) ELSE proc[s]]
    BY <1>2 DEF Deliver
  <2>3. last' = last /\ nextPid' = nextPid
    BY DEF Deliver
  <2>4. \A s \in Used : s \in Slots
    BY ConstantTypes DEF Used, Slots, TypeInv, TableTypes
  <2>5. \A s \in Used : /\ proc'[s].pid = proc[s].pid
                        /\ proc'[s].detached = proc[s].detached
                        /\ proc'[s].kind = proc[s].kind
                        /\ proc'[s].exited <=> proc[s].pid \in Ended \/ proc[s].exited
    <3> SUFFICES ASSUME NEW s \in Used
                 PROVE  /\ proc'[s].pid = proc[s].pid
                        /\ proc'[s].detached = proc[s].detached
                        /\ proc'[s].kind = proc[s].kind
                        /\ proc'[s].exited <=> proc[s].pid \in Ended \/ proc[s].exited
      OBVIOUS
    <3>1. proc[s] \in Entries
      BY <2>4 DEF TypeInv, TableTypes
    <3>2. CASE proc[s].pid \in Ended
      <4>1. proc'[s] = Waited(proc[s])
        BY <2>2, <2>4, <3>2
      <4> QED BY <3>1, <3>2, <4>1, Zenon DEF Waited, Entries
    <3>3. CASE proc[s].pid \notin Ended
      <4>1. proc'[s] = proc[s]
        BY <2>2, <2>4, <3>3
      <4> QED BY <3>3, <4>1
    <3> QED BY <3>2, <3>3
  <2>6. \A p \in Pids : /\ child'[p].kind = child[p].kind
                        /\ child'[p].state = IF p \in Ended THEN "reaped"
                                                            ELSE child[p].state
    BY <2>1 DEF TypeInv, ChildTypes, Children
  <2>7. InUse' = InUse
    BY <2>3, <2>5 DEF InUse, Used
  <2>8. \A s \in InUse : s \in Used /\ proc[s].pid \in Pids
    BY ConstantTypes DEF InUse, KnownPids, TypeInv, ChildTypes, Pids
  <2>9. \A s \in InUse' : proc'[s].exited <=> child'[proc'[s].pid].state = "reaped"
    <3> SUFFICES ASSUME NEW s \in InUse
                 PROVE  proc'[s].exited <=> child'[proc'[s].pid].state = "reaped"
      BY <2>7
    <3>1. proc[s].exited <=> child[proc[s].pid].state = "reaped"
      BY DEF ExitedIsReaped
    <3>2. proc'[s].exited <=> proc[s].pid \in Ended \/ proc[s].exited
      BY <2>5, <2>8
    <3>3. child'[proc'[s].pid].state
             = IF proc[s].pid \in Ended THEN "reaped" ELSE child[proc[s].pid].state
      BY <2>5, <2>6, <2>8
    <3> QED BY <3>1, <3>2, <3>3
  <2>10. \A p \in Pids : child'[p].state = "none" <=> p >= nextPid'
    BY <2>3, <2>6 DEF PidsInOrder, Ended
  <2>11. \A p \in Pids : child'[p].state \in {"none", "reaped"}
                           \/ \E s \in InUse' : proc'[s].pid = p
    <3> SUFFICES ASSUME NEW p \in Pids, child'[p].state \notin {"none", "reaped"}
                 PROVE  \E s \in InUse' : proc'[s].pid = p
      OBVIOUS
    <3>1. child[p].state \notin {"none", "reaped"}
      BY <2>6
    <3>2. PICK s \in InUse : proc[s].pid = p
      BY <3>1 DEF NobodyLost
    <3> QED BY <2>5, <2>7, <2>8, <3>2
  <2>12. \A s \in InUse' : proc'[s].pid \in 1 .. nextPid' - 1
    BY <2>3, <2>5, <2>7, <2>8 DEF KnownPids
  <2>13. \A s, r \in InUse' : proc'[s].pid = proc'[r].pid => s = r
    BY <2>5, <2>7, <2>8 DEF OneSlotEach
  <2>14. \A s \in InUse' : /\ child'[proc'[s].pid].kind = proc'[s].kind
                           /\ proc'[s].detached <=> proc'[s].kind = "binary"
    BY <2>5, <2>6, <2>7, <2>8 DEF KindsAgree
  <2> QED BY <2>9, <2>10, <2>11, <2>12, <2>13, <2>14
          DEF KnownPids, OneSlotEach, ExitedIsReaped, KindsAgree, PidsInOrder, NobodyLost
<1> QED BY <1>1, <1>2

(* Spawn and its failures.                                                  *)
LEMMA TableSpawn ==
    ASSUME TypeInv, TypeInv', TableInv, NEW t \in [Slots -> Entries],
           NEW s \in Slots, s <= last,
           s = last \/ proc[s].pid = None \/ proc[s].exited,
           \A r \in Used : /\ t[r].pid = proc[r].pid /\ t[r].exited = proc[r].exited
                           /\ t[r].detached = proc[r].detached /\ t[r].kind = proc[r].kind,
           NEW e \in Entries, e.detached <=> e.kind = "binary",
           NEW in, Spawn(t, s, e, in)
    PROVE  TableInv'
<1>1. nextPid \in Pids /\ nextPid' = nextPid + 1
  BY DEF Spawn
<1>2. proc' = [t EXCEPT ![s] = [e EXCEPT !.pid = nextPid, !.exited = FALSE,
                                          !.channel = nextPid]]
  BY DEF Spawn
<1>3. \A r \in Slots \ {s} : proc'[r] = t[r]
  BY <1>2
<1>4. proc'[s] = [e EXCEPT !.pid = nextPid, !.exited = FALSE, !.channel = nextPid]
  BY <1>2
<1>5. /\ proc'[s].pid = nextPid /\ proc'[s].exited = FALSE
      /\ proc'[s].detached = e.detached /\ proc'[s].kind = e.kind
  BY <1>4, Zenon DEF Entries
<1>6. last' = IF s = last THEN last + 1 ELSE last
  BY DEF Spawn
<1>7. child' = [child EXCEPT ![nextPid] =
                   [state |-> "init", kind |-> e.kind, code |-> 0, flags |-> {}]]
  BY DEF Spawn
<1>8. s \in 0 .. last /\ Used \subseteq Slots
  BY ConstantTypes DEF Slots, Used, TypeInv, TableTypes
<1> DEFINE c == [state |-> "init", kind |-> e.kind, code |-> 0, flags |-> {}]
<1>9. c.kind = proc'[s].kind /\ c.state \notin {"none", "reaped"}
  BY <1>5
<1>10. child' = [child EXCEPT ![nextPid] = c]
  BY <1>7
<1> HIDE DEF c
<1>11. \A r \in Used \ {s} : /\ proc'[r].pid = proc[r].pid
                             /\ proc'[r].exited = proc[r].exited
                             /\ proc'[r].detached = proc[r].detached
                             /\ proc'[r].kind = proc[r].kind
  BY <1>3, <1>8
<1>12. ~proc'[s].exited /\ (proc'[s].detached <=> proc'[s].kind = "binary")
  BY <1>5
<1> QED BY <1>1, <1>5, <1>6, <1>8, <1>9, <1>10, <1>11, <1>12, TableNew

LEMMA TableSpawnFailed ==
    ASSUME TypeInv, TypeInv', TableInv, NEW t \in [Slots -> Entries], NEW s \in Slots,
           \A r \in Used : /\ t[r].pid = proc[r].pid /\ t[r].exited = proc[r].exited
                           /\ t[r].detached = proc[r].detached /\ t[r].kind = proc[r].kind,
           NEW t2, NEW moved, SpawnFailed(t, s, t2, moved)
    PROVE  TableInv'
<1>1. proc' = t \/ proc' = [t EXCEPT ![s].channel = Stale]
  BY DEF SpawnFailed
<1>2. \A r \in Slots : /\ proc'[r].pid = t[r].pid /\ proc'[r].exited = t[r].exited
                       /\ proc'[r].detached = t[r].detached /\ proc'[r].kind = t[r].kind
  BY <1>1 DEF Entries
<1>3. Used \subseteq Slots
  BY ConstantTypes DEF Slots, Used, TypeInv, TableTypes
<1>4. last' = last /\ child' = child /\ nextPid' = nextPid
  BY DEF SpawnFailed
<1> QED BY <1>2, <1>3, <1>4, TableSame

LEMMA ClosedFields ==
    ASSUME TypeInv, InTable
    PROVE  \A r \in Slots : /\ ClosedTable[r].pid = proc[r].pid
                            /\ ClosedTable[r].exited = proc[r].exited
                            /\ ClosedTable[r].detached = proc[r].detached
                            /\ ClosedTable[r].kind = proc[r].kind
<1>1. loop.i \in Slots /\ proc \in [Slots -> Entries]
  BY EntryTypes DEF TypeInv, TableTypes
<1>2. ClosedTable = proc \/ ClosedTable = [proc EXCEPT ![loop.i].channel = None]
  BY DEF ClosedTable
<1> QED BY <1>1, <1>2 DEF Entries

LEMMA SlotsBelow ==
    ASSUME NEW n \in Nat, n <= MaxProcesses
    PROVE  0 .. n - 1 \subseteq Slots
BY ConstantTypes DEF Slots

LEMMA UsedSlots == TypeInv => Used \subseteq Slots
BY ConstantTypes DEF Slots, Used, TypeInv, TableTypes

LEMMA TableStart ==
    ASSUME TypeInv, TypeInv', TableInv, StartProcess \/ StartProcessFails \/ Started
    PROVE  TableInv'
<1> proc \in [Slots -> Entries] /\ last \in Nat
  BY ConstantTypes DEF TypeInv, TableTypes
<1>1. CASE StartProcess
  <2>1. /\ NewSlot \in Slots /\ NewSlot <= last
        /\ NewSlot = last \/ proc[NewSlot].pid = None
    BY <1>1, NewSlotFree DEF StartProcess
  <2>2. Kinds[loop.i] \in {"worker", "manager", "loader"}
    BY <1>1, ConstantTypes DEF StartProcess, TypeInv, LoopTypes
  <2> DEFINE e == NewEntry(Kinds[loop.i], loop.what)
  <2>3. e \in Entries /\ (e.detached <=> e.kind = "binary")
    BY <2>2 DEF NewEntry, FreeSlot, Entries
  <2>4. Spawn(proc, NewSlot, e, inbox)
    BY <1>1 DEF StartProcess
  <2> HIDE DEF e
  <2> QED BY <2>1, <2>3, <2>4, TableSpawn
<1>2. CASE StartProcessFails
  <2>1. CASE /\ NewSlot \in Slots
             /\ \E t2 \in FailedTables(proc, NewSlot), moved \in BOOLEAN :
                   SpawnFailed(proc, NewSlot, t2, moved)
    BY <2>1, TableSpawnFailed
  <2>2. CASE UNCHANGED <<tableVars, child, view, nextPid>>
    BY <2>2, TableSame DEF tableVars
  <2> QED BY <1>2, <2>1, <2>2 DEF StartProcessFails
<1>3. CASE Started
  BY <1>3, TableSame DEF Started, OnlyMaster, tableVars, childVars
<1> QED BY <1>1, <1>2, <1>3

LEMMA TableReap ==
    ASSUME TypeInv, TypeInv', TableInv,
           ReapNothing \/ ReapRespawn \/ ReapRespawnFails \/ ReapRemove \/ Reaped
    PROVE  TableInv'
<1>1. CASE ReapNothing \/ Reaped
  BY <1>1, TableSame DEF ReapNothing, Reaped, OnlyMaster, tableVars, childVars
<1>2. ASSUME InTable, Gone
      PROVE  /\ loop.i \in Slots /\ loop.i \in Used /\ loop.i <= last
             /\ proc[loop.i].exited /\ proc[loop.i].pid # None
             /\ ClosedTable \in [Slots -> Entries]
             /\ \A r \in Used : /\ ClosedTable[r].pid = proc[r].pid
                                /\ ClosedTable[r].exited = proc[r].exited
                                /\ ClosedTable[r].detached = proc[r].detached
                                /\ ClosedTable[r].kind = proc[r].kind
  BY <1>2, EntryTypes, ClosedTypes, ClosedFields, UsedSlots DEF Gone, Entry, Slots
<1>3. CASE ReapRespawn
  <2>1. ClosedTable[loop.i] \in Entries
    BY <1>2, <1>3 DEF ReapRespawn
  <2>2. ClosedTable[loop.i].detached <=> ClosedTable[loop.i].kind = "binary"
    BY <1>2, <1>3 DEF ReapRespawn, KindsAgree, InUse
  <2>3. Spawn(ClosedTable, loop.i, ClosedTable[loop.i], ClosedInbox)
    BY <1>3 DEF ReapRespawn
  <2> QED BY <1>2, <1>3, <2>1, <2>2, <2>3, TableSpawn DEF ReapRespawn
<1>4. CASE ReapRespawnFails
  BY <1>2, <1>4, TableSpawnFailed DEF ReapRespawnFails
<1>5. CASE ReapRemove
  <2>1. InTable /\ Gone /\ last \in Nat
    BY <1>5, ConstantTypes DEF ReapRemove, TypeInv, TableTypes
  <2>2. proc' = ClosedTable \/ proc' = [ClosedTable EXCEPT ![loop.i].pid = None]
    BY <1>5 DEF ReapRemove
  <2>3. \A r \in Used \ {loop.i} : proc'[r] = ClosedTable[r]
    BY <1>2, <2>1, <2>2, UsedSlots
  <2>4. \/ loop.i = last - 1 /\ last' = last - 1 /\ proc'[loop.i].pid = proc[loop.i].pid
        \/ last' = last /\ proc'[loop.i].pid = None
    <3>1. CASE Shrinks
      BY <1>2, <1>5, <2>1, <3>1 DEF ReapRemove, Shrinks
    <3>2. CASE ~Shrinks
      <4>1. proc' = [ClosedTable EXCEPT ![loop.i].pid = None] /\ last' = last
        BY <1>5, <3>2 DEF ReapRemove
      <4>2. proc'[loop.i] = [ClosedTable[loop.i] EXCEPT !.pid = None]
        BY <1>2, <2>1, <4>1
      <4> QED BY <1>2, <2>1, <4>1, <4>2 DEF Entries
    <3> QED BY <3>1, <3>2
  <2>5. nextPid' = nextPid /\ child' = child
    BY <1>5 DEF ReapRemove
  <2> QED BY <1>2, <2>1, <2>3, <2>4, <2>5, TableRemove
<1> QED BY <1>1, <1>3, <1>4, <1>5

LEMMA TableSignal ==
    ASSUME TypeInv, TypeInv', TableInv,
           SignalSkip \/ SignalByChannel \/ SignalByKill \/ Signalled
    PROVE  TableInv'
<1>1. CASE Signalled
  BY <1>1, TableSame DEF Signalled, OnlyMaster, tableVars, childVars
<1>2. ASSUME InSignal
      PROVE  loop.i \in Slots /\ loop.i \in Used /\ proc \in [Slots -> Entries]
  BY <1>2, EntryTypes DEF TypeInv, TableTypes
<1>3. CASE SignalSkip
  <2>1. proc' = proc \/ proc' = [proc EXCEPT ![loop.i].just_spawn = FALSE]
    BY <1>3 DEF SignalSkip
  <2>2. \A r \in Slots : /\ proc'[r].pid = proc[r].pid /\ proc'[r].exited = proc[r].exited
                         /\ proc'[r].detached = proc[r].detached
                         /\ proc'[r].kind = proc[r].kind
    BY <1>2, <1>3, <2>1 DEF SignalSkip, Entries
  <2> QED BY <1>3, <2>2, UsedSlots, TableSame DEF SignalSkip, childVars
<1>4. \A r \in Slots : InSignal => 
          /\ MarkExiting[r].pid = proc[r].pid /\ MarkExiting[r].exited = proc[r].exited
          /\ MarkExiting[r].detached = proc[r].detached
          /\ MarkExiting[r].kind = proc[r].kind
  BY <1>2 DEF MarkExiting, Entries
<1>5. CASE SignalByChannel
  BY <1>4, <1>5, UsedSlots, TableSame DEF SignalByChannel
<1>6. CASE SignalByKill
  <2>1. InSignal /\ ~Skipped /\ last' = last /\ nextPid' = nextPid
    BY <1>6 DEF SignalByKill
  <2>2. loop.i \in InUse /\ Entry.pid \in Pids
    BY <1>2, <2>1, ConstantTypes
       DEF Skipped, Entry, InUse, KnownPids, TypeInv, ChildTypes, Pids
  <2>3. CASE child[Entry.pid].state = "reaped"
    <3>1. proc' = [proc EXCEPT ![loop.i].exited = TRUE, ![loop.i].exiting = FALSE]
          /\ child' = child
      BY <1>6, <2>3 DEF SignalByKill
    <3>2. proc[loop.i].exited = TRUE
      BY <1>2, <2>1, <2>2, <2>3 DEF ExitedIsReaped, Entry, Entries
    <3>3. \A r \in Slots : /\ proc'[r].pid = proc[r].pid
                           /\ proc'[r].exited = proc[r].exited
                           /\ proc'[r].detached = proc[r].detached
                           /\ proc'[r].kind = proc[r].kind
      <4> DEFINE e == [proc[loop.i] EXCEPT !.exited = TRUE, !.exiting = FALSE]
      <4>1. proc' = [proc EXCEPT ![loop.i] = e]
        BY <1>2, <2>1, <3>1
      <4>2. /\ e.pid = proc[loop.i].pid /\ e.exited = TRUE
            /\ e.detached = proc[loop.i].detached /\ e.kind = proc[loop.i].kind
        BY <1>2, <2>1, Zenon DEF Entries
      <4> HIDE DEF e
      <4> QED BY <1>2, <2>1, <3>2, <4>1, <4>2
    <3> QED BY <2>1, <3>1, <3>3, UsedSlots, TableSame
  <2>4. CASE child[Entry.pid].state # "reaped"
    <3>1. proc' = MarkExiting
      BY <1>6, <2>4 DEF SignalByKill
    <3>2. \/ child' = child
          \/ child' = [child EXCEPT ![Entry.pid].state = "zombie"] /\ Alive(Entry.pid)
          \/ child' = [child EXCEPT ![Entry.pid].flags = @ \cup {loop.what}]
      BY <1>6, <2>4 DEF SignalByKill
    <3>3. \A p \in Pids : /\ child'[p].kind = child[p].kind
                          /\ child'[p].state = "none" <=> child[p].state = "none"
                          /\ child'[p].state = "reaped" <=> child[p].state = "reaped"
      BY <2>2, <3>2 DEF TypeInv, ChildTypes, Children, Alive
    <3> QED BY <1>4, <2>1, <3>1, <3>3, UsedSlots, TableSame
  <2> QED BY <2>3, <2>4
<1> QED BY <1>1, <1>3, <1>5, <1>6

(* What else could change the table: a new binary.                          *)
LEMMA TableBinary ==
    ASSUME TypeInv, TypeInv', TableInv, ChangeBinary
    PROVE  TableInv'
<1> DEFINE e == [FreeSlot EXCEPT !.kind = "binary", !.pid = nextPid, !.detached = TRUE]
           c == [state |-> "run", kind |-> "binary", code |-> 0, flags |-> {}]
<1>1. /\ NewSlot \in Slots /\ NewSlot \in 0 .. last
      /\ NewSlot = last \/ proc[NewSlot].pid = None
      /\ nextPid \in Pids /\ nextPid' = nextPid + 1
      /\ last' = IF NewSlot = last THEN last + 1 ELSE last
  BY NewSlotFree DEF ChangeBinary, TypeInv, TableTypes
<1>2. proc' = [proc EXCEPT ![NewSlot] = e] /\ child' = [child EXCEPT ![nextPid] = c]
  BY DEF ChangeBinary
<1>3. e.pid = nextPid /\ e.exited = FALSE /\ e.detached = TRUE /\ e.kind = "binary"
  BY DEF FreeSlot
<1>4. c.kind = "binary" /\ c.state \notin {"none", "reaped"}
  OBVIOUS
<1> HIDE DEF e, c
<1>5. proc'[NewSlot] = e /\ \A r \in Used \ {NewSlot} : proc'[r] = proc[r]
  BY <1>1, <1>2, UsedSlots DEF TypeInv, TableTypes
<1> QED BY <1>1, <1>2, <1>3, <1>4, <1>5, TableNew

LEMMA TableForkFails ==
    ASSUME TypeInv, TypeInv', TableInv, ChangeBinaryForkFails
    PROVE  TableInv'
<1>1. /\ NewSlot \in Slots /\ proc' = [proc EXCEPT ![NewSlot].channel = None]
      /\ UNCHANGED <<last, child, nextPid>>
  BY DEF ChangeBinaryForkFails, childVars
<1>2. \A r \in Slots : /\ proc'[r].pid = proc[r].pid /\ proc'[r].exited = proc[r].exited
                       /\ proc'[r].detached = proc[r].detached
                       /\ proc'[r].kind = proc[r].kind
  BY <1>1 DEF Entries, TypeInv, TableTypes
<1> QED BY <1>1, <1>2, UsedSlots, TableSame

LEMMA TableChild ==
    ASSUME TypeInv, TypeInv', TableInv, NEW p \in Pids, ChildStep(p) \/ Crash(p)
    PROVE  TableInv'
<1>1. UNCHANGED <<proc, last, nextPid>>
  BY DEF ChildStep, Crash, Initialised, ReadChannel, ReopenFiles, GracefulExit,
         ExitProcess, End, OnlyChild, tableVars
<1>2. child[p] \in Children /\ child \in [Pids -> Children]
  BY DEF TypeInv, ChildTypes
<1>3. \A q \in Pids \ {p} : child'[q] = child[q]
  BY <1>2, Zenon
     DEF ChildStep, Crash, Initialised, ReadChannel, ReopenFiles, GracefulExit,
         ExitProcess, End
<1>4. \/ child' = child
      \/ /\ child[p].state \in {"init", "run", "exiting"}
         /\ child'[p].kind = child[p].kind
         /\ child'[p].state \in {"init", "run", "exiting", "zombie"}
  <2>1. CASE Initialised(p)
    BY <1>2, <2>1 DEF Initialised, Children
  <2>2. CASE ReadChannel(p)
    BY <1>2, <2>2 DEF ReadChannel, Children
  <2>3. CASE ReopenFiles(p)
    BY <1>2, <2>3 DEF ReopenFiles, Children
  <2>4. CASE GracefulExit(p)
    BY <1>2, <2>4 DEF GracefulExit, Children
  <2>5. CASE ExitProcess(p)
    <3>1. child' = [child EXCEPT ![p].state = "zombie", ![p].code = 0, ![p].flags = {}]
          /\ child[p].state \in {"init", "run", "exiting"}
      BY <2>5 DEF ExitProcess, End
    <3> QED BY <1>2, <3>1, Zenon DEF Children
  <2>6. CASE Crash(p)
    <3>1. PICK code : child' = [child EXCEPT ![p].state = "zombie", ![p].code = code,
                                             ![p].flags = {}]
      BY <2>6 DEF Crash
    <3>2. child[p].state \in {"init", "run", "exiting"}
      BY <2>6 DEF Crash, Alive
    <3> QED BY <1>2, <3>1, <3>2, Zenon DEF Children
  <2> QED BY <2>1, <2>2, <2>3, <2>4, <2>5, <2>6 DEF ChildStep
<1>5. \A q \in Pids : /\ child'[q].kind = child[q].kind
                      /\ child'[q].state = "none" <=> child[q].state = "none"
                      /\ child'[q].state = "reaped" <=> child[q].state = "reaped"
  BY <1>3, <1>4
<1> QED BY <1>1, <1>5, TableSame

LEMMA TableInit == Init => TableInv
<1> SUFFICES ASSUME Init PROVE TableInv
  OBVIOUS
<1>1. /\ last = 0 /\ nextPid = 1 /\ child = [p \in Pids |-> NoChild]
  BY Zenon DEF Init
<1>2. InUse = {}
  BY <1>1 DEF InUse, Used
<1>3. \A p \in Pids : child[p].state = "none" /\ p >= 1
  BY <1>1, ConstantTypes DEF NoChild, Pids
<1> QED BY <1>1, <1>2, <1>3
        DEF KnownPids, OneSlotEach, ExitedIsReaped, KindsAgree, PidsInOrder, NobodyLost

LEMMA TableNext ==
    ASSUME TypeInv, TypeInv', TableInv, [Next]_vars
    PROVE  TableInv'
<1>1. CASE MasterStep
  <2>1. CASE Top \/ Exit \/ Terminate \/ Quit \/ Continue \/ WorkersAgain \/ Reconfigure
             \/ Reconfigured \/ NoReconfigure \/ Restart \/ Reopen \/ ChangeBinaryFails
             \/ NoChangeBinary \/ Noaccept
    <3>1. UNCHANGED <<proc, last, nextPid, child>>
      BY <2>1 DEF Top, Exit, Terminate, Quit, Continue, WorkersAgain, Reconfigure,
                  Reconfigured, NoReconfigure, Restart, Reopen, ChangeBinaryFails,
                  NoChangeBinary, Noaccept, OnlyMaster, tableVars, childVars
    <3> QED BY <3>1, TableSame
  <2> QED BY <1>1, <2>1, TableStart, TableReap, TableSignal, TableDeliver, TableBinary,
          TableForkFails
          DEF MasterStep
<1>2. CASE \E p \in Pids : ChildStep(p) \/ Crash(p)
  BY <1>2, TableChild
<1>3. CASE (\E s \in Signals : Send(s)) \/ Alarm \/ UNCHANGED vars
  <2>1. UNCHANGED <<proc, last, nextPid, child>>
    BY <1>3 DEF Send, Alarm, vars, tableVars, childVars
  <2> QED BY <2>1, TableSame
<1> QED BY <1>1, <1>2, <1>3 DEF Next

LEMMA TableCorrect == Spec => [](TypeInv /\ TableInv)
<1>1. TypeInv /\ TableInv /\ [Next]_vars => (TypeInv /\ TableInv)'
  BY TypeNext, TableNext
<1> QED BY TypeInit, TableInit, <1>1, PTL DEF Spec

(* Whatever reaping, respawning, giving up and reuse of slots goes on       *)
(* around it, a child that was not waited for is in exactly one used slot   *)
(* of ngx_processes, not marked exited (ngx_spawn_process,                  *)
(* ngx_reap_children, ngx_process_get_status).                              *)
THEOREM NobodyForgotten == Spec => []NoForgottenChild
<1>1. TypeInv /\ TableInv => NoForgottenChild
  <2> SUFFICES ASSUME TypeInv, TableInv, NEW p \in Pids,
                      Alive(p) \/ child[p].state = "zombie"
               PROVE  \E s \in Used : SlotsOf(p) = {s} /\ ~proc[s].exited
    BY DEF NoForgottenChild
  <2>1. child[p].state \notin {"none", "reaped"}
    BY DEF Alive
  <2>2. PICK s \in InUse : proc[s].pid = p
    BY <2>1 DEF NobodyLost
  <2>3. SlotsOf(p) = {s}
    BY <2>2, ConstantTypes DEF SlotsOf, OneSlotEach, InUse
  <2>4. ~proc[s].exited
    BY <2>1, <2>2 DEF ExitedIsReaped
  <2> QED BY <2>2, <2>3, <2>4 DEF InUse
<1> QED BY <1>1, TableCorrect, PTL

-----------------------------------------------------------------------------
(* No slot of a child waited for outlasts the reaping.                      *)
LEMMA FaultlessKept ==
    ASSUME FaultlessInv, TypeInv,
           budget' = budget \/ Spend("signals") \/ Spend("crashes"),
           \A s \in InUse' : proc'[s].exited =>
               /\ s \in InUse /\ proc[s].exited
               /\ at = "reap" /\ s >= loop.i => at' = "reap" /\ s >= loop'.i
    PROVE  FaultlessInv'
<1>1. budget'.faults = budget.faults
  BY DEF Spend, TypeInv, OuterTypes
<1> QED BY <1>1 DEF FaultlessInv

LEMMA FaultSpent ==
    ASSUME FaultlessInv, TypeInv, Spend("faults")
    PROVE  FaultlessInv'
<1>1. budget'.faults = budget.faults - 1 /\ budget.faults \in Nat
  BY DEF Spend, TypeInv, OuterTypes
<1>2. MaxFaults \in Nat
  BY MasterAssumption
<1> QED BY <1>1, <1>2 DEF FaultlessInv

LEMMA FaultlessStart ==
    ASSUME TypeInv, FaultlessInv, StartProcess \/ StartProcessFails \/ Started
    PROVE  FaultlessInv'
<1> proc \in [Slots -> Entries] /\ last \in Nat
  BY ConstantTypes DEF TypeInv, TableTypes
<1>1. CASE StartProcess
  <2>1. NewSlot \in Slots /\ NewSlot \in 0 .. last
    BY <1>1, NewSlotFree DEF StartProcess
  <2>2. /\ \A s \in Slots \ {NewSlot} : proc'[s] = proc[s]
        /\ last' = IF NewSlot = last THEN last + 1 ELSE last
    BY <1>1 DEF StartProcess, Spawn
  <2>3. NewEntry(Kinds[loop.i], loop.what) \in Entries
    <3>1. Kinds[loop.i] \in {"worker", "manager", "loader"}
      BY <1>1, ConstantTypes DEF StartProcess, TypeInv, LoopTypes
    <3> QED BY <3>1 DEF NewEntry, FreeSlot, Entries
  <2>4. ~proc'[NewSlot].exited
    <3>1. proc'[NewSlot] = [NewEntry(Kinds[loop.i], loop.what)
                               EXCEPT !.pid = nextPid, !.exited = FALSE, !.channel = nextPid]
      BY <1>1, <2>1 DEF StartProcess, Spawn
    <3> QED BY <2>3, <3>1, Zenon DEF Entries
  <2>5. \A s \in InUse' : s # NewSlot => s \in InUse
    BY <2>1, <2>2, UsedSlots DEF InUse, Used
  <2>6. at = "start" /\ budget' = budget
    BY <1>1 DEF StartProcess
  <2> QED BY <2>2, <2>4, <2>5, <2>6, UsedSlots, FaultlessKept DEF InUse
<1>2. CASE StartProcessFails
  <2>1. CASE Spend("faults")
    BY <2>1, FaultSpent
  <2>2. CASE UNCHANGED <<tableVars, child, view, nextPid, budget>>
    BY <1>2, <2>2, FaultlessKept DEF StartProcessFails, tableVars, InUse, Used
  <2> QED BY <1>2, <2>1, <2>2 DEF StartProcessFails
<1>3. CASE Started
  BY <1>3, FaultlessKept DEF Started, OnlyMaster, tableVars, InUse, Used
<1> QED BY <1>1, <1>2, <1>3

LEMMA FaultlessReap ==
    ASSUME TypeInv, TypeInv', FaultlessInv,
           ReapNothing \/ ReapRespawn \/ ReapRespawnFails \/ ReapRemove \/ Reaped
    PROVE  FaultlessInv'
<1>0. loop.i \in Nat /\ last \in Nat /\ Used \subseteq Slots /\ proc \in [Slots -> Entries]
  BY UsedSlots, ConstantTypes DEF TypeInv, LoopTypes, TableTypes
<1>1. CASE ReapRespawnFails
  BY <1>1, FaultSpent DEF ReapRespawnFails
<1>2. CASE Reaped
  <2>1. InUse' = InUse /\ proc' = proc /\ budget' = budget /\ loop.i >= last
    BY <1>2 DEF Reaped, OnlyMaster, tableVars, InUse, Used
  <2>2. \A s \in InUse : ~(s >= loop.i)
    BY <1>0, <2>1 DEF InUse, Used
  <2> QED BY <2>1, <2>2, FaultlessKept
<1>3. ASSUME InTable, at' = at, loop'.i = loop.i + 1, budget' = budget,
             \A s \in InUse' : proc'[s].exited =>
                 s \in InUse /\ proc[s].exited /\ s # loop.i
      PROVE  FaultlessInv'
  <2>1. \A s \in InUse : s \in Nat /\ (s >= loop.i /\ s # loop.i => s >= loop'.i)
    BY <1>0, <1>3 DEF InUse, Used
  <2> QED BY <1>3, <2>1, FaultlessKept
<1>4. NextTurn => loop'.i = loop.i + 1 /\ at' = at
  BY DEF NextTurn, TypeInv, LoopTypes
<1>5. CASE ReapNothing
  <2>1. InUse' = InUse /\ proc' = proc /\ budget' = budget
    BY <1>5 DEF ReapNothing, OnlyMaster, tableVars, InUse, Used
  <2>2. \A s \in InUse : proc[s].exited => s # loop.i
    BY <1>5 DEF ReapNothing, Gone, Entry, InUse
  <2> QED BY <1>3, <1>4, <1>5, <2>1, <2>2 DEF ReapNothing
<1>6. ASSUME InTable
      PROVE  /\ loop.i \in Slots /\ loop.i < last
             /\ ClosedTable \in [Slots -> Entries]
             /\ \A r \in Slots : /\ ClosedTable[r].pid = proc[r].pid
                                 /\ ClosedTable[r].exited = proc[r].exited
  BY <1>6, EntryTypes, ClosedTypes, ClosedFields
<1>7. CASE ReapRespawn
  <2>1. InTable /\ budget' = budget /\ at' = at
    BY <1>7 DEF ReapRespawn
  <2>2. /\ proc' = [ClosedTable EXCEPT ![loop.i] = [ClosedTable[loop.i] EXCEPT
                       !.pid = nextPid, !.exited = FALSE, !.channel = nextPid]]
        /\ last' = last
    <3>1. last' = IF loop.i = last THEN last + 1 ELSE last
      BY <1>7 DEF ReapRespawn, Spawn
    <3>2. loop.i # last
      BY <1>0, <1>6, <2>1
    <3>3. proc' = [ClosedTable EXCEPT ![loop.i] = [ClosedTable[loop.i] EXCEPT
                       !.pid = nextPid, !.exited = FALSE, !.channel = nextPid]]
      BY <1>7 DEF ReapRespawn, Spawn
    <3> QED BY <3>1, <3>2, <3>3
  <2>3. /\ proc'[loop.i] = [ClosedTable[loop.i] EXCEPT
                              !.pid = nextPid, !.exited = FALSE, !.channel = nextPid]
        /\ \A r \in Slots \ {loop.i} : proc'[r] = ClosedTable[r]
    BY <1>6, <2>1, <2>2
  <2>4. proc'[loop.i].exited = FALSE
    BY <1>6, <2>1, <2>3, Zenon DEF Entries
  <2>5. \A s \in InUse' : proc'[s].exited => s \in InUse /\ proc[s].exited /\ s # loop.i
    BY <1>0, <1>6, <2>1, <2>2, <2>3, <2>4 DEF InUse, Used
  <2>6. loop'.i = loop.i + 1
    <3>1. loop' = [loop EXCEPT !.i = @ + 1, !.what = "open", !.channel = nextPid]
      BY <1>7 DEF ReapRespawn
    <3>2. DOMAIN loop = {"i", "what", "then", "channel"}
      BY DEF TypeInv, LoopTypes
    <3> QED BY <3>1, <3>2, Zenon
  <2> QED BY <1>3, <2>1, <2>5, <2>6
<1>8. CASE ReapRemove
  <2>1. InTable /\ budget' = budget /\ NextTurn
    BY <1>8 DEF ReapRemove
  <2>2. \/ Shrinks /\ last' = last - 1 /\ proc' = ClosedTable
        \/ last' = last /\ proc' = [ClosedTable EXCEPT ![loop.i].pid = None]
    BY <1>8 DEF ReapRemove
  <2>3. \A r \in Slots \ {loop.i} : proc'[r] = ClosedTable[r]
    BY <1>6, <2>1, <2>2
  <2>4. loop.i \notin InUse'
    <3>1. CASE Shrinks /\ last' = last - 1
      BY <1>0, <3>1 DEF Shrinks, InUse, Used
    <3>2. CASE proc' = [ClosedTable EXCEPT ![loop.i].pid = None]
      BY <1>6, <2>1, <3>2 DEF InUse, Entries
    <3> QED BY <2>2, <3>1, <3>2
  <2>5. \A s \in InUse' : s \in Used
    BY <1>0, <2>2 DEF InUse, Used
  <2>6. \A s \in InUse' : proc'[s].exited => s \in InUse /\ proc[s].exited /\ s # loop.i
    BY <1>0, <1>6, <2>1, <2>3, <2>4, <2>5 DEF InUse
  <2> QED BY <1>3, <1>4, <2>1, <2>6
<1> QED BY <1>1, <1>2, <1>5, <1>7, <1>8

LEMMA FaultlessSignal ==
    ASSUME TypeInv, TableInv, FaultlessInv,
           SignalSkip \/ SignalByChannel \/ SignalByKill \/ Signalled
    PROVE  FaultlessInv'
<1>1. CASE Signalled
  BY <1>1, FaultlessKept DEF Signalled, OnlyMaster, tableVars, InUse, Used
<1>2. CASE ~Signalled
  <2>1. InSignal /\ last' = last /\ budget' = budget /\ at = "signal"
    BY <1>2 DEF SignalSkip, SignalByChannel, SignalByKill, InSignal
  <2>2. loop.i \in Slots /\ proc \in [Slots -> Entries] /\ Used \subseteq Slots
    BY <2>1, EntryTypes, UsedSlots DEF TypeInv, TableTypes
  <2>3. \/ proc' = proc
        \/ proc' = [proc EXCEPT ![loop.i].just_spawn = FALSE]
        \/ proc' = MarkExiting
        \/ /\ proc' = [proc EXCEPT ![loop.i].exited = TRUE, ![loop.i].exiting = FALSE]
           /\ child[Entry.pid].state = "reaped" /\ ~Skipped
    BY <1>2 DEF SignalSkip, SignalByChannel, SignalByKill
  <2>4. CASE \A s \in Slots : proc'[s].pid = proc[s].pid /\ proc'[s].exited = proc[s].exited
    <3>1. \A s \in InUse' : s \in InUse /\ proc'[s].exited = proc[s].exited
      BY <2>1, <2>2, <2>4 DEF InUse, Used
    <3> QED BY <2>1, <3>1, FaultlessKept
  <2>5. CASE child[Entry.pid].state = "reaped" /\ ~Skipped
    <3>1. proc[loop.i].exited /\ loop.i \in InUse
      BY <2>1, <2>5, EntryTypes DEF ExitedIsReaped, InUse, Entry, Skipped
    <3>2. budget.faults # MaxFaults
      BY <2>1, <3>1 DEF FaultlessInv
    <3> QED BY <2>1, <3>2 DEF FaultlessInv
  <2>6. CASE \/ proc' = proc
             \/ proc' = [proc EXCEPT ![loop.i].just_spawn = FALSE]
             \/ proc' = MarkExiting
    BY <2>2, <2>4, <2>6 DEF MarkExiting, Entries
  <2> QED BY <2>3, <2>5, <2>6
<1> QED BY <1>1, <1>2

LEMMA FaultlessDeliver ==
    ASSUME TypeInv, FaultlessInv, Deliver
    PROVE  FaultlessInv'
<1>1. last' = last /\ budget' = budget /\ at = "suspend"
  BY DEF Deliver
<1>2. CASE "reap" \notin pending
  BY <1>1, <1>2, FaultlessKept DEF Deliver, InUse, Used
<1>3. CASE "reap" \in pending
  <2>1. at' = "reap" /\ loop' = [NoLoop EXCEPT !.what = "close"]
    BY <1>3 DEF Deliver
  <2>2. loop'.i = 0
    BY <2>1 DEF NoLoop
  <2>3. \A s \in InUse' : s >= 0
    BY DEF InUse, Used
  <2> QED BY <1>1, <2>1, <2>2, <2>3 DEF FaultlessInv
<1> QED BY <1>2, <1>3

LEMMA FaultlessRest ==
    ASSUME TypeInv, FaultlessInv,
           \/ Top \/ Exit \/ Terminate \/ Quit \/ Continue \/ WorkersAgain \/ Reconfigure
           \/ Reconfigured \/ NoReconfigure \/ Restart \/ Reopen \/ ChangeBinary
           \/ ChangeBinaryFails \/ ChangeBinaryForkFails \/ NoChangeBinary \/ Noaccept
    PROVE  FaultlessInv'
<1>1. at # "reap"
  BY DEF Top, Exit, Terminate, Quit, Continue, WorkersAgain, Reconfigure, Reconfigured,
         NoReconfigure, Restart, Reopen, ChangeBinary, ChangeBinaryFails,
         ChangeBinaryForkFails,
         NoChangeBinary, Noaccept
<1>2. CASE Spend("faults")
  BY <1>2, FaultSpent
<1>3. CASE ChangeBinary
  <2> DEFINE e == [FreeSlot EXCEPT !.kind = "binary", !.pid = nextPid, !.detached = TRUE]
  <2>1. /\ NewSlot \in Slots /\ NewSlot \in 0 .. last /\ last \in Nat
        /\ last' = IF NewSlot = last THEN last + 1 ELSE last
        /\ budget' = budget
    BY <1>3, NewSlotFree, ConstantTypes DEF ChangeBinary, TypeInv, TableTypes
  <2>2. proc' = [proc EXCEPT ![NewSlot] = e]
    BY <1>3 DEF ChangeBinary
  <2>3. e.exited = FALSE
    BY DEF FreeSlot
  <2> HIDE DEF e
  <2>4. proc'[NewSlot] = e /\ \A s \in Slots \ {NewSlot} : proc'[s] = proc[s]
    BY <2>1, <2>2 DEF TypeInv, TableTypes
  <2>5. \A s \in InUse' : proc'[s].exited => s \in InUse /\ proc[s].exited
    BY <2>1, <2>3, <2>4, UsedSlots DEF InUse, Used
  <2> QED BY <1>1, <2>1, <2>5, FaultlessKept
<1>4. CASE ~ChangeBinary /\ ~Spend("faults")
  <2>1. UNCHANGED <<proc, last, budget>>
    BY <1>4 DEF Top, Exit, Terminate, Quit, Continue, WorkersAgain, Reconfigure,
           Reconfigured, NoReconfigure, Restart, Reopen, ChangeBinaryFails,
           ChangeBinaryForkFails,
           NoChangeBinary, Noaccept, OnlyMaster, tableVars
  <2> QED BY <1>1, <2>1, FaultlessKept DEF InUse, Used
<1> QED BY <1>2, <1>3, <1>4

LEMMA FaultlessNext ==
    ASSUME TypeInv, TypeInv', TableInv, FaultlessInv, [Next]_vars
    PROVE  FaultlessInv'
<1>1. CASE MasterStep
  BY <1>1, FaultlessStart, FaultlessReap, FaultlessSignal, FaultlessDeliver, FaultlessRest
     DEF MasterStep
<1>2. CASE ~MasterStep
  <2>1. UNCHANGED <<at, loop, proc, last>>
    BY <1>2 DEF Next, ChildStep, Crash, Initialised, ReadChannel, ReopenFiles,
           GracefulExit, ExitProcess, End, OnlyChild, Send, Alarm, vars, tableVars
  <2>2. budget' = budget \/ Spend("signals") \/ Spend("crashes")
    BY <1>2 DEF Next, ChildStep, Crash, Initialised, ReadChannel, ReopenFiles,
           GracefulExit, ExitProcess, End, Send, Alarm, vars
  <2> QED BY <2>1, <2>2, FaultlessKept DEF InUse, Used
<1> QED BY <1>1, <1>2

LEMMA FaultlessInit == Init => FaultlessInv
<1> SUFFICES ASSUME Init PROVE FaultlessInv
  OBVIOUS
<1>1. /\ last = 0
      /\ budget = [signals |-> MaxSignals, crashes |-> MaxCrashes, faults |-> MaxFaults]
  BY Zenon DEF Init
<1> QED BY <1>1, MasterAssumption DEF FaultlessInv, InUse, Used

(* As long as no call failed, ngx_signal_worker_processes signals only      *)
(* processes the master has not waited for, whose pids are still theirs.    *)
THEOREM SignalsCorrect == Spec => []SignalsOwnChildren
<1>1. TypeInv /\ TableInv /\ FaultlessInv => SignalsOwnChildren
  <2> SUFFICES ASSUME TypeInv, TableInv, FaultlessInv, InSignal, ~Skipped,
                      budget.faults = MaxFaults
               PROVE  child[Entry.pid].state \notin {"none", "reaped"}
    BY DEF SignalsOwnChildren
  <2>1. loop.i \in InUse /\ at = "signal"
    BY EntryTypes DEF Skipped, Entry, InUse, InSignal
  <2>2. ~proc[loop.i].exited
    BY <2>1 DEF FaultlessInv
  <2>3. child[Entry.pid].state # "reaped"
    BY <2>1, <2>2 DEF ExitedIsReaped, Entry
  <2>4. Entry.pid \in 1 .. nextPid - 1 /\ nextPid \in 1 .. MaxPid + 1
    BY <2>1 DEF KnownPids, Entry, TypeInv, ChildTypes
  <2>5. Entry.pid \in Pids /\ ~(Entry.pid >= nextPid)
    BY <2>4, ConstantTypes DEF Pids
  <2>6. child[Entry.pid].state # "none"
    BY <2>5 DEF PidsInOrder
  <2> QED BY <2>3, <2>6
<1>2. TypeInv /\ TableInv /\ FaultlessInv /\ [Next]_vars
         => (TypeInv /\ TableInv /\ FaultlessInv)'
  BY TypeNext, TableNext, FaultlessNext
<1> QED BY TypeInit, TableInit, FaultlessInit, <1>1, <1>2, PTL DEF Spec

-----------------------------------------------------------------------------
(* Who is left when live = 0.                                               *)
Left(s) == proc[s].exited \/ proc[s].detached

LEMMA LiveStart ==
    ASSUME TypeInv, LiveInv, StartProcess \/ StartProcessFails \/ Started
    PROVE  LiveInv'
<1>1. CASE StartProcess \/ StartProcessFails
  <2>1. at = "start" /\ at' = at /\ live' = live /\ loop' = [loop EXCEPT !.i = @ + 1]
    BY <1>1 DEF StartProcess, StartProcessFails, NextTurn, masterVars
  <2>2. loop'.then = loop.then
    BY <2>1 DEF TypeInv, LoopTypes
  <2> QED BY <2>1, <2>2 DEF LiveInv
<1>2. CASE Started
  <2>1. at = "start" /\ at' = loop.then /\ live' = live
    BY <1>2 DEF Started, Goto, masterVars
  <2>2. loop.then \in {"top", "reconfigured", "reopen"}
    BY <2>1 DEF TypeInv, LoopTypes
  <2> QED BY <2>1, <2>2 DEF LiveInv
<1> QED BY <1>1, <1>2

LEMMA LiveReap ==
    ASSUME TypeInv, TypeInv', LiveInv,
           ReapNothing \/ ReapRespawn \/ ReapRespawnFails \/ ReapRemove \/ Reaped
    PROVE  LiveInv'
<1>0. loop.i \in Nat /\ last \in Nat /\ Used \subseteq Slots /\ at = "reap"
  BY UsedSlots, ConstantTypes
     DEF TypeInv, LoopTypes, TableTypes, ReapNothing, ReapRespawn, ReapRespawnFails,
         ReapRemove, Reaped, InTable
<1> PICK k \in Nat : k = loop.i
  BY <1>0
<1>1. CASE ReapRespawn
  BY <1>1 DEF ReapRespawn, InTable, LiveInv
<1>2. CASE Reaped
  <2>1. at' = "check" /\ live' = live /\ UNCHANGED <<proc, last>> /\ loop.i >= last
    BY <1>2 DEF Reaped, Goto, OnlyMaster, tableVars, masterVars
  <2>2. \A s \in InUse : s < loop.i
    BY <1>0, <2>1 DEF InUse, Used
  <2> QED BY <1>0, <2>1, <2>2 DEF LiveInv, InUse, Used
<1>3. ASSUME at' = at, loop'.i = loop.i + 1, ~live' => ~live,
             \A s \in InUse' : s < loop.i => s \in InUse /\ (Left(s) => Left(s)'),
             ~live' => (k \in InUse' => Left(k)')
      PROVE  LiveInv'
  <2>1. \A s \in InUse' : s \in Int /\ (s < loop'.i => s < loop.i \/ s = loop.i)
    <3>1. last' \in Nat
      BY ConstantTypes DEF TypeInv, TableTypes
    <3> QED BY <1>0, <1>3, <3>1 DEF InUse, Used
  <2>2. ASSUME ~live', NEW s \in InUse', s < loop'.i
        PROVE  Left(s)'
    <3>1. CASE s = k
      BY <1>3, <2>2, <3>1 DEF Left
    <3>2. CASE s < loop.i
      <4>1. s \in InUse /\ (Left(s) => Left(s)')
        BY <1>3, <3>2
      <4>2. Left(s)
        BY <1>0, <1>3, <2>2, <3>2, <4>1 DEF LiveInv, Left
      <4> QED BY <4>1, <4>2
    <3> QED BY <2>1, <2>2, <3>1, <3>2
  <2> QED BY <1>0, <1>3, <2>2 DEF LiveInv, Left
<1>4. NextTurn => loop'.i = loop.i + 1 /\ at' = at
  BY DEF NextTurn, TypeInv, LoopTypes
<1>5. CASE ReapNothing
  <2>1. /\ InUse' = InUse /\ proc' = proc
        /\ live' = (live \/ KeepsLive)
    BY <1>5 DEF ReapNothing, OnlyMaster, tableVars, InUse, Used
  <2>2. ~live' => (k \in InUse => Left(k))
    BY <2>1 DEF KeepsLive, Entry, InUse, Left
  <2> QED BY <1>3, <1>4, <1>5, <2>1, <2>2 DEF ReapNothing, Left
<1>6. ASSUME InTable
      PROVE  /\ loop.i \in Slots /\ loop.i < last
             /\ ClosedTable \in [Slots -> Entries]
             /\ \A r \in Slots : /\ ClosedTable[r].pid = proc[r].pid
                                 /\ ClosedTable[r].exited = proc[r].exited
                                 /\ ClosedTable[r].detached = proc[r].detached
  BY <1>6, EntryTypes, ClosedTypes, ClosedFields
<1>7. CASE ReapRespawnFails
  <2>1. InTable /\ Gone /\ live' = live /\ last' = last
    BY <1>7 DEF ReapRespawnFails, SpawnFailed, masterVars
  <2>2. proc' = ClosedTable \/ proc' = [ClosedTable EXCEPT ![loop.i].channel = Stale]
    BY <1>7 DEF ReapRespawnFails, SpawnFailed
  <2>3. \A r \in Slots : /\ proc'[r].pid = proc[r].pid /\ proc'[r].exited = proc[r].exited
                         /\ proc'[r].detached = proc[r].detached
    BY <1>6, <2>1, <2>2 DEF Entries
  <2>4. \A s \in InUse' : s \in InUse /\ (Left(s) => Left(s)')
    BY <1>0, <2>1, <2>3 DEF InUse, Used, Left
  <2>5. Left(k)'
    BY <1>6, <2>1, <2>3 DEF Gone, Entry, Left
  <2> QED BY <1>3, <1>4, <1>7, <2>1, <2>4, <2>5 DEF ReapRespawnFails, Left
<1>8. CASE ReapRemove
  <2>1. InTable /\ live' = live /\ NextTurn
    BY <1>8 DEF ReapRemove
  <2>2. \/ Shrinks /\ last' = last - 1 /\ proc' = ClosedTable
        \/ last' = last /\ proc' = [ClosedTable EXCEPT ![loop.i].pid = None]
    BY <1>8 DEF ReapRemove
  <2>3. \A r \in Slots \ {loop.i} : proc'[r] = ClosedTable[r]
    BY <1>6, <2>1, <2>2
  <2>4. k \notin InUse'
    <3>1. CASE Shrinks /\ last' = last - 1
      BY <1>0, <3>1 DEF Shrinks, InUse, Used
    <3>2. CASE proc' = [ClosedTable EXCEPT ![loop.i].pid = None]
      BY <1>6, <2>1, <3>2 DEF InUse, Entries
    <3> QED BY <2>2, <3>1, <3>2
  <2>5. \A s \in InUse' : s \in Used
    BY <1>0, <2>2 DEF InUse, Used
  <2>6. \A s \in InUse' : s \in InUse /\ (Left(s) => Left(s)')
    BY <1>0, <1>6, <2>1, <2>3, <2>4, <2>5 DEF InUse, Left
  <2> QED BY <1>3, <1>4, <2>1, <2>4, <2>6
<1> QED BY <1>1, <1>2, <1>5, <1>7, <1>8

(* Steps that leave the table alone, or only mark its entries.              *)
LEMMA LiveKept ==
    ASSUME LiveInv, at \notin {"start", "reconfigured", "reap", "exited"},
           at' \notin {"start", "reconfigured"}, at' = "exited" => ~live',
           live' = live,
           \A s \in InUse' : s \in InUse /\ (Left(s) => Left(s)')
    PROVE  LiveInv'
BY DEF LiveInv, Left

LEMMA LiveSignal ==
    ASSUME TypeInv, LiveInv, SignalSkip \/ SignalByChannel \/ SignalByKill \/ Signalled
    PROVE  LiveInv'
<1>1. CASE Signalled
  <2>1. /\ at = "signal" /\ at' = loop.then /\ live' = live
        /\ UNCHANGED <<proc, last>> /\ loop.then \in {"top", "restart", "change_binary"}
    BY <1>1 DEF Signalled, Goto, OnlyMaster, tableVars, masterVars, TypeInv, LoopTypes
  <2> QED BY <2>1, LiveKept DEF Left, InUse, Used
<1>2. CASE ~Signalled
  <2>1. InSignal /\ last' = last /\ at = "signal" /\ at' = at /\ live' = live
    BY <1>2 DEF SignalSkip, SignalByChannel, SignalByKill, InSignal, NextTurn, masterVars
  <2>2. loop.i \in Slots /\ proc \in [Slots -> Entries] /\ Used \subseteq Slots
    BY <2>1, EntryTypes, UsedSlots DEF TypeInv, TableTypes
  <2>3. \/ proc' = proc
        \/ proc' = [proc EXCEPT ![loop.i].just_spawn = FALSE]
        \/ proc' = MarkExiting
        \/ proc' = [proc EXCEPT ![loop.i].exited = TRUE, ![loop.i].exiting = FALSE]
    BY <1>2 DEF SignalSkip, SignalByChannel, SignalByKill
  <2>4. \A s \in Slots : /\ proc'[s].pid = proc[s].pid
                         /\ proc'[s].detached = proc[s].detached
                         /\ proc[s].exited => proc'[s].exited
    <3>1. CASE proc' = [proc EXCEPT ![loop.i].exited = TRUE, ![loop.i].exiting = FALSE]
      <4> DEFINE e == [proc[loop.i] EXCEPT !.exited = TRUE, !.exiting = FALSE]
      <4>1. proc' = [proc EXCEPT ![loop.i] = e]
        BY <2>2, <3>1
      <4>2. /\ e.pid = proc[loop.i].pid /\ e.exited = TRUE
            /\ e.detached = proc[loop.i].detached
        BY <2>2, Zenon DEF Entries
      <4> HIDE DEF e
      <4> QED BY <2>2, <4>1, <4>2
    <3>2. CASE \/ proc' = proc
               \/ proc' = [proc EXCEPT ![loop.i].just_spawn = FALSE]
               \/ proc' = MarkExiting
      BY <2>2, <3>2 DEF MarkExiting, Entries
    <3> QED BY <2>3, <3>1, <3>2
  <2>5. \A s \in InUse' : s \in InUse /\ (Left(s) => Left(s)')
    BY <2>1, <2>2, <2>4 DEF InUse, Used, Left
  <2> QED BY <2>1, <2>5, LiveKept
<1> QED BY <1>1, <1>2

LEMMA LiveDeliver ==
    ASSUME TypeInv, LiveInv, Deliver
    PROVE  LiveInv'
<1>1. CASE at' = "reap" /\ loop' = [NoLoop EXCEPT !.what = "close"]
  <2>1. loop'.i = 0
    BY <1>1 DEF NoLoop
  <2>2. \A s \in InUse' : ~(s < 0)
    BY DEF InUse, Used
  <2> QED BY <1>1, <2>1, <2>2 DEF LiveInv
<1>2. CASE at' = "check" /\ live' = live /\ "reap" \notin pending
  <2>1. UNCHANGED <<proc, last>> /\ at = "suspend"
    BY <1>2 DEF Deliver
  <2> QED BY <1>2, <2>1, LiveKept DEF Left, InUse, Used
<1> QED BY <1>1, <1>2 DEF Deliver, Goto

LEMMA LiveRound ==
    ASSUME TypeInv, LiveInv,
           \/ Top \/ Exit \/ Terminate \/ Quit \/ Continue \/ Reconfigure
           \/ Reconfigured \/ NoReconfigure \/ Restart \/ Reopen \/ ChangeBinary
           \/ ChangeBinaryFails \/ ChangeBinaryForkFails \/ NoChangeBinary \/ Noaccept
    PROVE  LiveInv'
<1>1. CASE Reconfigured
  BY <1>1 DEF Reconfigured, Loop, LiveInv
<1>2. CASE Restart
  <2>1. CASE "restart" \in flags
    BY <1>2, <2>1 DEF Restart, Loop, LiveInv
  <2>2. CASE "restart" \notin flags
    <3>1. at = "restart" /\ at' = "reopen" /\ live' = live /\ UNCHANGED <<proc, last>>
      BY <1>2, <2>2 DEF Restart, Goto, OnlyMaster, tableVars
    <3> QED BY <3>1, LiveKept DEF Left, InUse, Used
  <2> QED BY <2>1, <2>2
<1>3. CASE Reconfigure
  <2>1. at = "reconfigure" /\ live' = live /\ UNCHANGED <<proc, last>>
    BY <1>3 DEF Reconfigure, OnlyMaster, tableVars
  <2>2. CASE Loop("start", 1, "just_respawn", "reconfigured")
    <3>1. at' = "start" /\ loop'.then = "reconfigured"
      BY <2>2, Zenon DEF Loop, NoLoop
    <3> QED BY <3>1 DEF LiveInv
  <2>3. CASE Goto("top")
    BY <2>1, <2>3, LiveKept DEF Goto, Left, InUse, Used
  <2> QED BY <1>3, <2>2, <2>3 DEF Reconfigure
<1>4. CASE ChangeBinary
  <2> DEFINE e == [FreeSlot EXCEPT !.kind = "binary", !.pid = nextPid, !.detached = TRUE]
  <2>1. /\ NewSlot \in Slots /\ NewSlot \in 0 .. last /\ last \in Nat
        /\ last' = IF NewSlot = last THEN last + 1 ELSE last
        /\ at = "change_binary" /\ at' = "noaccept" /\ live' = live
    BY <1>4, NewSlotFree, ConstantTypes DEF ChangeBinary, TypeInv, TableTypes, Goto
  <2>2. proc' = [proc EXCEPT ![NewSlot] = e]
    BY <1>4 DEF ChangeBinary
  <2>3. e.detached = TRUE
    BY DEF FreeSlot
  <2> HIDE DEF e
  <2>4. proc'[NewSlot] = e /\ \A s \in Slots \ {NewSlot} : proc'[s] = proc[s]
    BY <2>1, <2>2 DEF TypeInv, TableTypes
  <2>5. \A s \in InUse' : Left(s)' \/ (s \in InUse /\ proc'[s] = proc[s])
    BY <2>1, <2>3, <2>4, UsedSlots DEF InUse, Used, Left
  <2> QED BY <2>1, <2>5 DEF LiveInv, Left
<1>5. CASE Top \/ Exit \/ Terminate \/ Quit \/ Continue
  <2>1. live' = live /\ UNCHANGED <<proc, last>> /\ at \in {"top", "check"}
    BY <1>5 DEF Top, Exit, Terminate, Quit, Continue, OnlyMaster, tableVars, masterVars
  <2>2. at' \notin {"start", "reconfigured"} /\ (at' = "exited" => ~live')
    BY <1>5 DEF Top, Exit, Terminate, Quit, Continue, Goto, Loop, masterVars
  <2> QED BY <2>1, <2>2, LiveKept DEF Left, InUse, Used
<1>6. CASE NoReconfigure \/ Reopen \/ ChangeBinaryFails \/ NoChangeBinary \/ Noaccept
  <2>1. /\ live' = live /\ UNCHANGED <<proc, last>>
        /\ at \in {"reconfigure", "reopen", "change_binary", "noaccept"}
    BY <1>6 DEF NoReconfigure, Reopen, ChangeBinaryFails, NoChangeBinary, Noaccept,
                OnlyMaster, tableVars, masterVars
  <2>2. at' \notin {"start", "reconfigured", "exited"}
    BY <1>6 DEF NoReconfigure, Reopen, ChangeBinaryFails, NoChangeBinary, Noaccept, Goto,
                Loop
  <2> QED BY <2>1, <2>2, LiveKept DEF Left, InUse, Used
<1>7. CASE ChangeBinaryForkFails
  <2>1. /\ NewSlot \in Slots /\ proc' = [proc EXCEPT ![NewSlot].channel = None]
        /\ last' = last /\ live' = live /\ at = "change_binary" /\ at' = "noaccept"
    BY <1>7 DEF ChangeBinaryForkFails, Goto
  <2>2. \A r \in Slots : /\ proc'[r].pid = proc[r].pid /\ proc'[r].exited = proc[r].exited
                         /\ proc'[r].detached = proc[r].detached
    BY <2>1 DEF Entries, TypeInv, TableTypes
  <2> QED BY <2>1, <2>2, UsedSlots, LiveKept DEF Left, InUse, Used
<1> QED BY <1>1, <1>2, <1>3, <1>4, <1>5, <1>6, <1>7

LEMMA LiveNext ==
    ASSUME TypeInv, TypeInv', LiveInv, [Next]_vars, [~WorkersAgain]_vars
    PROVE  LiveInv'
<1>1. CASE MasterStep /\ ~WorkersAgain
  BY <1>1, LiveStart, LiveReap, LiveSignal, LiveDeliver, LiveRound DEF MasterStep
<1>2. CASE ~MasterStep \/ UNCHANGED vars
  <2>1. UNCHANGED <<at, loop, live, proc, last>>
    BY <1>2 DEF Next, ChildStep, Crash, Initialised, ReadChannel, ReopenFiles,
           GracefulExit, ExitProcess, End, OnlyChild, Send, Alarm, vars, tableVars,
           masterVars
  <2> QED BY <2>1 DEF LiveInv, InUse, Used
<1> QED BY <1>1, <1>2

LEMMA LiveInit == Init => LiveInv
<1> SUFFICES ASSUME Init PROVE LiveInv
  OBVIOUS
<1>1. at = "start" /\ live = TRUE
  BY Zenon DEF Init
<1> QED BY <1>1 DEF LiveInv

(* When the master exits no worker or cache process is left without one, as *)
(* long as it does not start workers for a reconfiguration while            *)
(* ngx_new_binary is set (ngx_process_cycle.c:213, the one branch that      *)
(* starts processes and does not count them in live).                       *)
THEOREM LeavesLastCorrect ==
    Spec /\ [][~WorkersAgain]_vars => []MasterLeavesLast
<1>1. TypeInv /\ TableInv /\ LiveInv => MasterLeavesLast
  <2> SUFFICES ASSUME TypeInv, TableInv, LiveInv, at = "exited", NEW p \in Pids,
                      child[p].kind # "binary"
               PROVE  child[p].state \in {"none", "zombie", "reaped"}
    BY DEF MasterLeavesLast, Up
  <2> SUFFICES ASSUME child[p].state \notin {"none", "reaped"}
               PROVE  FALSE
    OBVIOUS
  <2>1. PICK s \in InUse : proc[s].pid = p
    BY DEF NobodyLost
  <2>2. ~proc[s].exited
    BY <2>1 DEF ExitedIsReaped
  <2>3. ~proc[s].detached
    BY <2>1 DEF KindsAgree
  <2> QED BY <2>2, <2>3 DEF LiveInv
<1>2. TypeInv /\ TableInv /\ LiveInv /\ [Next]_vars /\ [~WorkersAgain]_vars
         => (TypeInv /\ TableInv /\ LiveInv)'
  BY TypeNext, TableNext, LiveNext
<1> QED BY TypeInit, TableInit, LiveInit, <1>1, <1>2, PTL DEF Spec

-----------------------------------------------------------------------------
HIDE DEF TableInv

(* What the children know of each other's channels.  A child's view of slot *)
(* s, once it has read the messages q in its channel: the last of those     *)
(* about s counts.                                                          *)
Telling == {"open", "close"}
About(q, s) == {i \in 1 .. Len(q) : q[i].command \in Telling /\ q[i].slot = s}
WillKnow(q, known, s, c) ==
    \/ About(q, s) = {} /\ known = c
    \/ \E i \in About(q, s) : q[i].channel = c /\ \A j \in About(q, s) : j <= i

Listens(p) == Alive(p) /\ child[p].kind # "binary"
Elsewhere(p, s) == s \in InUse => proc[s].pid # p

(* As long as nothing was lost: no call failed, no channel is full, and no  *)
(* slot is given up in a round of ngx_reap_children that has respawned a    *)
(* child before (ngx_process_cycle.c:409 announces it as opened, with the   *)
(* channel of the child respawned).                                         *)
NothingLost ==
    /\ budget.faults = MaxFaults
    /\ \A p \in Pids : Len(inbox[p]) < ChannelSize
    /\ InTable /\ Gone /\ ~Respawns /\ ~Entry.detached => loop.what = "close"

(* A slot has the channel of its process and no other has one; detached     *)
(* processes are not respawned.                                             *)
OwnChannels ==
    \A s \in Slots :
        proc[s].channel = IF s \in InUse /\ ~proc[s].detached THEN proc[s].pid ELSE None
DetachedStay == \A s \in InUse : proc[s].detached => ~proc[s].respawn
UnusedEmpty == \A p \in Pids : p >= nextPid => inbox[p] = <<>>
ClosesNothing == at = "reap" /\ loop.what = "close" => loop.channel = None
WillAgree ==
    \A p \in Pids, s \in Slots :
        Listens(p) /\ Elsewhere(p, s) => WillKnow(inbox[p], view[p][s], s, proc[s].channel)

TableView == OwnChannels /\ DetachedStay /\ UnusedEmpty /\ WillAgree
ViewInv == TableView /\ ClosesNothing

(* Messages that do not concern the slot, that do, and reading one.         *)
LEMMA KnowAppend ==
    ASSUME NEW q \in Seq(Messages), NEW m \in Messages, NEW known, NEW s, NEW c,
           WillKnow(q, known, s, c), m.command \notin Telling \/ m.slot # s
    PROVE  WillKnow(Append(q, m), known, s, c)
<1>1. /\ Len(Append(q, m)) = Len(q) + 1 /\ Len(q) \in Nat
      /\ \A i \in 1 .. Len(q) : Append(q, m)[i] = q[i]
      /\ Append(q, m)[Len(q) + 1] = m
  OBVIOUS
<1> HIDE DEF Messages
<1>2. About(Append(q, m), s) = About(q, s)
  <2>1. \A i \in 1 .. Len(q) + 1 : i \in 1 .. Len(q) \/ i = Len(q) + 1
    BY <1>1
  <2>2. \A i \in 1 .. Len(q) : i \in 1 .. Len(q) + 1
    BY <1>1
  <2> QED BY <1>1, <2>1, <2>2 DEF About
<1>3. \A i \in About(q, s) : Append(q, m)[i] = q[i]
  BY <1>1 DEF About
<1> QED BY <1>2, <1>3 DEF WillKnow

LEMMA KnowTold ==
    ASSUME NEW q \in Seq(Messages), NEW m \in Messages, NEW known,
           m.command \in Telling
    PROVE  WillKnow(Append(q, m), known, m.slot, m.channel)
<1>1. /\ Len(Append(q, m)) = Len(q) + 1 /\ Len(q) \in Nat
      /\ Append(q, m)[Len(q) + 1] = m
  OBVIOUS
<1>2. Len(q) + 1 \in About(Append(q, m), m.slot)
  BY <1>1 DEF About
<1>3. \A j \in About(Append(q, m), m.slot) : j <= Len(q) + 1
  BY <1>1 DEF About
<1> QED BY <1>1, <1>2, <1>3 DEF WillKnow

LEMMA KnowTail ==
    ASSUME NEW q \in Seq(Messages), q # <<>>, NEW known, NEW s, NEW c,
           WillKnow(q, known, s, c)
    PROVE  WillKnow(Tail(q), IF Head(q).command \in Telling /\ Head(q).slot = s
                             THEN Head(q).channel ELSE known, s, c)
<1> DEFINE t == Tail(q)
<1>1. /\ Len(q) \in Nat /\ Len(q) >= 1 /\ Len(t) = Len(q) - 1 /\ Head(q) = q[1]
      /\ \A i \in 1 .. Len(t) : t[i] = q[i + 1]
  OBVIOUS
<1> HIDE DEF t
<1>2. \A i \in About(t, s) : i \in 1 .. Len(t) /\ i + 1 \in About(q, s)
  BY <1>1 DEF About
<1>3. \A i \in About(q, s) : i \in 1 .. Len(q) /\ (i # 1 => i - 1 \in About(t, s))
  <2> SUFFICES ASSUME NEW i \in About(q, s), i # 1 PROVE i - 1 \in About(t, s)
    BY DEF About
  <2>1. i - 1 \in 1 .. Len(t) /\ i - 1 + 1 = i
    BY <1>1 DEF About
  <2>2. t[i - 1] = q[i]
    BY <1>1, <2>1
  <2> QED BY <2>1, <2>2 DEF About
<1>4. 1 \in About(q, s) <=> Head(q).command \in Telling /\ Head(q).slot = s
  BY <1>1 DEF About
<1>5. CASE About(q, s) = {}
  <2>1. About(t, s) = {}
    BY <1>2, <1>5
  <2> QED BY <1>4, <1>5, <2>1 DEF WillKnow, t
<1>6. CASE About(q, s) # {}
  <2>1. PICK i \in About(q, s) : q[i].channel = c /\ \A j \in About(q, s) : j <= i
    BY <1>6 DEF WillKnow
  <2>2. CASE i = 1
    <3>1. About(t, s) = {}
      <4> SUFFICES ASSUME NEW k \in About(t, s) PROVE FALSE
        OBVIOUS
      <4>1. k + 1 <= 1 /\ k \in 1 .. Len(t)
        BY <1>2, <2>1, <2>2
      <4> QED BY <1>1, <4>1
    <3> QED BY <1>1, <1>4, <2>1, <2>2, <3>1 DEF WillKnow, t
  <2>3. CASE i # 1
    <3>1. i - 1 \in About(t, s) /\ i - 1 \in 1 .. Len(t) /\ i - 1 + 1 = i
      BY <1>1, <1>3, <2>3, <2>1 DEF About
    <3>2. t[i - 1].channel = c
      BY <1>1, <2>1, <3>1
    <3>3. ASSUME NEW j \in About(t, s) PROVE j <= i - 1
      <4>1. j \in 1 .. Len(t) /\ j + 1 <= i /\ i \in 1 .. Len(q)
        BY <1>2, <1>3, <2>1
      <4> QED BY <1>1, <4>1
    <3> QED BY <3>1, <3>2, <3>3 DEF WillKnow, t
  <2> QED BY <2>2, <2>3
<1> QED BY <1>5, <1>6

(* Every child that listens has a slot, with its channel.                   *)
LEMMA ListenerSlot ==
    ASSUME TypeInv, TableInv, OwnChannels, NEW p \in Pids, Listens(p)
    PROVE  \E j \in InUse : /\ j \in Used /\ j \in Slots /\ proc[j].pid = p
                            /\ ~proc[j].exited /\ proc[j].channel = p
<1>1. child[p].state \notin {"none", "reaped"}
  BY DEF Listens, Alive
<1>2. PICK j \in InUse : proc[j].pid = p
  BY <1>1 DEF TableInv, NobodyLost
<1>3. ~proc[j].exited /\ ~proc[j].detached
  BY <1>1, <1>2 DEF TableInv, ExitedIsReaped, KindsAgree, Listens
<1>4. j \in Used /\ j \in Slots
  BY UsedSlots DEF InUse
<1> QED BY <1>2, <1>3, <1>4 DEF OwnChannels

(* Channels are those of processes that exist.                              *)
LEMMA ChannelPids ==
    ASSUME TypeInv, TableInv, OwnChannels
    PROVE  \A s \in Slots : proc[s].channel = None \/ proc[s].channel \in 1 .. nextPid - 1
BY DEF TableInv, KnownPids, OwnChannels

(* What is written to a set of channels that does not contain those to come.*)
LEMMA WrittenInbox ==
    ASSUME NEW in \in [Pids -> Seq(Messages)], NEW cs, NEW m, NEW p \in Pids
    PROVE  /\ p \notin cs => Written(in, cs, m)[p] = in[p]
           /\ Len(in[p]) < ChannelSize /\ p \in cs => Written(in, cs, m)[p] = Append(in[p], m)
           /\ ~(Len(in[p]) < ChannelSize) => Written(in, cs, m)[p] = in[p]
BY DEF Written

(* Steps that leave the slots and their channels alone.                     *)
LEMMA ViewKept ==
    ASSUME TypeInv, TypeInv', TableInv, TableView, last' = last, nextPid' = nextPid,
           \A s \in Slots : /\ proc'[s].pid = proc[s].pid
                            /\ proc'[s].channel = proc[s].channel
                            /\ proc'[s].detached = proc[s].detached
                            /\ proc'[s].respawn => proc[s].respawn,
           \A p \in Pids : Listens(p)' => Listens(p),
           \A p \in Pids : p >= nextPid => inbox'[p] = <<>>,
           \A p \in Pids, s \in Slots :
              Listens(p)' /\ WillKnow(inbox[p], view[p][s], s, proc[s].channel) =>
                  WillKnow(inbox'[p], view'[p][s], s, proc[s].channel)
    PROVE  TableView'
<1>1. InUse' = InUse /\ InUse \subseteq Slots
  BY UsedSlots DEF InUse, Used
<1>2. OwnChannels' /\ DetachedStay'
  BY <1>1 DEF TableView, OwnChannels, DetachedStay
<1>3. UnusedEmpty'
  BY DEF UnusedEmpty
<1>4. WillAgree'
  <2> SUFFICES ASSUME NEW p \in Pids, NEW s \in Slots, Listens(p)', Elsewhere(p, s)'
               PROVE  WillKnow(inbox'[p], view'[p][s], s, proc'[s].channel)
    BY DEF WillAgree
  <2>1. Listens(p) /\ Elsewhere(p, s)
    BY <1>1 DEF Elsewhere
  <2> QED BY <2>1 DEF TableView, WillAgree
<1> QED BY <1>2, <1>3, <1>4 DEF TableView

LEMMA ViewSame ==
    ASSUME TypeInv, TypeInv', TableInv, TableView, UNCHANGED <<tableVars, childVars, nextPid>>
    PROVE  TableView'
<1>1. \A p \in Pids : Listens(p)' => Listens(p)
  BY DEF Listens, Alive, childVars
<1> QED BY <1>1, ViewKept DEF tableVars, childVars, TableView, UnusedEmpty

(* ngx_spawn_process: the new child has a copy of the table, the others are *)
(* told its channel.  The inboxes may have got messages about slot s before.*)
LEMMA ViewSpawn ==
    ASSUME TypeInv, TypeInv', TableInv, TableView,
           NEW t \in [Slots -> Entries], NEW s \in Slots, s <= last,
           s = last \/ proc[s].pid = None \/ proc[s].exited,
           \A r \in Slots \ {s} : t[r] = proc[r],
           NEW e \in Entries, ~e.detached,
           NEW in \in [Pids -> Seq(Messages)], Spawn(t, s, e, in),
           \A p \in Pids : Len(inbox'[p]) < ChannelSize,
           \A p \in Pids : p >= nextPid => in[p] = <<>>,
           \A p \in Pids, r \in Slots \ {s} :
              Listens(p) /\ Elsewhere(p, r) =>
                  WillKnow(in[p], view[p][r], r, proc[r].channel)
    PROVE  TableView'
<1> DEFINE t2 == [t EXCEPT ![s] = [e EXCEPT !.pid = nextPid, !.exited = FALSE,
                                             !.channel = nextPid]]
           m == [command |-> "open", slot |-> s, channel |-> t2[s].channel]
           cs == {t2[i].channel : i \in {j \in 0 .. last' - 1 : j # s /\ t2[j].pid # None}}
<1>1. /\ nextPid \in Pids /\ nextPid' = nextPid + 1 /\ nextPid \in Nat
      /\ proc' = t2 /\ last' = IF s = last THEN last + 1 ELSE last
      /\ child' = [child EXCEPT ![nextPid] =
                     [state |-> "init", kind |-> e.kind, code |-> 0, flags |-> {}]]
      /\ view' = [view EXCEPT ![nextPid] = [ChannelsOf(t) EXCEPT ![s] = None]]
      /\ inbox' = PassOpenChannel(in, t2, last', s)
  BY DEF Spawn, Pids
<1>2. /\ t2 \in [Slots -> Entries] /\ t2[s].pid = nextPid /\ t2[s].channel = nextPid
      /\ t2[s].detached = FALSE /\ t2[s].respawn = e.respawn
  <2>1. t2[s] = [e EXCEPT !.pid = nextPid, !.exited = FALSE, !.channel = nextPid]
    OBVIOUS
  <2>2. /\ t2[s].pid = nextPid /\ t2[s].channel = nextPid
        /\ t2[s].detached = FALSE /\ t2[s].respawn = e.respawn
    BY <2>1, Zenon DEF Entries
  <2>3. t2 \in [Slots -> Entries]
    BY <1>1 DEF TypeInv, TableTypes
  <2> HIDE DEF t2
  <2> QED BY <2>2, <2>3
<1>3. \A r \in Slots \ {s} : t2[r] = proc[r]
  OBVIOUS
<1>4. /\ last \in Nat /\ last' \in Nat /\ last' <= MaxProcesses /\ s \in Nat
      /\ MaxProcesses \in Nat /\ MaxPid \in Nat
  BY <1>1, ConstantTypes DEF TypeInv, TableTypes, Slots
<1>5. m \in Messages /\ m.command \in Telling /\ m.slot = s /\ m.channel = nextPid
  <2> HIDE DEF t2
  <2> QED BY <1>1, <1>2 DEF Messages, Telling
<1>6. inbox' = Written(in, cs, m)
  <2>1. t2[s].channel # Stale
    <3> HIDE DEF t2
    <3> QED BY <1>1, <1>2 DEF Stale
  <2> QED BY <1>1, <2>1 DEF PassOpenChannel
<1> HIDE DEF t2, m
<1>7. InUse' = InUse \cup {s}
  <2>1. \A r \in Slots : r \in InUse' <=> r \in 0 .. last' - 1 /\ t2[r].pid # None
    BY <1>1 DEF InUse, Used
  <2>2. InUse' \subseteq Slots /\ InUse \subseteq Slots
    <3>1. PICK n \in Nat : n = last' /\ n <= MaxProcesses
      BY <1>4
    <3>2. 0 .. n - 1 \subseteq Slots
      BY <3>1, SlotsBelow
    <3> QED BY <3>1, <3>2, UsedSlots DEF InUse, Used
  <2>3. s \in InUse'
    <3>1. s \in 0 .. last' - 1
      BY <1>1, <1>4
    <3>2. t2[s].pid # None
      BY <1>1, <1>2, ConstantTypes
    <3> QED BY <2>1, <3>1, <3>2
  <2>4. \A r \in Slots \ {s} : r \in InUse' <=> r \in InUse
    BY <1>1, <1>3, <1>4, <2>1 DEF InUse, Used, Slots
  <2> QED BY <2>2, <2>3, <2>4
<1>8. \A r \in Slots \ {s} : (r \in InUse' <=> r \in InUse) /\ proc'[r] = proc[r]
  BY <1>1, <1>3, <1>7
<1>9. OwnChannels' /\ DetachedStay'
  <2>1. OwnChannels'
    BY <1>1, <1>2, <1>7, <1>8 DEF TableView, OwnChannels
  <2>2. InUse \subseteq Slots
    BY UsedSlots DEF InUse
  <2> QED BY <1>1, <1>2, <1>7, <1>8, <2>1, <2>2 DEF TableView, DetachedStay
<1>10. ASSUME NEW p \in Pids, p >= nextPid PROVE inbox'[p] = <<>>
  <2>1. p \notin cs
    <3> SUFFICES ASSUME NEW i \in 0 .. last' - 1, i # s, t2[i].channel = p PROVE FALSE
      OBVIOUS
    <3>1. i \in Slots
      BY <1>4 DEF Slots
    <3>2. proc[i].channel = p
      BY <1>3, <3>1, <1>10
    <3>3. p \in 1 .. nextPid - 1
      BY <3>1, <3>2, ChannelPids, ConstantTypes DEF TableView
    <3> QED BY <1>1, <1>10, <3>3
  <2> HIDE DEF cs
  <2>2. inbox'[p] = in[p]
    BY <1>6, <2>1, WrittenInbox
  <2> QED BY <1>10, <2>2
<1>11. UnusedEmpty'
  BY <1>1, <1>10 DEF UnusedEmpty, Pids
<1>12. ASSUME NEW p \in Pids, p # nextPid, Listens(p)
       PROVE  inbox'[p] = Append(in[p], m) /\ view'[p] = view[p]
  <2>1. PICK j \in InUse : /\ j \in Used /\ j \in Slots /\ proc[j].pid = p
                           /\ ~proc[j].exited /\ proc[j].channel = p
    BY <1>12, ListenerSlot DEF TableView
  <2>2. j # s
    BY <2>1, <1>4, ConstantTypes DEF Used
  <2>3. p \in cs
    BY <2>1, <2>2, <1>1, <1>3, <1>4, ConstantTypes DEF Used
  <2>4. Len(in[p]) < ChannelSize
    <3> SUFFICES ASSUME ~(Len(in[p]) < ChannelSize) PROVE FALSE
      OBVIOUS
    <3> HIDE DEF cs
    <3>1. inbox'[p] = in[p]
      BY <1>6, WrittenInbox
    <3> QED BY <3>1
  <2>5. view'[p] = view[p]
    BY <1>1, <1>12 DEF TypeInv, ChildTypes
  <2> HIDE DEF cs
  <2> QED BY <1>6, <2>3, <2>4, <2>5, WrittenInbox
<1>13. WillAgree'
  <2> SUFFICES ASSUME NEW p \in Pids, NEW r \in Slots, Listens(p)', Elsewhere(p, r)'
               PROVE  WillKnow(inbox'[p], view'[p][r], r, proc'[r].channel)
    BY DEF WillAgree
  <2>1. CASE p = nextPid
    <3>1. r # s
      BY <1>1, <1>2, <1>7, <2>1 DEF Elsewhere
    <3>2. inbox'[p] = <<>>
      BY <1>1, <1>10, <2>1
    <3>3. view'[p] = [ChannelsOf(t) EXCEPT ![s] = None]
      BY <1>1, <2>1 DEF TypeInv, ChildTypes
    <3>4. view'[p][r] = proc'[r].channel
      BY <1>8, <3>1, <3>3 DEF ChannelsOf
    <3>5. About(inbox'[p], r) = {}
      BY <3>2 DEF About
    <3> QED BY <3>4, <3>5 DEF WillKnow
  <2>2. CASE p # nextPid
    <3>1. child'[p] = child[p]
      BY <1>1, <2>2 DEF TypeInv, ChildTypes
    <3>2. Listens(p)
      BY <3>1 DEF Listens, Alive
    <3>3. inbox'[p] = Append(in[p], m) /\ view'[p] = view[p] /\ in[p] \in Seq(Messages)
      BY <1>12, <2>2, <3>2
    <3>4. CASE r = s
      BY <1>1, <1>2, <1>5, <3>3, <3>4, KnowTold
    <3>5. CASE r # s
      <4>1. Elsewhere(p, r)
        BY <1>8, <3>5 DEF Elsewhere
      <4>2. WillKnow(in[p], view[p][r], r, proc[r].channel)
        BY <3>2, <3>5, <4>1
      <4>3. proc'[r].channel = proc[r].channel
        BY <1>8, <3>5
      <4> QED BY <1>5, <3>3, <3>5, <4>2, <4>3, KnowAppend
    <3> QED BY <3>4, <3>5
  <2> QED BY <2>1, <2>2
<1> QED BY <1>9, <1>11, <1>13 DEF TableView

LEMMA ViewStart ==
    ASSUME TypeInv, TypeInv', TableInv, TableView, NothingLost, NothingLost',
           StartProcess \/ StartProcessFails \/ Started
    PROVE  TableView'
<1> proc \in [Slots -> Entries] /\ last \in Nat
  BY ConstantTypes DEF TypeInv, TableTypes
<1>1. CASE StartProcess
  <2>1. /\ NewSlot \in Slots /\ NewSlot <= last
        /\ NewSlot = last \/ proc[NewSlot].pid = None
    BY <1>1, NewSlotFree DEF StartProcess
  <2>2. Kinds[loop.i] \in {"worker", "manager", "loader"}
    BY <1>1, ConstantTypes DEF StartProcess, TypeInv, LoopTypes
  <2> DEFINE e == NewEntry(Kinds[loop.i], loop.what)
  <2>3. e \in Entries /\ ~e.detached
    BY <2>2 DEF NewEntry, FreeSlot, Entries
  <2>4. Spawn(proc, NewSlot, e, inbox)
    BY <1>1 DEF StartProcess
  <2>5. inbox \in [Pids -> Seq(Messages)] /\ \A p \in Pids : Len(inbox'[p]) < ChannelSize
    BY DEF TypeInv, InboxTypes, NothingLost
  <2>6. \A p \in Pids : p >= nextPid => inbox[p] = <<>>
    BY DEF TableView, UnusedEmpty
  <2>7. \A p \in Pids, r \in Slots \ {NewSlot} :
           Listens(p) /\ Elsewhere(p, r) =>
               WillKnow(inbox[p], view[p][r], r, proc[r].channel)
    BY DEF TableView, WillAgree
  <2> HIDE DEF e
  <2> QED BY <2>1, <2>3, <2>4, <2>5, <2>6, <2>7, ViewSpawn
<1>2. CASE StartProcessFails
  <2> DEFINE c == proc[slot].channel
             m == [command |-> "open", slot |-> slot, channel |-> c]
             cs == {proc[i].channel : i \in {j \in 0 .. last - 1 :
                                              j # slot /\ proc[j].pid # None}}
  <2>1. UNCHANGED <<tableVars, child, view, nextPid>>
    BY <1>2 DEF StartProcessFails, Spend, NothingLost, TypeInv, OuterTypes
  <2>2. slot \in Slots /\ UNCHANGED <<proc, last, slot>>
    BY <2>1 DEF tableVars, TypeInv, TableTypes
  <2>3. inbox' = PassOpenChannel(inbox, proc, last, slot)
    BY <1>2, <2>2 DEF StartProcessFails
  <2>4. c = None \/ (c \in 1 .. nextPid - 1 /\ c \in Pids)
    BY <2>2, ChannelPids, ConstantTypes DEF TableView, TypeInv, ChildTypes, Pids
  <2>5. m \in Messages /\ m.command \in Telling /\ m.slot = slot /\ m.channel = c
    BY <2>2, <2>4 DEF Messages, Telling
  <2>6. inbox' = Written(inbox, cs, m)
    BY <2>3, <2>4, ConstantTypes DEF PassOpenChannel, Stale, Pids, None
  <2>7. inbox \in [Pids -> Seq(Messages)]
    BY DEF TypeInv, InboxTypes
  <2>8. ASSUME NEW p \in Pids, p >= nextPid PROVE inbox'[p] = <<>>
    <3>1. p \notin cs
      <4> SUFFICES ASSUME NEW i \in 0 .. last - 1, proc[i].channel = p PROVE FALSE
        OBVIOUS
      <4>1. i \in Slots
        BY ConstantTypes DEF Slots, TypeInv, TableTypes
      <4>2. p \in 1 .. nextPid - 1 /\ nextPid \in Nat
        BY <4>1, ChannelPids, ConstantTypes DEF TableView, TypeInv, ChildTypes
      <4> QED BY <4>2, <2>8
    <3> HIDE DEF cs, m
    <3>2. inbox'[p] = inbox[p]
      BY <2>6, <2>7, <3>1, WrittenInbox
    <3> QED BY <2>8, <3>2 DEF TableView, UnusedEmpty
  <2>9. \A p \in Pids : Listens(p)' => Listens(p)
    BY <2>1 DEF Listens, Alive
  <2>10. ASSUME NEW p \in Pids, NEW s \in Slots,
                WillKnow(inbox[p], view[p][s], s, proc[s].channel)
         PROVE  WillKnow(inbox'[p], view'[p][s], s, proc[s].channel)
    <3> HIDE DEF cs, m
    <3>1. inbox'[p] = inbox[p] \/ inbox'[p] = Append(inbox[p], m)
      BY <2>6, <2>7, WrittenInbox
    <3>2. inbox[p] \in Seq(Messages) /\ view' = view
      BY <2>1, <2>7
    <3>3. CASE inbox'[p] = Append(inbox[p], m) /\ s = slot
      BY <2>5, <3>2, <3>3, KnowTold
    <3>4. CASE inbox'[p] = Append(inbox[p], m) /\ s # slot
      BY <2>5, <2>10, <3>2, <3>4, KnowAppend
    <3> QED BY <2>10, <3>1, <3>2, <3>3, <3>4
  <2> HIDE DEF c, m, cs
  <2> QED BY <2>1, <2>2, <2>8, <2>9, <2>10, ViewKept
<1>3. CASE Started
  BY <1>3, ViewSame DEF Started, OnlyMaster
<1> QED BY <1>1, <1>2, <1>3

(* ngx_reap_children: the channel of a child that has gone is closed.       *)
ClosingMessage == [command |-> loop.what, slot |-> loop.i, channel |-> loop.channel]

LEMMA ClosedView ==
    ASSUME TypeInv, TableInv, TableView, NothingLost, InTable, Gone, ~Entry.detached
    PROVE  /\ loop.i \in Slots /\ loop.i \in InUse /\ loop.i < last
           /\ proc[loop.i].exited
           /\ \A r \in Slots \ {loop.i} : ClosedTable[r] = proc[r]
           /\ ClosingMessage \in Messages
           /\ \A p \in Pids : p >= nextPid => ClosedInbox[p] = <<>>
           /\ \A p \in Pids : Listens(p) =>
                 ClosedInbox[p] = Append(inbox[p], ClosingMessage)
<1> DEFINE cs == {ClosedTable[i].channel :
                     i \in {j \in Used : ~ClosedTable[j].exited /\ ClosedTable[j].pid # None}}
<1>1. /\ loop.i \in Slots /\ loop.i \in InUse /\ loop.i < last /\ proc[loop.i].exited
      /\ proc \in [Slots -> Entries] /\ inbox \in [Pids -> Seq(Messages)]
      /\ ClosedTable \in [Slots -> Entries]
  BY EntryTypes, ClosedTypes DEF Gone, Entry, InUse, TypeInv, TableTypes, InboxTypes
<1>2. ClosedTable = [proc EXCEPT ![loop.i].channel = None]
  BY DEF ClosedTable
<1>3. \A r \in Slots \ {loop.i} : ClosedTable[r] = proc[r]
  BY <1>1, <1>2
<1>4. ClosingMessage \in Messages
  BY <1>1 DEF ClosingMessage, Messages, TypeInv, LoopTypes, InTable
<1>5. ClosedInbox = Written(inbox, cs, ClosingMessage)
  BY DEF ClosedInbox, PassCloseChannel, ClosingMessage
<1>6. ASSUME NEW p \in Pids, p >= nextPid PROVE ClosedInbox[p] = <<>>
  <2>1. p \notin cs
    <3> SUFFICES ASSUME NEW i \in Used, ClosedTable[i].channel = p PROVE FALSE
      OBVIOUS
    <3>1. i \in Slots
      BY UsedSlots
    <3>2. ClosedTable[i].channel = None \/ ClosedTable[i] = proc[i]
      BY <1>1, <1>2, <3>1 DEF Entries
    <3>3. p \in 1 .. nextPid - 1 /\ nextPid \in Nat
      BY <3>1, <3>2, ChannelPids, ConstantTypes DEF TableView, TypeInv, ChildTypes
    <3> QED BY <3>3, <1>6
  <2> HIDE DEF cs
  <2>2. ClosedInbox[p] = inbox[p]
    BY <1>1, <1>5, <2>1, WrittenInbox
  <2> QED BY <1>6, <2>2 DEF TableView, UnusedEmpty
<1>7. ASSUME NEW p \in Pids, Listens(p)
      PROVE  ClosedInbox[p] = Append(inbox[p], ClosingMessage)
  <2>1. PICK j \in InUse : /\ j \in Used /\ j \in Slots /\ proc[j].pid = p
                           /\ ~proc[j].exited /\ proc[j].channel = p
    BY <1>7, ListenerSlot DEF TableView
  <2>2. ClosedTable[j] = proc[j] /\ p # None
    BY <1>1, <1>3, <2>1, ConstantTypes
  <2>3. p \in cs
    BY <2>1, <2>2
  <2> HIDE DEF cs
  <2> QED BY <1>1, <1>5, <2>3, WrittenInbox DEF NothingLost
<1> QED BY <1>1, <1>3, <1>4, <1>6, <1>7

LEMMA ViewReap ==
    ASSUME TypeInv, TypeInv', TableInv, TableView, ClosesNothing, NothingLost, NothingLost',
           ReapNothing \/ ReapRespawn \/ ReapRespawnFails \/ ReapRemove \/ Reaped
    PROVE  TableView'
<1>1. CASE ReapNothing \/ Reaped
  BY <1>1, ViewSame DEF ReapNothing, Reaped, OnlyMaster
<1>2. CASE ReapRespawn
  <2>1. InTable /\ Gone /\ Entry.respawn
    BY <1>2 DEF ReapRespawn, Respawns
  <2>2. ~Entry.detached
    BY <2>1, EntryTypes DEF TableView, DetachedStay, Entry, Gone, InUse
  <2>3. /\ ClosedTable \in [Slots -> Entries] /\ ClosedInbox \in [Pids -> Seq(Messages)]
        /\ loop.i <= last
    BY <2>1, ClosedTypes, EntryTypes DEF Slots
  <2>4. ~ClosedTable[loop.i].detached
    BY <2>1, <2>2, ClosedFields, ClosedView DEF Entry
  <2>5. ASSUME NEW p \in Pids, NEW r \in Slots \ {loop.i}, Listens(p), Elsewhere(p, r)
        PROVE  WillKnow(ClosedInbox[p], view[p][r], r, proc[r].channel)
    <3>1. /\ ClosedInbox[p] = Append(inbox[p], ClosingMessage)
          /\ ClosingMessage \in Messages /\ ClosingMessage.slot # r
      BY <2>1, <2>2, <2>5, ClosedView DEF ClosingMessage
    <3>2. WillKnow(inbox[p], view[p][r], r, proc[r].channel)
      BY <2>5 DEF TableView, WillAgree
    <3>3. inbox[p] \in Seq(Messages)
      BY DEF TypeInv, InboxTypes
    <3> QED BY <3>1, <3>2, <3>3, KnowAppend
  <2>6. \A p \in Pids : Len(inbox'[p]) < ChannelSize
    BY DEF NothingLost
  <2>7. /\ loop.i \in Slots /\ proc[loop.i].exited
        /\ \A r \in Slots \ {loop.i} : ClosedTable[r] = proc[r]
        /\ \A p \in Pids : p >= nextPid => ClosedInbox[p] = <<>>
    BY <2>1, <2>2, ClosedView
  <2>8. Spawn(ClosedTable, loop.i, ClosedTable[loop.i], ClosedInbox)
    BY <1>2 DEF ReapRespawn
  <2>9. ClosedTable[loop.i] \in Entries
    BY <2>3, <2>7
  <2> QED BY <2>3, <2>4, <2>5, <2>6, <2>7, <2>8, <2>9, ViewSpawn
<1>3. CASE ReapRespawnFails
  BY <1>3 DEF ReapRespawnFails, Spend, NothingLost, TypeInv, OuterTypes
<1>4. CASE ReapRemove
  <2>1. /\ InTable /\ Gone /\ ~Respawns /\ last \in Nat
        /\ UNCHANGED <<child, view, nextPid>> /\ inbox' = ClosedInbox
    BY <1>4, ConstantTypes DEF ReapRemove, TypeInv, TableTypes
  <2>2. /\ loop.i \in Slots /\ loop.i \in InUse /\ loop.i < last /\ proc[loop.i].exited
        /\ proc \in [Slots -> Entries]
    BY <2>1, EntryTypes DEF Gone, Entry, InUse, TypeInv, TableTypes
  <2>3. \A r \in Slots \ {loop.i} : ClosedTable[r] = proc[r]
    BY <2>2 DEF ClosedTable
  <2>4. ClosedTable \in [Slots -> Entries] /\ ClosedTable[loop.i].channel = None
    <3>1. CASE Entry.detached
      BY <2>2, <3>1 DEF ClosedTable, Entry, TableView, OwnChannels
    <3>2. CASE ~Entry.detached
      BY <2>1, <2>2, <3>2, ClosedTypes DEF ClosedTable, Entries
    <3> QED BY <3>1, <3>2
  <2>5. proc' = ClosedTable \/ proc' = [ClosedTable EXCEPT ![loop.i].pid = None]
    BY <1>4 DEF ReapRemove
  <2>6. proc'[loop.i].channel = None /\ \A r \in Slots \ {loop.i} : proc'[r] = proc[r]
    BY <2>2, <2>3, <2>4, <2>5 DEF Entries
  <2>7. InUse' = InUse \ {loop.i}
    <3>1. CASE Shrinks
      <4>1. last' = last - 1 /\ loop.i = last - 1 /\ Used' = Used \ {loop.i}
        BY <1>4, <2>1, <3>1 DEF ReapRemove, Shrinks, Used
      <4>2. \A r \in Used \ {loop.i} : proc'[r] = proc[r]
        BY <2>6, UsedSlots
      <4> QED BY <4>1, <4>2 DEF InUse
    <3>2. CASE ~Shrinks
      <4>1. last' = last /\ proc' = [ClosedTable EXCEPT ![loop.i].pid = None]
        BY <1>4, <3>2 DEF ReapRemove
      <4>2. proc'[loop.i].pid = None
        BY <2>2, <2>4, <4>1 DEF Entries
      <4>3. \A r \in Used \ {loop.i} : proc'[r] = proc[r]
        BY <2>6, UsedSlots
      <4> QED BY <4>1, <4>2, <4>3 DEF InUse, Used
    <3> QED BY <3>1, <3>2
  <2>8. InUse \subseteq Slots
    BY UsedSlots DEF InUse
  <2>9. OwnChannels' /\ DetachedStay'
    BY <2>2, <2>6, <2>7, <2>8 DEF TableView, OwnChannels, DetachedStay
  <2>10. UnusedEmpty'
    <3>1. CASE Entry.detached
      BY <2>1, <3>1 DEF ClosedInbox, TableView, UnusedEmpty
    <3>2. CASE ~Entry.detached
      BY <2>1, <3>2, ClosedView DEF UnusedEmpty
    <3> QED BY <3>1, <3>2
  <2>11. ASSUME NEW p \in Pids, NEW r \in Slots, Listens(p)', Elsewhere(p, r)'
         PROVE  WillKnow(inbox'[p], view'[p][r], r, proc'[r].channel)
    <3>1. Listens(p) /\ inbox[p] \in Seq(Messages)
      BY <2>1, <2>11 DEF Listens, Alive, TypeInv, InboxTypes
    <3>2. Elsewhere(p, r)
      <4>1. CASE r = loop.i
        <5>1. child[proc[r].pid].state = "reaped"
          BY <2>2, <4>1 DEF TableInv, ExitedIsReaped
        <5> QED BY <5>1, <3>1 DEF Elsewhere, Listens, Alive
      <4>2. CASE r # loop.i
        BY <2>6, <2>7, <2>11, <4>2 DEF Elsewhere
      <4> QED BY <4>1, <4>2
    <3>3. WillKnow(inbox[p], view[p][r], r, proc[r].channel)
      BY <3>1, <3>2 DEF TableView, WillAgree
    <3>4. CASE Entry.detached
      <4>1. proc'[r].channel = proc[r].channel
        BY <2>2, <2>6, <3>4 DEF Entry, TableView, OwnChannels
      <4>2. inbox' = inbox
        BY <2>1, <3>4 DEF ClosedInbox
      <4> QED BY <2>1, <3>3, <4>1, <4>2
    <3>5. CASE ~Entry.detached
      <4>1. /\ inbox'[p] = Append(inbox[p], ClosingMessage)
            /\ ClosingMessage \in Messages
        BY <2>1, <3>1, <3>5, ClosedView
      <4>2. ClosingMessage.slot = loop.i
        BY DEF ClosingMessage
      <4>3. CASE r = loop.i
        <5>1. loop.what = "close" /\ at = "reap"
          BY <2>1, <3>5 DEF NothingLost, InTable
        <5>2. ClosingMessage.command \in Telling /\ ClosingMessage.channel = None
          BY <5>1 DEF ClosingMessage, Telling, ClosesNothing
        <5> QED BY <2>1, <2>6, <3>1, <4>1, <4>2, <4>3, <5>2, KnowTold
      <4>4. CASE r # loop.i
        <5>1. proc'[r].channel = proc[r].channel
          BY <2>6, <4>4
        <5> QED BY <2>1, <3>1, <3>3, <4>1, <4>2, <4>4, <5>1, KnowAppend
      <4> QED BY <4>3, <4>4
    <3> QED BY <3>4, <3>5
  <2>12. WillAgree'
    BY <2>11 DEF WillAgree
  <2> QED BY <2>9, <2>10, <2>12 DEF TableView
<1> QED BY <1>1, <1>2, <1>3, <1>4

LEMMA ViewSignal ==
    ASSUME TypeInv, TypeInv', TableInv, TableView,
           SignalSkip \/ SignalByChannel \/ SignalByKill \/ Signalled
    PROVE  TableView'
<1>1. ASSUME InSignal
      PROVE  /\ loop.i \in Slots /\ loop.i \in Used /\ proc \in [Slots -> Entries]
             /\ \A r \in Slots : /\ MarkExiting[r].pid = proc[r].pid
                                 /\ MarkExiting[r].channel = proc[r].channel
                                 /\ MarkExiting[r].detached = proc[r].detached
                                 /\ MarkExiting[r].respawn = proc[r].respawn
  <2>1. loop.i \in Slots /\ loop.i \in Used /\ proc \in [Slots -> Entries]
    BY <1>1, EntryTypes DEF TypeInv, TableTypes
  <2> QED BY <2>1 DEF MarkExiting, Entries
<1>2. CASE SignalSkip
  <2>1. \A r \in Slots : /\ proc'[r].pid = proc[r].pid
                         /\ proc'[r].channel = proc[r].channel
                         /\ proc'[r].detached = proc[r].detached
                         /\ proc'[r].respawn = proc[r].respawn
    BY <1>1, <1>2 DEF SignalSkip, Entries
  <2>2. UNCHANGED <<last, nextPid, child, inbox, view>>
    BY <1>2 DEF SignalSkip, childVars
  <2>3. \A p \in Pids : Listens(p)' => Listens(p)
    BY <2>2 DEF Listens, Alive
  <2> QED BY <2>1, <2>2, <2>3, ViewKept DEF TableView, UnusedEmpty
<1>3. CASE SignalByChannel
  <2> DEFINE m == [command |-> loop.what, slot |-> 0, channel |-> None]
             c == Entry.channel
  <2>1. InSignal /\ ~Skipped /\ loop.what # "kill" /\ c \in Pids /\ proc' = MarkExiting
        /\ UNCHANGED <<last, nextPid, child, view>> /\ inbox' = Written(inbox, {c}, m)
    BY <1>3 DEF SignalByChannel, CanWrite
  <2>2. m \in Messages /\ m.command \notin Telling
    BY <2>1, ConstantTypes DEF Messages, Telling, TypeInv, LoopTypes, InSignal
  <2>3. c \in 1 .. nextPid - 1 /\ nextPid \in Nat
    BY <1>1, <2>1, ChannelPids, ConstantTypes DEF Entry, TableView, TypeInv, ChildTypes
  <2>4. inbox \in [Pids -> Seq(Messages)]
    BY DEF TypeInv, InboxTypes
  <2> HIDE DEF m, c
  <2>5. \A p \in Pids : inbox'[p] = inbox[p] \/ (p = c /\ inbox'[p] = Append(inbox[p], m))
    <3> SUFFICES ASSUME NEW p \in Pids
                 PROVE  inbox'[p] = inbox[p] \/ (p = c /\ inbox'[p] = Append(inbox[p], m))
      OBVIOUS
    <3> DEFINE cs == {c}
    <3>1. inbox' = Written(inbox, cs, m) /\ (p \in cs <=> p = c)
      BY <2>1
    <3> HIDE DEF cs
    <3>2. /\ p \notin cs => inbox'[p] = inbox[p]
          /\ Len(inbox[p]) < ChannelSize /\ p \in cs => inbox'[p] = Append(inbox[p], m)
          /\ ~(Len(inbox[p]) < ChannelSize) => inbox'[p] = inbox[p]
      BY <2>4, <3>1, WrittenInbox
    <3> QED BY <3>1, <3>2
  <2>6. ASSUME NEW p \in Pids, p >= nextPid PROVE inbox'[p] = <<>>
    <3>1. p # c
      BY <2>3, <2>6
    <3> QED BY <2>5, <2>6, <3>1 DEF TableView, UnusedEmpty
  <2>7. ASSUME NEW p \in Pids, NEW s \in Slots,
               WillKnow(inbox[p], view[p][s], s, proc[s].channel)
        PROVE  WillKnow(inbox'[p], view'[p][s], s, proc[s].channel)
    BY <2>1, <2>2, <2>4, <2>5, <2>7, KnowAppend
  <2>8. \A p \in Pids : Listens(p)' => Listens(p)
    BY <2>1 DEF Listens, Alive
  <2> QED BY <1>1, <2>1, <2>6, <2>7, <2>8, ViewKept
<1>4. CASE SignalByKill
  <2>1. InSignal /\ UNCHANGED <<last, nextPid, inbox, view>>
    BY <1>4 DEF SignalByKill
  <2>2. proc' = MarkExiting
           \/ proc' = [proc EXCEPT ![loop.i].exited = TRUE, ![loop.i].exiting = FALSE]
    BY <1>4 DEF SignalByKill
  <2>3. \A r \in Slots : /\ proc'[r].pid = proc[r].pid
                         /\ proc'[r].channel = proc[r].channel
                         /\ proc'[r].detached = proc[r].detached
                         /\ proc'[r].respawn = proc[r].respawn
    BY <1>1, <2>1, <2>2 DEF Entries
  <2>4. \A p \in Pids : Listens(p)' => Listens(p)
    <3>1. \/ child' = child
          \/ child' = [child EXCEPT ![Entry.pid].state = "zombie"]
          \/ child' = [child EXCEPT ![Entry.pid].flags = @ \cup {loop.what}]
      BY <1>4 DEF SignalByKill
    <3>2. child \in [Pids -> Children]
      BY DEF TypeInv, ChildTypes
    <3>3. \A p \in Pids : /\ child'[p].state \in {child[p].state, "zombie"}
                          /\ child'[p].kind = child[p].kind
      BY <3>1, <3>2 DEF Children
    <3> QED BY <3>3 DEF Listens, Alive
  <2> QED BY <2>1, <2>3, <2>4, ViewKept DEF TableView, UnusedEmpty
<1>5. CASE Signalled
  BY <1>5, ViewSame DEF Signalled, OnlyMaster
<1> QED BY <1>2, <1>3, <1>4, <1>5

LEMMA ViewDeliver ==
    ASSUME TypeInv, TypeInv', TableInv, TableView, Deliver
    PROVE  TableView'
<1>1. UNCHANGED <<last, nextPid>>
  BY DEF Deliver
<1>2. CASE "reap" \notin pending
  BY <1>1, <1>2, ViewSame DEF Deliver, tableVars, childVars
<1>3. CASE "reap" \in pending
  <2>1. /\ child' = [p \in Pids |-> IF p \in Ended
                        THEN [child[p] EXCEPT !.state = "reaped"] ELSE child[p]]
        /\ inbox' = [p \in Pids |-> IF p \in Ended THEN <<>> ELSE inbox[p]]
        /\ view' = [p \in Pids |-> IF p \in Ended THEN NoView ELSE view[p]]
        /\ proc' = [s \in Slots |-> IF s \in Used /\ proc[s].pid \in Ended
                                    THEN Waited(proc[s]) ELSE proc[s]]
    BY <1>3 DEF Deliver
  <2>2. \A s \in Slots : /\ proc'[s].pid = proc[s].pid
                         /\ proc'[s].channel = proc[s].channel
                         /\ proc'[s].detached = proc[s].detached
                         /\ proc'[s].respawn => proc[s].respawn
    <3>1. ASSUME NEW s \in Slots
          PROVE  LET e == Waited(proc[s])
                 IN  /\ e.pid = proc[s].pid /\ e.channel = proc[s].channel
                     /\ e.detached = proc[s].detached
                     /\ e.respawn => proc[s].respawn
      <4>1. proc[s] \in Entries
        BY DEF TypeInv, TableTypes
      <4> QED BY <4>1 DEF Waited, Entries
    <3>2. ASSUME NEW s \in Slots PROVE proc'[s] = proc[s] \/ proc'[s] = Waited(proc[s])
      BY <2>1
    <3> QED BY <3>1, <3>2
  <2>3. ASSUME NEW p \in Pids, Listens(p)'
        PROVE  p \notin Ended /\ child'[p] = child[p]
    <3>1. CASE p \in Ended
      <4>1. child'[p] = [child[p] EXCEPT !.state = "reaped"] /\ child[p] \in Children
        BY <2>1, <3>1 DEF TypeInv, ChildTypes
      <4>2. child'[p].state = "reaped"
        BY <4>1 DEF Children
      <4> QED BY <2>3, <4>2 DEF Listens, Alive
    <3> QED BY <2>1, <3>1
  <2>4. \A p \in Pids : Listens(p)' => Listens(p)
    BY <2>3 DEF Listens, Alive
  <2>5. \A p \in Pids : p >= nextPid => inbox'[p] = <<>>
    BY <2>1 DEF TableView, UnusedEmpty
  <2>6. \A p \in Pids : Listens(p)' => inbox'[p] = inbox[p] /\ view'[p] = view[p]
    BY <2>1, <2>3
  <2> QED BY <1>1, <2>2, <2>4, <2>5, <2>6, ViewKept
<1> QED BY <1>2, <1>3

(* The rest of the round.                                                   *)
LEMMA ViewRound ==
    ASSUME TypeInv, TypeInv', TableInv, TableView, NothingLost, NothingLost',
           \/ Top \/ Exit \/ Terminate \/ Quit \/ Continue
           \/ WorkersAgain \/ Reconfigure \/ Reconfigured \/ NoReconfigure \/ Restart
           \/ Reopen \/ ChangeBinary \/ ChangeBinaryFails \/ ChangeBinaryForkFails
           \/ NoChangeBinary \/ Noaccept
    PROVE  TableView'
<1>1. CASE \/ Top \/ Exit \/ Terminate \/ Quit \/ Continue
           \/ WorkersAgain \/ Reconfigure \/ Reconfigured \/ NoReconfigure \/ Restart
           \/ Reopen \/ ChangeBinaryFails \/ NoChangeBinary \/ Noaccept
  <2>1. UNCHANGED <<tableVars, childVars, nextPid>>
    BY <1>1 DEF Top, Exit, Terminate, Quit, Continue, WorkersAgain, Reconfigure,
                Reconfigured, NoReconfigure, Restart, Reopen, ChangeBinaryFails,
                NoChangeBinary, Noaccept, OnlyMaster, tableVars, childVars
  <2> QED BY <2>1, ViewSame
<1>2. CASE ChangeBinary
  <2> DEFINE e == [FreeSlot EXCEPT !.kind = "binary", !.pid = nextPid, !.detached = TRUE]
             s == NewSlot
  <2>1. /\ s \in Slots /\ nextPid \in Pids /\ nextPid' = nextPid + 1
        /\ proc' = [proc EXCEPT ![s] = e] /\ UNCHANGED <<inbox, view>>
        /\ last' = IF s = last THEN last + 1 ELSE last
        /\ child' = [child EXCEPT ![nextPid] =
                        [state |-> "run", kind |-> "binary", code |-> 0, flags |-> {}]]
    BY <1>2 DEF ChangeBinary
  <2>2. /\ last \in Nat /\ proc \in [Slots -> Entries] /\ nextPid \in Nat
        /\ child \in [Pids -> Children]
    BY ConstantTypes DEF TypeInv, TableTypes, ChildTypes
  <2>3. s \in 0 .. last /\ (s = last \/ (s \in Used /\ proc[s].pid = None))
    BY <2>2, NewSlotFree
  <2>4. /\ e.pid = nextPid /\ e.channel = None /\ e.detached /\ ~e.respawn
    BY DEF FreeSlot
  <2>5. proc'[s] = e /\ \A r \in Slots \ {s} : proc'[r] = proc[r]
    BY <2>1, <2>2
  <2> HIDE DEF e, s
  <2>6. InUse \subseteq Slots /\ InUse' \subseteq Slots
    BY UsedSlots, <2>1, <2>2, <2>3, ConstantTypes DEF InUse, Used, Slots
  <2>7. s \notin InUse /\ \A r \in Slots \ {s} : r \in InUse' <=> r \in InUse
    BY <2>1, <2>2, <2>3, <2>5 DEF InUse, Used, Slots
  <2>8. \A r \in Slots : proc'[r].channel = proc[r].channel
    BY <2>4, <2>5, <2>7 DEF TableView, OwnChannels
  <2>9. OwnChannels'
    BY <2>4, <2>5, <2>7 DEF TableView, OwnChannels
  <2>10. DetachedStay'
    BY <2>4, <2>5, <2>6, <2>7 DEF TableView, DetachedStay
  <2>11. UnusedEmpty'
    BY <2>1, <2>2, ConstantTypes DEF TableView, UnusedEmpty, Pids
  <2>12. ASSUME NEW p \in Pids, NEW r \in Slots, Listens(p)', Elsewhere(p, r)'
         PROVE  WillKnow(inbox'[p], view'[p][r], r, proc'[r].channel)
    <3>1. p # nextPid
      BY <2>1, <2>2, <2>12 DEF Listens
    <3>2. Listens(p)
      BY <2>1, <2>2, <2>12, <3>1 DEF Listens, Alive
    <3>3. Elsewhere(p, r)
      BY <2>5, <2>7, <2>12 DEF Elsewhere
    <3> QED BY <2>1, <2>8, <3>2, <3>3 DEF TableView, WillAgree
  <2>13. WillAgree'
    BY <2>12 DEF WillAgree
  <2> QED BY <2>9, <2>10, <2>11, <2>13 DEF TableView
<1>3. CASE ChangeBinaryForkFails
  BY <1>3 DEF ChangeBinaryForkFails, Spend, NothingLost, TypeInv, OuterTypes
<1> QED BY <1>1, <1>2, <1>3

(* A child reads a message, or does something else.                         *)
LEMMA ViewChild ==
    ASSUME TypeInv, TypeInv', TableInv, TableView, NEW p \in Pids, ChildStep(p) \/ Crash(p)
    PROVE  TableView'
<1>1. UNCHANGED <<proc, last, nextPid>>
  BY DEF ChildStep, Crash, Initialised, ReadChannel, ReopenFiles, GracefulExit,
         ExitProcess, End, OnlyChild, tableVars
<1>2. child \in [Pids -> Children] /\ inbox \in [Pids -> Seq(Messages)]
      /\ view \in [Pids -> Views]
  BY DEF TypeInv, ChildTypes, InboxTypes
<1>3. CASE ReadChannel(p)
  <2> DEFINE m == Head(inbox[p])
  <2>1. /\ inbox[p] # <<>> /\ inbox' = [inbox EXCEPT ![p] = Tail(@)]
        /\ IF m.command \in Telling
           THEN view' = [view EXCEPT ![p][m.slot] = m.channel] /\ child' = child
           ELSE /\ child' = [child EXCEPT ![p].flags = @ \cup {m.command}]
                /\ view' = view
    BY <1>3 DEF ReadChannel, Telling
  <2>2. m \in Messages /\ inbox[p] \in Seq(Messages)
    BY <1>2, <2>1
  <2> HIDE DEF m
  <2>3. \A q \in Pids : Listens(q)' => Listens(q)
    <3>1. \A q \in Pids : /\ child'[q].state = child[q].state
                          /\ child'[q].kind = child[q].kind
      <4>1. child' = child \/ child' = [child EXCEPT ![p].flags = @ \cup {m.command}]
        <5>1. CASE m.command \in Telling
          BY <2>1, <5>1, Zenon
        <5>2. CASE m.command \notin Telling
          BY <2>1, <5>2, Zenon
        <5> QED BY <5>1, <5>2
      <4>2. \A q \in Pids \ {p} : child'[q] = child[q]
        BY <1>2, <4>1
      <4>3. child'[p].state = child[p].state /\ child'[p].kind = child[p].kind
        BY <1>2, <4>1 DEF Children
      <4> QED BY <4>2, <4>3
    <3> QED BY <3>1 DEF Listens, Alive
  <2>4. ASSUME NEW q \in Pids, q >= nextPid PROVE inbox'[q] = <<>>
    BY <1>2, <2>1, <2>4 DEF TableView, UnusedEmpty
  <2>5. ASSUME NEW q \in Pids, NEW s \in Slots,
               WillKnow(inbox[q], view[q][s], s, proc[s].channel)
        PROVE  WillKnow(inbox'[q], view'[q][s], s, proc[s].channel)
    <3>1. CASE q # p
      <4>1. inbox'[q] = inbox[q] /\ view'[q] = view[q]
        BY <1>2, <2>1, <3>1
      <4> QED BY <2>5, <4>1
    <3>2. CASE q = p
      <4>1. inbox'[p] = Tail(inbox[p])
        BY <1>2, <2>1
      <4>2. view'[p][s] = IF m.command \in Telling /\ m.slot = s
                          THEN m.channel ELSE view[p][s]
        <5>1. m.slot \in Slots /\ view[p] \in [Slots -> Pids \cup {None, Stale}]
          BY <1>2, <2>2 DEF Messages, Views
        <5>2. CASE m.command \in Telling
          <6>1. view'[p] = [view[p] EXCEPT ![m.slot] = m.channel]
            BY <1>2, <2>1, <5>2
          <6> QED BY <5>1, <5>2, <6>1
        <5>3. CASE m.command \notin Telling
          BY <2>1, <5>3
        <5> QED BY <5>2, <5>3
      <4>3. WillKnow(Tail(inbox[p]), IF m.command \in Telling /\ m.slot = s
                                     THEN m.channel ELSE view[p][s], s, proc[s].channel)
        BY <2>1, <2>2, <2>5, <3>2, KnowTail DEF m
      <4> QED BY <3>2, <4>1, <4>2, <4>3
    <3> QED BY <3>1, <3>2
  <2> QED BY <1>1, <2>3, <2>4, <2>5, ViewKept
<1>4. CASE ~ReadChannel(p)
  <2>1. inbox' = inbox /\ view' = view
    BY <1>4 DEF ChildStep, Crash, Initialised, ReopenFiles, GracefulExit, ExitProcess, End
  <2>2. \A q \in Pids : Listens(q)' => Listens(q)
    <3>1. \/ child[p].state = "init" /\ child' = [child EXCEPT ![p].state = "run"]
          \/ child' = [child EXCEPT ![p].flags = @ \ {"reopen"}]
          \/ child[p].state = "run"
               /\ child' = [child EXCEPT ![p].state = "exiting", ![p].flags = @ \ {"quit"}]
          \/ \E code \in {0, 1, 2} :
                child' = [child EXCEPT ![p].state = "zombie", ![p].code = code,
                                       ![p].flags = {}]
      BY <1>4 DEF ChildStep, Crash, Initialised, ReopenFiles, GracefulExit, ExitProcess,
                  End
    <3>2. \A q \in Pids \ {p} : child'[q] = child[q]
      BY <1>2, <3>1
    <3>3. child'[p].kind = child[p].kind
      BY <1>2, <3>1 DEF Children
    <3>4. child'[p].state \in {"run", "exiting"} =>
             child[p].state \in {"init", "run", "exiting"}
      BY <1>2, <3>1 DEF Children
    <3>5. child'[p].state = "init" => child[p].state = "init"
      BY <1>2, <3>1 DEF Children
    <3> QED BY <3>2, <3>3, <3>4, <3>5 DEF Listens, Alive
  <2> QED BY <1>1, <2>1, <2>2, ViewKept DEF TableView, UnusedEmpty
<1> QED BY <1>3, <1>4

(* The message of ngx_reap_children is that a channel was closed until it   *)
(* has respawned a child.                                                   *)
LEMMA ClosesNext ==
    ASSUME TypeInv, ClosesNothing, [Next]_vars
    PROVE  ClosesNothing'
<1>1. loop \in [i : Nat, what : Whats, then : Thens, channel : Pids \cup {None}]
  BY DEF TypeInv, LoopTypes
<1>2. CASE UNCHANGED <<at, loop>>
  BY <1>2 DEF ClosesNothing
<1>3. CASE NextTurn
  <2>1. at' = at /\ loop'.what = loop.what /\ loop'.channel = loop.channel
    BY <1>1, <1>3 DEF NextTurn
  <2> QED BY <2>1 DEF ClosesNothing
<1>4. CASE ReapRespawn
  <2>1. loop'.what = "open"
    BY <1>1, <1>4 DEF ReapRespawn
  <2> QED BY <2>1 DEF ClosesNothing
<1>5. CASE Deliver
  <2>1. \/ loop' = [NoLoop EXCEPT !.what = "close"]
        \/ at' = "check"
    BY <1>5 DEF Deliver, Goto
  <2>2. loop'.channel = None \/ at' = "check"
    BY <2>1 DEF NoLoop
  <2> QED BY <2>2 DEF ClosesNothing
<1>6. CASE at' # "reap"
  BY <1>6 DEF ClosesNothing
<1>7. CASE MasterStep
  <2>1. CASE Started \/ Signalled
    <3>1. loop.then \in Thens
      BY <1>1
    <3> QED BY <1>6, <2>1, <3>1 DEF Started, Signalled, Goto, Thens
  <2>2. CASE \/ Reaped \/ Top \/ Exit \/ Terminate \/ Quit \/ Continue \/ WorkersAgain
             \/ Reconfigure \/ Reconfigured \/ NoReconfigure \/ Restart \/ Reopen
             \/ ChangeBinary \/ ChangeBinaryFails \/ ChangeBinaryForkFails
             \/ NoChangeBinary \/ Noaccept
    BY <1>6, <2>2 DEF Reaped, Top, Exit, Terminate, Quit, Continue, WorkersAgain,
           Reconfigure, Reconfigured, NoReconfigure, Restart, Reopen, ChangeBinary,
           ChangeBinaryFails, ChangeBinaryForkFails, NoChangeBinary, Noaccept, Goto, Loop
  <2>3. CASE \/ StartProcess \/ StartProcessFails \/ ReapNothing \/ ReapRespawnFails
             \/ ReapRemove \/ SignalSkip \/ SignalByChannel \/ SignalByKill
    BY <1>3, <2>3 DEF StartProcess, StartProcessFails, ReapNothing, ReapRespawnFails,
           ReapRemove, SignalSkip, SignalByChannel, SignalByKill
  <2> QED BY <1>4, <1>5, <1>7, <2>1, <2>2, <2>3 DEF MasterStep
<1>8. ASSUME NEW p \in Pids, ChildStep(p) \/ Crash(p)
      PROVE  UNCHANGED <<at, loop>>
  BY <1>8 DEF ChildStep, Crash, Initialised, ReadChannel, ReopenFiles, GracefulExit,
              ExitProcess, End, OnlyChild
<1>9. ASSUME NEW s \in Signals, Send(s) PROVE UNCHANGED <<at, loop>>
  BY <1>9 DEF Send
<1>10. Alarm => UNCHANGED <<at, loop>>
  BY DEF Alarm
<1> QED BY <1>2, <1>7, <1>8, <1>9, <1>10 DEF Next, vars

LEMMA ViewNext ==
    TypeInv /\ TypeInv' /\ TableInv /\ ViewInv /\ NothingLost /\ NothingLost' /\ [Next]_vars
        => ViewInv'
<1> SUFFICES ASSUME TypeInv, TypeInv', TableInv, ViewInv, NothingLost, NothingLost',
                    [Next]_vars
             PROVE  TableView'
  BY ClosesNext DEF ViewInv
<1>1. TableView /\ ClosesNothing
  BY DEF ViewInv
<1>2. CASE MasterStep
  BY <1>1, <1>2, ViewStart, ViewReap, ViewSignal, ViewDeliver, ViewRound DEF MasterStep
<1>3. ASSUME NEW p \in Pids, ChildStep(p) \/ Crash(p) PROVE TableView'
  BY <1>1, <1>3, ViewChild
<1>4. ASSUME NEW s \in Signals, Send(s) PROVE TableView'
  BY <1>1, <1>4, ViewSame DEF Send, tableVars, childVars
<1>5. CASE Alarm
  BY <1>1, <1>5, ViewSame DEF Alarm, tableVars, childVars
<1>6. CASE UNCHANGED vars
  BY <1>1, <1>6, ViewSame DEF vars, tableVars, childVars
<1> QED BY <1>2, <1>3, <1>4, <1>5, <1>6 DEF Next

LEMMA ViewInit == Init => ViewInv
<1> SUFFICES ASSUME Init PROVE ViewInv
  OBVIOUS
<1>1. /\ at = "start" /\ last = 0 /\ nextPid = 1
      /\ proc = [s \in Slots |-> FreeSlot] /\ child = [p \in Pids |-> NoChild]
      /\ inbox = [p \in Pids |-> <<>>]
  BY Zenon DEF Init
<1>2. InUse = {}
  BY <1>1 DEF InUse, Used
<1>3. OwnChannels
  BY <1>1, <1>2 DEF OwnChannels, FreeSlot
<1>4. WillAgree
  BY <1>1 DEF WillAgree, Listens, Alive, NoChild
<1> QED BY <1>1, <1>2, <1>3, <1>4
        DEF ViewInv, TableView, DetachedStay, UnusedEmpty, ClosesNothing

(* A child that has read its messages knows the channels of the others, and *)
(* of none that has gone, by the messages of ngx_pass_open_channel and      *)
(* ngx_reap_children, as long as nothing was lost: `master_close` shows what   *)
(* ngx_process_cycle.c:596 leaves otherwise.                             *)
THEOREM ViewsCorrect == Spec /\ []NothingLost => []ViewsAgree
<1>1. TypeInv /\ TableInv /\ ViewInv => ViewsAgree
  <2> SUFFICES ASSUME TypeInv, TableInv, ViewInv, NEW p \in Pids, NEW s \in Slots,
                      child[p].state \in {"run", "exiting"}, child[p].kind # "binary",
                      inbox[p] = <<>>, proc[s].pid # p
               PROVE  view[p][s] = proc[s].channel
    BY DEF ViewsAgree
  <2>1. Listens(p) /\ Elsewhere(p, s)
    BY DEF Listens, Alive, Elsewhere
  <2>2. WillKnow(inbox[p], view[p][s], s, proc[s].channel)
    BY <2>1 DEF ViewInv, TableView, WillAgree
  <2>3. About(inbox[p], s) = {}
    BY DEF About
  <2> QED BY <2>2, <2>3 DEF WillKnow
<1>2. TypeInv /\ TableInv /\ ViewInv /\ NothingLost /\ NothingLost' /\ [Next]_vars
         => (TypeInv /\ TableInv /\ ViewInv)'
  BY TypeNext, TableNext, ViewNext
<1> QED BY TypeInit, TableInit, ViewInit, <1>1, <1>2, PTL DEF Spec

-----------------------------------------------------------------------------
(* The number of workers.  Members serve, or will when they were respawned; *)
(* while new workers are started for a new configuration (Renewing) only    *)
(* those count, and while the others are told to leave (Quitting) those     *)
(* that were passed over, too.                                              *)
Members == {s \in InUse : /\ proc[s].kind = "worker" /\ ~proc[s].exiting
                          /\ proc[s].exited => proc[s].respawn}
StartedKinds(i) == {k \in DOMAIN Kinds : k < i /\ Kinds[k] = "worker"}
Renewing == \/ at = "start" /\ loop.what = "just_respawn"
            \/ at = "reconfigured"
Quitting == at = "signal" /\ loop.then = "restart"
Counted == {s \in Members : /\ Renewing => proc[s].just_spawn
                            /\ Quitting => proc[s].just_spawn \/ s < loop.i}
Limit == IF at = "start" THEN Cardinality(StartedKinds(loop.i)) ELSE WorkerProcesses
CountInv == Cardinality(Counted) <= Limit

(* just_spawn tells the new workers from the old ones until these are told. *)
JustInv ==
    /\ at = "start" => (loop.what = "just_respawn" <=> loop.then = "reconfigured")
    /\ Quitting => loop.what = "quit"
    /\ \A s \in InUse : proc[s].just_spawn =>
          proc[s].kind # "binary" /\ (Renewing \/ (Quitting /\ s >= loop.i))

(* Without ngx_reconfigure: workers are started again only after those that *)
(* were told to stop accepting have been told to leave.                     *)
Late == \/ at \in {"reopen", "change_binary", "noaccept", "start"}
        \/ at = "signal" /\ loop.then = "change_binary"
PauseInv ==
    /\ "restart" \in flags => ~noaccepting /\ Members = {}
    /\ noaccepting => \A s \in Members : /\ at = "signal" /\ loop.what = "quit"
                                         /\ loop.then = "top" /\ s >= loop.i
    /\ Late => "restart" \notin flags
    /\ at = "start" => ~noaccepting

SignalsInv ==
    /\ "restart" \notin pending
    /\ "change_binary" \notin Signals =>
          "restart" \notin flags /\ new_binary = 0 /\ "change_binary" \notin flags \cup pending
    /\ "reconfigure" \notin Signals => "reconfigure" \notin flags \cup pending

NoUpgradeReload == ~({"reconfigure", "change_binary"} \subseteq Signals)
WorkersInv ==
    budget.faults = MaxFaults =>
        JustInv /\ CountInv /\ ("reconfigure" \notin Signals => PauseInv)

(* Signals come from the administrator, the children and the timer.         *)
LEMMA SignalsNext ==
    ASSUME TypeInv, TableInv, SignalsInv, [Next]_vars
    PROVE  SignalsInv'
<1>1. "restart" \notin Signals
  BY MasterAssumption
<1>2. CASE UNCHANGED <<flags, new_binary, pending>>
  BY <1>2 DEF SignalsInv
<1>3. CASE UNCHANGED new_binary /\ flags' \subseteq flags \cup {"reap"}
           /\ pending' \subseteq pending \cup {"reap", "sigalrm"} \cup Signals
  BY <1>1, <1>3 DEF SignalsInv
<1>4. CASE Deliver
  <2>1. flags' \subseteq flags \cup pending /\ pending' = {} /\ UNCHANGED new_binary
    BY <1>4 DEF Deliver
  <2> QED BY <2>1 DEF SignalsInv
<1>5. CASE ReapRemove
  <2>1. UNCHANGED pending /\ InTable /\ Gone
    BY <1>5 DEF ReapRemove
  <2>2. loop.i \in InUse
    BY <2>1, EntryTypes DEF Gone, Entry, InUse
  <2>3. Entry.pid # 0
    BY <2>2 DEF TableInv, KnownPids, Entry
  <2>4. CASE Entry.pid = new_binary
    <3>1. new_binary' = 0 /\ flags' \subseteq flags \cup {"restart"} /\ new_binary # 0
      BY <1>5, <2>3, <2>4 DEF ReapRemove, AfterBinary
    <3> QED BY <2>1, <3>1 DEF SignalsInv
  <2>5. CASE Entry.pid # new_binary
    BY <1>5, <2>1, <2>5 DEF ReapRemove, SignalsInv
  <2> QED BY <2>4, <2>5
<1>6. CASE ChangeBinary \/ ChangeBinaryFails \/ ChangeBinaryForkFails
  <2>1. /\ "change_binary" \in flags /\ UNCHANGED pending
        /\ flags' = flags \ {"change_binary"}
    BY <1>6 DEF ChangeBinary, ChangeBinaryFails, ChangeBinaryForkFails, OnlyMaster
  <2> QED BY <2>1 DEF SignalsInv
<1>7. CASE \/ StartProcess \/ StartProcessFails \/ Started
           \/ ReapNothing \/ ReapRespawn \/ ReapRespawnFails \/ Reaped
           \/ SignalSkip \/ SignalByChannel \/ Signalled
           \/ Exit \/ Terminate \/ Quit \/ Continue \/ NoReconfigure
           \/ Reconfigured \/ NoChangeBinary
  BY <1>2, <1>7 DEF StartProcess, StartProcessFails, Started, ReapNothing, ReapRespawn,
     ReapRespawnFails, Reaped, SignalSkip, SignalByChannel, Signalled, Exit, Terminate,
     Quit, Continue, NoReconfigure, Reconfigured, NoChangeBinary, OnlyMaster, masterVars
<1>8. CASE SignalByKill
  BY <1>3, <1>8 DEF SignalByKill
<1>9. CASE Top \/ WorkersAgain \/ Reconfigure \/ Restart \/ Reopen \/ Noaccept
  BY <1>3, <1>9 DEF Top, WorkersAgain, Reconfigure, Restart, Reopen, Noaccept, OnlyMaster
<1>10. ASSUME NEW p \in Pids, ChildStep(p) \/ Crash(p) PROVE SignalsInv'
  <2>1. UNCHANGED <<flags, new_binary>> /\ pending' \subseteq pending \cup {"reap"}
    BY <1>10 DEF ChildStep, Crash, Initialised, ReadChannel, ReopenFiles, GracefulExit,
                ExitProcess, End, OnlyChild, masterVars
  <2> QED BY <1>3, <2>1
<1>11. ASSUME NEW s \in Signals, Send(s) PROVE SignalsInv'
  BY <1>3, <1>11 DEF Send, masterVars
<1>12. CASE Alarm
  BY <1>3, <1>12 DEF Alarm, masterVars
<1>13. CASE UNCHANGED vars
  BY <1>2, <1>13 DEF vars, masterVars
<1> QED BY <1>4, <1>5, <1>6, <1>7, <1>8, <1>9, <1>10, <1>11, <1>12, <1>13
        DEF Next, MasterStep

(* A child that goes leaves its slot to nobody.                             *)
LEMMA RemovedInUse ==
    ASSUME TypeInv, TypeInv', ReapRemove
    PROVE  /\ loop.i \in InUse /\ InUse' = InUse \ {loop.i}
           /\ \A r \in Slots \ {loop.i} : proc'[r] = proc[r]
<1>1. InTable /\ Gone /\ last \in Nat
  BY ConstantTypes DEF ReapRemove, TypeInv, TableTypes
<1>2. /\ loop.i \in Slots /\ loop.i \in InUse /\ loop.i < last
      /\ proc \in [Slots -> Entries] /\ ClosedTable \in [Slots -> Entries]
  BY <1>1, EntryTypes, ClosedTypes DEF Gone, Entry, InUse, TypeInv, TableTypes
<1>3. \A r \in Slots \ {loop.i} : ClosedTable[r] = proc[r]
  BY <1>2 DEF ClosedTable
<1>4. \A r \in Slots \ {loop.i} : proc'[r] = proc[r]
  BY <1>2, <1>3 DEF ReapRemove
<1>5. \A r \in Used \ {loop.i} : proc'[r] = proc[r]
  BY <1>4, UsedSlots
<1>6. CASE Shrinks
  <2>1. last' = last - 1 /\ loop.i = last - 1 /\ Used' = Used \ {loop.i}
    BY <1>1, <1>6 DEF ReapRemove, Shrinks, Used
  <2> QED BY <1>2, <1>4, <1>5, <2>1 DEF InUse
<1>7. CASE ~Shrinks
  <2>1. last' = last /\ proc' = [ClosedTable EXCEPT ![loop.i].pid = None]
    BY <1>7 DEF ReapRemove
  <2>2. proc'[loop.i].pid = None
    BY <1>2, <2>1 DEF Entries
  <2> QED BY <1>2, <1>4, <1>5, <2>1, <2>2 DEF InUse, Used
<1> QED BY <1>6, <1>7

(* But for the start of a process, no member is added and no child is just  *)
(* spawned that was not before.                                             *)
Settles == /\ Members' \subseteq Members
           /\ \A s \in InUse' : proc'[s].just_spawn =>
                 s \in InUse /\ proc[s].just_spawn /\ proc'[s].kind = proc[s].kind

LEMMA SettlesKept ==
    ASSUME TypeInv,
           \A s \in InUse' : s \in InUse /\ (proc'[s].just_spawn => proc[s].just_spawn),
           \A s \in InUse' : /\ proc'[s].kind = proc[s].kind
                             /\ proc[s].exiting => proc'[s].exiting
                             /\ proc[s].exited => proc'[s].exited
                             /\ proc'[s].respawn => proc[s].respawn
    PROVE  Settles
BY DEF Settles, Members

LEMMA SettlesMaster ==
    ASSUME TypeInv, TypeInv', TableInv, FaultlessInv, budget.faults = MaxFaults,
           budget'.faults = MaxFaults, MasterStep, ~StartProcess
    PROVE  Settles
<1> proc \in [Slots -> Entries] /\ Used \subseteq Slots /\ last \in Nat
  BY UsedSlots, ConstantTypes DEF TypeInv, TableTypes
<1>1. CASE UNCHANGED <<proc, last>>
  BY <1>1, SettlesKept DEF InUse, Used
<1>2. ASSUME Spend("faults") PROVE FALSE
  BY <1>2 DEF Spend, TypeInv, OuterTypes
<1>3. CASE \/ StartProcessFails \/ ReapRespawnFails
           \/ ChangeBinaryFails \/ ChangeBinaryForkFails
  BY <1>1, <1>2, <1>3 DEF StartProcessFails, ReapRespawnFails, ChangeBinaryFails,
                          ChangeBinaryForkFails, tableVars, OnlyMaster
<1>4. CASE ReapRespawn
  <2>1. InTable /\ Gone /\ Respawns /\ Spawn(ClosedTable, loop.i, ClosedTable[loop.i], ClosedInbox)
    BY <1>4 DEF ReapRespawn
  <2>2. /\ loop.i \in Slots /\ loop.i \in InUse /\ loop.i < last
        /\ ClosedTable \in [Slots -> Entries]
    BY <2>1, EntryTypes, ClosedTypes DEF Gone, Entry, InUse
  <2>3. /\ \A r \in Slots \ {loop.i} : ClosedTable[r] = proc[r]
        /\ LET e == ClosedTable[loop.i]
           IN  /\ e.kind = proc[loop.i].kind /\ e.exiting = proc[loop.i].exiting
               /\ e.respawn = proc[loop.i].respawn /\ e.just_spawn = proc[loop.i].just_spawn
    BY <2>2 DEF ClosedTable, Entries
  <2> DEFINE e == ClosedTable[loop.i]
  <2>4. /\ proc' = [ClosedTable EXCEPT ![loop.i] = [e EXCEPT !.pid = nextPid,
                                          !.exited = FALSE, !.channel = nextPid]]
        /\ last' = last
    BY <2>1, <2>2 DEF Spawn
  <2>5. e \in Entries
    BY <2>2
  <2>6. \A r \in Slots \ {loop.i} : proc'[r] = proc[r]
    <3> HIDE DEF e
    <3> QED BY <2>2, <2>3, <2>4
  <2>7. proc'[loop.i] = [e EXCEPT !.pid = nextPid, !.exited = FALSE, !.channel = nextPid]
    <3> HIDE DEF e
    <3> QED BY <2>2, <2>4
  <2>8. /\ proc'[loop.i].kind = e.kind /\ proc'[loop.i].exiting = e.exiting
        /\ proc'[loop.i].respawn = e.respawn /\ proc'[loop.i].just_spawn = e.just_spawn
    <3> HIDE DEF e
    <3> QED BY <2>5, <2>7, Zenon DEF Entries
  <2>9. \A r \in InUse' : r \in Slots /\ r \in InUse
    BY <2>2, <2>4, <2>6 DEF InUse, Used
  <2>10. proc[loop.i].respawn /\ ~proc[loop.i].exiting
    BY <2>1 DEF Respawns, Entry
  <2> HIDE DEF e
  <2> QED BY <2>2, <2>3, <2>6, <2>8, <2>9, <2>10 DEF Settles, Members, e
<1>5. CASE ReapRemove
  <2>1. /\ InUse' = InUse \ {loop.i} /\ \A r \in Slots \ {loop.i} : proc'[r] = proc[r]
    BY <1>5, RemovedInUse
  <2>2. InUse \subseteq Slots
    BY DEF InUse
  <2> QED BY <2>1, <2>2, SettlesKept
<1>6. CASE SignalSkip \/ SignalByChannel \/ SignalByKill
  <2>1. InSignal /\ last' = last /\ at = "signal"
    BY <1>6 DEF SignalSkip, SignalByChannel, SignalByKill, InSignal
  <2>2. loop.i \in Slots
    BY <2>1, EntryTypes
  <2>3. \/ proc' = proc
        \/ proc' = [proc EXCEPT ![loop.i].just_spawn = FALSE]
        \/ proc' = MarkExiting
        \/ child[Entry.pid].state = "reaped" /\ ~Skipped
    BY <1>6 DEF SignalSkip, SignalByChannel, SignalByKill
  <2>4. ASSUME child[Entry.pid].state = "reaped", ~Skipped PROVE FALSE
    <3>1. proc[loop.i].exited /\ loop.i \in InUse
      BY <2>1, <2>4, EntryTypes DEF TableInv, ExitedIsReaped, InUse, Entry, Skipped
    <3> QED BY <2>1, <3>1 DEF FaultlessInv
  <2>5. \A s \in Slots : /\ proc'[s].pid = proc[s].pid /\ proc'[s].kind = proc[s].kind
                         /\ proc[s].exiting => proc'[s].exiting
                         /\ proc'[s].exited = proc[s].exited
                         /\ proc'[s].respawn = proc[s].respawn
                         /\ proc'[s].just_spawn => proc[s].just_spawn
    <3>1. CASE proc' = proc
      BY <3>1
    <3>2. CASE proc' = [proc EXCEPT ![loop.i].just_spawn = FALSE]
      BY <2>2, <3>2 DEF Entries
    <3>3. CASE proc' = MarkExiting
      BY <2>2, <3>3 DEF MarkExiting, Entries
    <3> QED BY <2>3, <2>4, <3>1, <3>2, <3>3
  <2>6. InUse' = InUse
    BY <2>1, <2>5 DEF InUse, Used
  <2> QED BY <2>5, <2>6, SettlesKept DEF InUse
<1>7. CASE Deliver
  <2>1. last' = last
    BY <1>7 DEF Deliver
  <2>2. CASE "reap" \notin pending
    BY <1>1, <1>7, <2>2 DEF Deliver
  <2>3. CASE "reap" \in pending
    <3>1. proc' = [s \in Slots |-> IF s \in Used /\ proc[s].pid \in Ended
                                   THEN Waited(proc[s]) ELSE proc[s]]
      BY <1>7, <2>3 DEF Deliver
    <3>2. ASSUME NEW s \in Slots
          PROVE  LET e == Waited(proc[s])
                 IN  /\ e.pid = proc[s].pid /\ e.kind = proc[s].kind
                     /\ e.exiting = proc[s].exiting /\ e.just_spawn = proc[s].just_spawn
                     /\ e.exited /\ e.respawn => proc[s].respawn
                     /\ proc[s].exited => e.exited
      <4>1. proc[s] \in Entries
        OBVIOUS
      <4> QED BY <4>1 DEF Waited, Entries
    <3>3. ASSUME NEW s \in Slots PROVE proc'[s] = proc[s] \/ proc'[s] = Waited(proc[s])
      BY <3>1
    <3>4. \A s \in Slots : /\ proc'[s].pid = proc[s].pid /\ proc'[s].kind = proc[s].kind
                           /\ proc'[s].exiting = proc[s].exiting
                           /\ proc'[s].just_spawn = proc[s].just_spawn
                           /\ proc[s].exited => proc'[s].exited
                           /\ proc'[s].exited /\ proc'[s].respawn => proc[s].respawn
      BY <3>2, <3>3
    <3>5. InUse' = InUse /\ InUse \subseteq Slots
      BY <2>1, <3>4 DEF InUse, Used
    <3> QED BY <3>4, <3>5 DEF Settles, Members
  <2> QED BY <2>2, <2>3
<1>8. CASE ChangeBinary
  <2> DEFINE e == [FreeSlot EXCEPT !.kind = "binary", !.pid = nextPid, !.detached = TRUE]
             s == NewSlot
  <2>1. /\ s \in Slots /\ s \in 0 .. last
        /\ last' = IF s = last THEN last + 1 ELSE last
        /\ proc' = [proc EXCEPT ![s] = e]
    BY <1>8, NewSlotFree DEF ChangeBinary
  <2>2. e.just_spawn = FALSE /\ e.kind = "binary"
    BY DEF FreeSlot
  <2> HIDE DEF e, s
  <2>3. proc'[s] = e /\ \A r \in Slots \ {s} : proc'[r] = proc[r]
    BY <2>1
  <2>4. \A r \in InUse' : r \in Slots /\ (r # s => r \in InUse)
    BY <2>1, <2>3, UsedSlots DEF InUse, Used
  <2> QED BY <2>2, <2>3, <2>4 DEF Settles, Members
<1>9. CASE \/ Started \/ ReapNothing \/ Reaped \/ Signalled
           \/ Top \/ Exit \/ Terminate \/ Quit \/ Continue
           \/ WorkersAgain \/ Reconfigure \/ Reconfigured \/ NoReconfigure \/ Restart
           \/ Reopen \/ NoChangeBinary \/ Noaccept
  BY <1>1, <1>9 DEF Started, ReapNothing, Reaped, Signalled, Top, Exit, Terminate, Quit,
     Continue, WorkersAgain, Reconfigure, Reconfigured, NoReconfigure, Restart, Reopen,
     NoChangeBinary, Noaccept, OnlyMaster, tableVars
<1> QED BY <1>3, <1>4, <1>5, <1>6, <1>7, <1>8, <1>9 DEF MasterStep

LEMMA KindsFacts ==
    /\ Len(Kinds) \in Nat /\ WorkerProcesses \in Nat /\ StartedKinds(1) = {}
    /\ \A i \in Nat : /\ IsFiniteSet(StartedKinds(i)) /\ Cardinality(StartedKinds(i)) \in Nat
                      /\ i > Len(Kinds) => Cardinality(StartedKinds(i)) = WorkerProcesses
                      /\ Cardinality(StartedKinds(i)) <= Cardinality(StartedKinds(i + 1))
                      /\ i \in DOMAIN Kinds /\ Kinds[i] = "worker" =>
                            Cardinality(StartedKinds(i + 1)) = Cardinality(StartedKinds(i)) + 1
<1> DEFINE all == {i \in DOMAIN Kinds : Kinds[i] = "worker"}
<1>1. Len(Kinds) \in Nat /\ DOMAIN Kinds = 1 .. Len(Kinds)
  BY MasterAssumption
<1>2. IsFiniteSet(all)
  <2>1. IsFiniteSet(1 .. Len(Kinds))
    BY <1>1, FS_Interval
  <2>2. all \subseteq 1 .. Len(Kinds)
    BY <1>1
  <2> HIDE DEF all
  <2> QED BY <2>1, <2>2, FS_Subset
<1>3. WorkerProcesses = Cardinality(all)
  BY DEF WorkerProcesses
<1>4. \A i \in Nat : StartedKinds(i) \subseteq all
  BY DEF StartedKinds
<1>5. \A i \in Nat : IsFiniteSet(StartedKinds(i)) /\ Cardinality(StartedKinds(i)) \in Nat
  <2> HIDE DEF all
  <2> QED BY <1>2, <1>4, FS_Subset, FS_CardinalityType
<1>6. StartedKinds(1) = {}
  BY <1>1 DEF StartedKinds
<1>7. ASSUME NEW i \in Nat, i > Len(Kinds) PROVE Cardinality(StartedKinds(i)) = WorkerProcesses
  <2>1. StartedKinds(i) = all
    BY <1>1, <1>7 DEF StartedKinds
  <2> QED BY <1>3, <2>1
<1>8. ASSUME NEW i \in Nat
      PROVE  Cardinality(StartedKinds(i)) <= Cardinality(StartedKinds(i + 1))
  <2>1. StartedKinds(i) \subseteq StartedKinds(i + 1) /\ i + 1 \in Nat
    BY <1>1 DEF StartedKinds
  <2> QED BY <1>5, <2>1, FS_Subset
<1>9. ASSUME NEW i \in Nat, i \in DOMAIN Kinds, Kinds[i] = "worker"
      PROVE  Cardinality(StartedKinds(i + 1)) = Cardinality(StartedKinds(i)) + 1
  <2>1. StartedKinds(i + 1) = StartedKinds(i) \cup {i} /\ i \notin StartedKinds(i)
    BY <1>1, <1>9 DEF StartedKinds
  <2> QED BY <1>5, <2>1, FS_AddElement
<1>10. WorkerProcesses \in Nat
  <2> HIDE DEF all
  <2> QED BY <1>2, <1>3, FS_CardinalityType
<1> QED BY <1>1, <1>5, <1>6, <1>7, <1>8, <1>9, <1>10

LEMMA CountedFinite ==
    TypeInv => IsFiniteSet(Counted) /\ Cardinality(Counted) \in Nat /\ Limit \in Nat
<1> SUFFICES ASSUME TypeInv
             PROVE  IsFiniteSet(Counted) /\ Cardinality(Counted) \in Nat /\ Limit \in Nat
  OBVIOUS
<1>1. IsFiniteSet(0 .. last - 1)
  BY ConstantTypes, FS_Interval DEF TypeInv, TableTypes
<1>2. Counted \subseteq 0 .. last - 1
  BY DEF Counted, Members, InUse, Used
<1>3. Limit \in Nat
  BY KindsFacts DEF Limit, TypeInv, LoopTypes
<1> QED BY <1>1, <1>2, <1>3, FS_Subset, FS_CardinalityType

LEMMA CountKept ==
    ASSUME TypeInv, TypeInv', CountInv, Counted' \subseteq Counted, Limit <= Limit'
    PROVE  CountInv'
<1>1. IsFiniteSet(Counted) /\ Cardinality(Counted) \in Nat /\ Limit \in Nat
  BY CountedFinite
<1>2. (IsFiniteSet(Counted) /\ Cardinality(Counted) \in Nat /\ Limit \in Nat)'
  BY CountedFinite, PTL
<1>3. Cardinality(Counted') <= Cardinality(Counted)
  BY <1>1, FS_Subset
<1>4. Cardinality(Counted) <= Limit
  BY DEF CountInv
<1>5. Cardinality(Counted') <= Limit'
  BY <1>1, <1>2, <1>3, <1>4
<1> QED BY <1>5 DEF CountInv

(* Where all members count.                                                 *)
Plain == /\ at \notin {"start", "reconfigured"}
         /\ at = "signal" => loop.then # "restart"

LEMMA PlainStep ==
    ASSUME TypeInv, TypeInv', JustInv, CountInv, Settles, Plain, Plain'
    PROVE  JustInv' /\ CountInv'
<1>1. Counted' = Members' /\ Counted = Members /\ Limit = WorkerProcesses
      /\ Limit' = WorkerProcesses
  BY DEF Plain, Counted, Renewing, Quitting, Limit
<1>2. CountInv'
  BY <1>1, CountKept, KindsFacts DEF Settles
<1>3. JustInv'
  BY DEF JustInv, Settles, Plain, Renewing, Quitting
<1> QED BY <1>2, <1>3

(* The rest of a round.                                                     *)
LEMMA CountRound ==
    ASSUME TypeInv, TypeInv', JustInv, CountInv, Settles, MasterStep,
           ~WorkersAgain, ~StartProcess, at \notin {"start", "signal"},
           Restart /\ "restart" \in flags => Members = {}
    PROVE  JustInv' /\ CountInv'
<1>1. CASE at = "reap"
  <2>1. at' \in {"reap", "check"}
    BY <1>1 DEF MasterStep, StartProcess, StartProcessFails, Started, ReapNothing,
       ReapRespawn, ReapRespawnFails, ReapRemove, Reaped, SignalSkip, SignalByChannel,
       SignalByKill, Signalled, InSignal, NextTurn, Goto, Top, Deliver, Exit, Terminate,
       Quit, Continue, WorkersAgain, Reconfigure, Reconfigured, NoReconfigure, Restart,
       Reopen, ChangeBinary, ChangeBinaryFails, ChangeBinaryForkFails, NoChangeBinary,
       Noaccept
  <2> QED BY <1>1, <2>1, PlainStep DEF Plain
<1>2. CASE Deliver
  <2>1. at = "suspend" /\ at' \in {"reap", "check"}
    BY <1>2 DEF Deliver, Goto
  <2> QED BY <2>1, PlainStep DEF Plain
<1>3. CASE Reconfigured
  <2>1. /\ at = "reconfigured" /\ at' = "signal" /\ loop'.then = "restart"
        /\ loop'.what = "quit" /\ loop'.i = 0 /\ proc' = proc /\ last' = last
    BY <1>3 DEF Reconfigured, Loop, NoLoop, OnlyMaster, tableVars
  <2>2. InUse' = InUse /\ Members' = Members
    BY <2>1 DEF InUse, Used, Members
  <2>3. \A s \in InUse : s >= 0
    BY DEF InUse, Used
  <2>4. Counted' = Counted /\ Limit' = Limit
    BY <2>1, <2>2, <2>3 DEF Counted, Renewing, Quitting, Limit, Members, InUse, Used
  <2>5. JustInv'
    BY <2>1, <2>2, <2>3 DEF JustInv, Renewing, Quitting
  <2> QED BY <2>4, <2>5 DEF CountInv
<1>4. CASE Reconfigure
  <2>1. at = "reconfigure" /\ proc' = proc /\ last' = last
    BY <1>4 DEF Reconfigure, OnlyMaster, tableVars
  <2>2. InUse' = InUse /\ Members' = Members
    BY <2>1 DEF InUse, Used, Members
  <2>3. CASE at' = "top"
    BY <2>1, <2>3, PlainStep DEF Plain
  <2>4. CASE Loop("start", 1, "just_respawn", "reconfigured")
    <3>1. /\ at' = "start" /\ loop'.i = 1 /\ loop'.what = "just_respawn"
          /\ loop'.then = "reconfigured"
      BY <2>4 DEF Loop, NoLoop
    <3>2. \A s \in InUse : ~proc[s].just_spawn
      BY <2>1 DEF JustInv, Renewing, Quitting
    <3>3. Counted' = {} /\ Limit' = Cardinality({})
      BY <2>1, <2>2, <3>1, <3>2, KindsFacts DEF Counted, Renewing, Quitting, Limit, Members
    <3>4. CountInv'
      BY <3>3, FS_EmptySet DEF CountInv
    <3>5. JustInv'
      BY <2>1, <2>2, <3>1 DEF JustInv, Renewing, Quitting
    <3> QED BY <3>4, <3>5
  <2> QED BY <1>4, <2>3, <2>4 DEF Reconfigure, Goto
<1>5. CASE Restart
  <2>1. at = "restart" /\ proc' = proc /\ last' = last
    BY <1>5 DEF Restart, OnlyMaster, tableVars
  <2>2. InUse' = InUse /\ Members' = Members
    BY <2>1 DEF InUse, Used, Members
  <2>3. CASE at' = "reopen"
    BY <2>1, <2>3, PlainStep DEF Plain
  <2>4. CASE "restart" \in flags
    <3>1. /\ at' = "start" /\ loop'.i = 1 /\ loop'.what = "respawn"
          /\ loop'.then = "reopen"
      BY <1>5, <2>4 DEF Restart, Loop, NoLoop
    <3>2. \A s \in InUse : ~proc[s].just_spawn
      BY <2>1 DEF JustInv, Renewing, Quitting
    <3>3. Counted' = {} /\ Limit' = Cardinality({})
      BY <1>5, <2>2, <2>4, <3>1, KindsFacts DEF Counted, Limit
    <3>4. CountInv'
      BY <3>3, FS_EmptySet DEF CountInv
    <3>5. JustInv'
      BY <2>1, <2>2, <3>1, <3>2 DEF JustInv, Renewing, Quitting
    <3> QED BY <3>4, <3>5
  <2> QED BY <1>5, <2>3, <2>4 DEF Restart, Goto
<1>6. CASE Terminate \/ Quit \/ Noaccept \/ Reopen
  <2>1. /\ at \in {"check", "noaccept", "reopen"}
        /\ \/ at' \in {"top", "change_binary"}
           \/ at' = "signal" /\ loop'.then \in {"top", "change_binary"}
    BY <1>6 DEF Terminate, Quit, Noaccept, Reopen, Goto, Loop, NoLoop
  <2> QED BY <2>1, PlainStep DEF Plain
<1>7. CASE \/ Top \/ Exit \/ Continue \/ NoReconfigure \/ ChangeBinary
           \/ ChangeBinaryFails \/ ChangeBinaryForkFails \/ NoChangeBinary
  <2>1. /\ at \in {"top", "check", "reconfigure", "change_binary"}
        /\ at' \in {"suspend", "exited", "reconfigure", "restart", "noaccept"}
    BY <1>7 DEF Top, Exit, Continue, NoReconfigure, ChangeBinary, ChangeBinaryFails,
                ChangeBinaryForkFails,
                NoChangeBinary, Goto
  <2> QED BY <2>1, PlainStep DEF Plain
<1>8. CASE \/ StartProcessFails \/ Started \/ SignalSkip \/ SignalByChannel
           \/ SignalByKill \/ Signalled \/ ReapNothing \/ ReapRespawn \/ ReapRespawnFails
           \/ ReapRemove \/ Reaped
  BY <1>1, <1>8 DEF StartProcessFails, Started, SignalSkip, SignalByChannel, SignalByKill,
     Signalled, InSignal, ReapNothing, ReapRespawn, ReapRespawnFails, ReapRemove, Reaped,
     InTable
<1> QED BY <1>2, <1>3, <1>4, <1>5, <1>6, <1>7, <1>8 DEF MasterStep

(* A start adds one worker, and lets one more be counted.                   *)
LEMMA CountStart ==
    ASSUME TypeInv, TypeInv', JustInv, CountInv, StartProcess
    PROVE  JustInv' /\ CountInv'
<1> DEFINE s == NewSlot
           k == Kinds[loop.i]
           e == NewEntry(k, loop.what)
<1> proc \in [Slots -> Entries] /\ last \in Nat
  BY ConstantTypes DEF TypeInv, TableTypes
<1>1. /\ at = "start" /\ at' = "start" /\ loop' = [loop EXCEPT !.i = @ + 1]
      /\ loop.i \in Nat /\ loop.i \in DOMAIN Kinds
  BY MasterAssumption DEF StartProcess, NextTurn, TypeInv, LoopTypes
<1>2. loop'.i = loop.i + 1 /\ loop'.what = loop.what /\ loop'.then = loop.then
  BY <1>1 DEF TypeInv, LoopTypes
<1>3. s \in Slots /\ s \in 0 .. last /\ (s = last \/ proc[s].pid = None)
  BY NewSlotFree DEF StartProcess
<1>4. k \in {"worker", "manager", "loader"}
  BY <1>1, ConstantTypes DEF StartProcess
<1>5. e \in Entries
  BY <1>4 DEF NewEntry, FreeSlot, Entries
<1>6. /\ proc' = [proc EXCEPT ![s] = [e EXCEPT !.pid = nextPid, !.exited = FALSE,
                                                    !.channel = nextPid]]
      /\ last' = IF s = last THEN last + 1 ELSE last
  BY DEF StartProcess, Spawn
<1>7. e.kind = k /\ e.just_spawn = (loop.what = "just_respawn")
  <2> HIDE DEF k
  <2> QED BY DEF NewEntry, FreeSlot
<1> HIDE DEF s, k, e
<1>8. /\ proc'[s] = [e EXCEPT !.pid = nextPid, !.exited = FALSE, !.channel = nextPid]
      /\ \A r \in Slots \ {s} : proc'[r] = proc[r]
  BY <1>3, <1>6
<1>9. proc'[s].kind = k /\ proc'[s].just_spawn = (loop.what = "just_respawn")
  <2>1. proc'[s].kind = e.kind /\ proc'[s].just_spawn = e.just_spawn
    BY <1>5, <1>8, Zenon DEF Entries
  <2> QED BY <1>7, <2>1
<1>10. s \notin InUse /\ \A r \in InUse' : r \in Slots /\ (r # s => r \in InUse)
  BY <1>3, <1>6, <1>8, UsedSlots DEF InUse, Used
<1>11. Renewing' <=> Renewing
  BY <1>1, <1>2 DEF Renewing
<1>12. ~Quitting /\ ~Quitting'
  BY <1>1 DEF Quitting
<1>13. JustInv'
  <2>1. at' = "start" => (loop'.what = "just_respawn" <=> loop'.then = "reconfigured")
    BY <1>1, <1>2 DEF JustInv
  <2>2. ASSUME NEW r \in InUse', proc'[r].just_spawn
        PROVE  proc'[r].kind # "binary" /\ Renewing'
    <3>1. CASE r = s
      BY <1>1, <1>2, <1>4, <1>9, <2>2, <3>1 DEF Renewing
    <3>2. CASE r # s
      BY <1>8, <1>10, <1>11, <1>12, <2>2, <3>2 DEF JustInv
    <3> QED BY <3>1, <3>2
  <2> QED BY <1>12, <2>1, <2>2 DEF JustInv
<1>14. \A r \in Counted' : r \in Counted \/ (r = s /\ k = "worker")
  BY <1>8, <1>9, <1>10, <1>11, <1>12 DEF Counted, Members
<1>15. IsFiniteSet(Counted) /\ Cardinality(Counted) \in Nat
  BY CountedFinite
<1>16. Limit = Cardinality(StartedKinds(loop.i)) /\ Limit' = Cardinality(StartedKinds(loop.i + 1))
  BY <1>1, <1>2 DEF Limit, StartedKinds
<1>17. /\ Limit \in Nat /\ Limit' \in Nat /\ Limit <= Limit'
       /\ k = "worker" => Limit' = Limit + 1
  <2>1. loop.i + 1 \in Nat
    BY <1>1
  <2> QED BY <1>1, <1>16, <2>1, KindsFacts DEF k
<1>18. CASE k = "worker"
  <2>1. Counted' \subseteq Counted \cup {s}
    BY <1>14
  <2>2. s \notin Counted
    BY <1>10 DEF Counted, Members
  <2>3. /\ IsFiniteSet(Counted \cup {s})
        /\ Cardinality(Counted \cup {s}) = Cardinality(Counted) + 1
    BY <1>15, <2>2, FS_AddElement
  <2>4. Cardinality(Counted') <= Cardinality(Counted) + 1
    BY <2>1, <2>3, FS_Subset
  <2>5. (IsFiniteSet(Counted) /\ Cardinality(Counted) \in Nat)'
    BY CountedFinite, PTL
  <2>6. Cardinality(Counted') <= Limit'
    BY <1>15, <1>17, <1>18, <2>4, <2>5 DEF CountInv
  <2> QED BY <1>13, <2>6 DEF CountInv
<1>19. CASE k # "worker"
  <2>1. Counted' \subseteq Counted
    BY <1>14, <1>19
  <2> QED BY <1>13, <1>17, <2>1, CountKept
<1> QED BY <1>18, <1>19

LEMMA CountStarted ==
    ASSUME TypeInv, TypeInv', JustInv, CountInv, budget.faults = MaxFaults,
           budget'.faults = MaxFaults, StartProcessFails \/ Started
    PROVE  JustInv' /\ CountInv'
<1>1. ~Spend("faults")
  BY DEF Spend, TypeInv, OuterTypes
<1>2. /\ proc' = proc /\ last' = last /\ at = "start" /\ loop.i \in Nat
  BY <1>1 DEF StartProcessFails, Started, OnlyMaster, tableVars, TypeInv, LoopTypes
<1>3. InUse' = InUse /\ Members' = Members
  BY <1>2 DEF InUse, Used, Members
<1>4. CASE StartProcessFails
  <2>1. at' = "start" /\ loop'.i = loop.i + 1 /\ loop'.what = loop.what /\ loop'.then = loop.then
    BY <1>4 DEF StartProcessFails, NextTurn, TypeInv, LoopTypes
  <2>2. Counted' = Counted
    BY <1>2, <1>3, <2>1 DEF Counted, Renewing, Quitting
  <2>3. Limit <= Limit'
    BY <1>2, <2>1, KindsFacts DEF Limit, StartedKinds
  <2>4. JustInv'
    BY <1>2, <1>3, <2>1 DEF JustInv, Renewing, Quitting
  <2> QED BY <2>2, <2>3, <2>4, CountKept
<1>5. CASE Started
  <2>1. /\ at' = loop.then /\ loop.then \in {"top", "reconfigured", "reopen"}
        /\ loop.i > Len(Kinds)
    BY <1>5 DEF Started, Goto, TypeInv, LoopTypes
  <2>2. Limit' = Limit
    BY <1>2, <2>1, KindsFacts DEF Limit
  <2>3. Renewing' <=> Renewing
    BY <1>2, <2>1 DEF JustInv, Renewing
  <2>4. ~Quitting /\ ~Quitting'
    BY <1>2, <2>1 DEF Quitting
  <2>5. Counted' = Counted
    BY <1>2, <1>3, <2>3, <2>4 DEF Counted
  <2>6. JustInv'
    BY <1>2, <1>3, <2>1, <2>3, <2>4 DEF JustInv
  <2> QED BY <2>2, <2>5, <2>6 DEF CountInv
<1> QED BY <1>4, <1>5

(* One turn of ngx_signal_worker_processes with SIGQUIT: what is in the     *)
(* slot was just spawned, or does not belong to the members any more.       *)
Told == /\ last' = last /\ at' = "signal"
        /\ loop'.i = loop.i + 1 /\ loop'.what = loop.what /\ loop'.then = loop.then
        /\ loop.what = "quit" /\ loop.i \in Members' => proc[loop.i].just_spawn
        /\ loop.i \in InUse' => proc[loop.i].kind = "binary" \/ ~proc'[loop.i].just_spawn

LEMMA ToldTurn ==
    ASSUME TypeInv, TypeInv', TableInv, FaultlessInv, budget.faults = MaxFaults,
           JustInv, SignalSkip \/ SignalByChannel \/ SignalByKill
    PROVE  Told
<1> proc \in [Slots -> Entries]
  BY DEF TypeInv, TableTypes
<1>1. /\ InSignal /\ NextTurn /\ last' = last /\ at = "signal"
  BY DEF SignalSkip, SignalByChannel, SignalByKill, InSignal
<1>2. loop.i \in Slots /\ loop.i \in Used /\ Entry = proc[loop.i]
  BY <1>1, EntryTypes DEF Entry
<1>3. at' = "signal" /\ loop'.i = loop.i + 1 /\ loop'.what = loop.what /\ loop'.then = loop.then
  BY <1>1 DEF NextTurn, TypeInv, LoopTypes
<1>4. CASE SignalSkip
  <2>1. CASE Entry.detached
    <3>1. proc' = proc
      BY <1>4, <2>1 DEF SignalSkip
    <3>2. loop.i \in InUse' => proc[loop.i].kind = "binary"
      BY <1>1, <1>2, <2>1, <3>1 DEF TableInv, KindsAgree, InUse, Used
    <3> QED BY <1>1, <1>3, <3>1, <3>2 DEF Told, Members
  <2>2. CASE Entry.pid = None
    <3>1. proc' = proc
      BY <1>4, <2>2 DEF SignalSkip
    <3>2. loop.i \notin InUse'
      BY <1>2, <2>2, <3>1 DEF InUse
    <3> QED BY <1>1, <1>3, <3>2 DEF Told, Members
  <2>3. CASE ~Entry.detached /\ Entry.pid # None
    <3>1. proc' = [proc EXCEPT ![loop.i].just_spawn = FALSE]
      BY <1>4, <2>3 DEF SignalSkip
    <3>2. proc'[loop.i].just_spawn = FALSE /\ proc'[loop.i].exiting = proc[loop.i].exiting
      BY <1>2, <3>1 DEF Entries
    <3>3. proc[loop.i].just_spawn \/ (proc[loop.i].exiting /\ loop.what = "quit")
      BY <1>2, <1>4, <2>3 DEF SignalSkip, Skipped
    <3> QED BY <1>1, <1>3, <3>2, <3>3 DEF Told, Members
  <2> QED BY <2>1, <2>2, <2>3
<1>5. CASE SignalByChannel \/ SignalByKill
  <2>1. ~Skipped
    BY <1>5 DEF SignalByChannel, SignalByKill
  <2>2. ASSUME child[Entry.pid].state = "reaped" PROVE FALSE
    <3>1. proc[loop.i].exited /\ loop.i \in InUse
      BY <1>1, <1>2, <2>1, <2>2 DEF TableInv, ExitedIsReaped, InUse, Skipped
    <3> QED BY <1>1, <3>1 DEF FaultlessInv
  <2>3. proc' = MarkExiting
    BY <1>5, <2>2 DEF SignalByChannel, SignalByKill
  <2>4. /\ loop.what = "quit" => proc'[loop.i].exiting
        /\ proc'[loop.i].just_spawn = proc[loop.i].just_spawn
    <3>1. proc'[loop.i] = [proc[loop.i] EXCEPT !.exiting = @ \/ loop.what # "reopen"]
      BY <1>2, <2>3 DEF MarkExiting
    <3> DEFINE e == proc[loop.i]
               b == e.exiting \/ loop.what # "reopen"
    <3>2. proc'[loop.i] = [e EXCEPT !.exiting = b] /\ e \in Entries
      BY <1>2, <3>1
    <3>3. loop.what = "quit" => b
      OBVIOUS
    <3> HIDE DEF e, b
    <3>4. proc'[loop.i].exiting = b /\ proc'[loop.i].just_spawn = e.just_spawn
      BY <3>2 DEF Entries
    <3> QED BY <3>3, <3>4 DEF e
  <2>5. ~proc[loop.i].just_spawn
    BY <1>2, <2>1 DEF Skipped
  <2> QED BY <1>1, <1>3, <2>4, <2>5 DEF Told, Members
<1> QED BY <1>4, <1>5

LEMMA CountSignal ==
    ASSUME TypeInv, TypeInv', JustInv, CountInv, Settles, at = "signal",
           Told \/ Signalled
    PROVE  JustInv' /\ CountInv'
<1>1. loop.i \in Nat /\ loop.then \in {"top", "restart", "change_binary"} /\ last \in Nat
  BY ConstantTypes DEF TypeInv, LoopTypes, TableTypes
<1>2. CASE loop.then # "restart"
  <2>1. at' \in {"signal", "top", "change_binary"} /\ (at' = "signal" => loop'.then = loop.then)
    BY <1>1, <1>2 DEF Told, Signalled, Goto
  <2> QED BY <1>2, <2>1, PlainStep DEF Plain
<1>3. CASE loop.then = "restart" /\ Told
  <2>1. Quitting /\ Quitting' /\ ~Renewing /\ ~Renewing' /\ loop.what = "quit"
        /\ loop'.what = "quit"
    BY <1>3 DEF Told, Quitting, Renewing, JustInv
  <2>2. Limit' = WorkerProcesses /\ Limit = WorkerProcesses
    BY <1>3 DEF Told, Limit
  <2>3. ASSUME NEW r \in Counted' PROVE r \in Counted
    <3>1. r \in Members' /\ r \in Members /\ r \in InUse' /\ r \in Nat
      BY DEF Counted, Settles, Members, InUse, Used
    <3>2. proc'[r].just_spawn => proc[r].just_spawn
      BY <3>1 DEF Settles
    <3>3. proc'[r].just_spawn \/ r < loop.i + 1
      BY <1>3, <2>1 DEF Counted, Told
    <3>4. r = loop.i => proc[r].just_spawn
      BY <1>3, <2>1, <3>1 DEF Told
    <3>5. proc[r].just_spawn \/ r < loop.i
      BY <1>1, <3>1, <3>2, <3>3, <3>4
    <3> QED BY <2>1, <3>1, <3>5 DEF Counted
  <2>4. ASSUME NEW r \in InUse', proc'[r].just_spawn
        PROVE  proc'[r].kind # "binary" /\ r >= loop'.i
    <3>1. /\ r \in InUse /\ proc[r].just_spawn /\ proc'[r].kind = proc[r].kind /\ r \in Nat
      BY <2>4 DEF Settles, InUse, Used
    <3>2. proc[r].kind # "binary" /\ r >= loop.i
      BY <2>1, <3>1 DEF JustInv
    <3>3. r # loop.i
      BY <1>3, <2>4, <3>2 DEF Told
    <3>4. r >= loop.i + 1
      BY <1>1, <3>1, <3>2, <3>3
    <3> QED BY <1>3, <3>1, <3>2, <3>4 DEF Told
  <2>5. JustInv'
    BY <1>3, <2>1, <2>4 DEF JustInv, Told
  <2>6. Limit <= Limit'
    BY <2>2, KindsFacts
  <2> QED BY <2>3, <2>5, <2>6, CountKept
<1>4. CASE loop.then = "restart" /\ Signalled
  <2>1. at' = "restart" /\ proc' = proc /\ last' = last /\ loop.i >= last
    BY <1>4 DEF Signalled, Goto, OnlyMaster, tableVars
  <2>2. InUse' = InUse /\ Members' = Members
    BY <2>1 DEF InUse, Used, Members
  <2>3. \A r \in InUse : r < loop.i /\ ~(r >= loop.i)
    BY <1>1, <2>1 DEF InUse, Used
  <2>4. Quitting /\ ~Renewing /\ ~Quitting' /\ ~Renewing' /\ Limit' = Limit
    BY <1>4, <2>1 DEF Quitting, Renewing, Limit
  <2>5. Counted' = Members' /\ Counted = Members
    BY <2>3, <2>4 DEF Counted, Members
  <2>6. JustInv'
    BY <2>1, <2>2, <2>3, <2>4 DEF JustInv
  <2> QED BY <2>2, <2>4, <2>5, <2>6 DEF CountInv
<1> QED BY <1>2, <1>3, <1>4

(* Without ngx_reconfigure: the flag ngx_restart waits for the round in     *)
(* which it was set, and then nobody is left that could be doubled.         *)
LEMMA PauseNext ==
    ASSUME TypeInv, TypeInv', SignalsInv, "reconfigure" \notin Signals,
           JustInv, PauseInv, MasterStep, ~StartProcess => Settles,
           SignalSkip \/ SignalByChannel \/ SignalByKill => Told
    PROVE  PauseInv'
<1>1. loop.i \in Nat /\ last \in Nat
  BY ConstantTypes DEF TypeInv, LoopTypes, TableTypes
<1>2. "reconfigure" \notin flags
  BY DEF SignalsInv
<1>3. CASE StartProcess
  <2>1. Late /\ at = "start" /\ at' = "start" /\ UNCHANGED <<flags, noaccepting>>
    BY <1>3 DEF StartProcess, NextTurn, Late, masterVars
  <2> QED BY <2>1 DEF PauseInv
<1>4. CASE ReapRemove
  <2>1. Members' \subseteq Members /\ at = "reap" /\ at' = "reap"
    BY <1>4 DEF Settles, ReapRemove, InTable, NextTurn, StartProcess
  <2>2. \/ UNCHANGED <<flags, noaccepting>>
        \/ noaccepting' = FALSE /\ flags' = AfterBinary
    BY <1>4 DEF ReapRemove
  <2> QED BY <2>1, <2>2 DEF PauseInv, Late, AfterBinary
<1>5. CASE SignalSkip \/ SignalByChannel \/ SignalByKill
  <2>1. /\ Told /\ Settles /\ at = "signal" /\ noaccepting' = noaccepting
        /\ flags' \subseteq flags \cup {"reap"}
    BY <1>5 DEF SignalSkip, SignalByChannel, SignalByKill, InSignal, StartProcess, masterVars
  <2>2. ASSUME noaccepting, NEW r \in Members'
        PROVE  loop'.what = "quit" /\ loop'.then = "top" /\ r >= loop'.i
    <3>1. r \in Members /\ r \in InUse /\ r \in Nat
      BY <2>1 DEF Settles, Members, InUse, Used
    <3>2. loop.what = "quit" /\ loop.then = "top" /\ r >= loop.i
      BY <2>2, <3>1 DEF PauseInv
    <3>3. ~proc[r].just_spawn
      BY <2>1, <3>1, <3>2 DEF JustInv, Renewing, Quitting
    <3>4. r # loop.i
      BY <2>1, <2>2, <3>2, <3>3 DEF Told
    <3>5. r >= loop.i + 1
      BY <1>1, <3>1, <3>2, <3>4
    <3> QED BY <2>1, <3>2, <3>5 DEF Told
  <2>3. Late' => Late
    BY <2>1 DEF Told, Late
  <2> QED BY <2>1, <2>2, <2>3 DEF PauseInv, Told, Settles
<1>6. CASE Noaccept
  <2>1. /\ at = "noaccept" /\ Late /\ flags' = flags \ {"noaccept"}
        /\ proc' = proc /\ last' = last
    BY <1>6 DEF Noaccept, Late, OnlyMaster, tableVars
  <2>2. InUse' = InUse /\ Members' = Members
    BY <2>1 DEF InUse, Used, Members
  <2>3. \A r \in InUse : r >= 0
    BY DEF InUse, Used
  <2>4. CASE "noaccept" \in flags
    <3>1. at' = "signal" /\ loop'.i = 0 /\ loop'.what = "quit" /\ loop'.then = "top"
      BY <1>6, <2>4 DEF Noaccept, Loop, NoLoop
    <3> QED BY <2>1, <2>2, <2>3, <3>1 DEF PauseInv, Late, Members
  <2>5. CASE "noaccept" \notin flags
    <3>1. at' = "top" /\ noaccepting' = noaccepting
      BY <1>6, <2>5 DEF Noaccept, Goto
    <3> QED BY <2>1, <2>2, <3>1 DEF PauseInv, Late
  <2> QED BY <2>4, <2>5
<1>7. CASE Restart
  <2>1. /\ at = "restart" /\ at' \in {"start", "reopen"}
        /\ at' = "start" => "restart" \in flags
        /\ flags' = flags \ {"restart"} /\ noaccepting' = noaccepting
    BY <1>7 DEF Restart, Goto, Loop, NoLoop
  <2>2. Members' \subseteq Members
    BY <1>7 DEF Settles, Restart, StartProcess
  <2> QED BY <2>1, <2>2 DEF PauseInv, Late
<1>8. CASE Signalled
  <2>1. /\ at = "signal" /\ at' = loop.then /\ UNCHANGED <<flags, noaccepting>>
        /\ loop.then \in {"top", "restart", "change_binary"} /\ loop.i >= last
    BY <1>8 DEF Signalled, Goto, TypeInv, LoopTypes, masterVars
  <2>2. \A r \in Members : ~(r >= loop.i)
    BY <1>1, <2>1 DEF Members, InUse, Used
  <2>3. Members' \subseteq Members
    BY <1>8 DEF Settles, Signalled, StartProcess
  <2> QED BY <2>1, <2>2, <2>3 DEF PauseInv, Late
<1>9. ASSUME Settles, noaccepting' = noaccepting, "restart" \in flags' => "restart" \in flags,
             at # "signal", at' # "start" \/ at = "start", Late' => Late
      PROVE  PauseInv'
  BY <1>9 DEF PauseInv, Settles
<1>10. CASE Reopen
  <2>1. /\ at = "reopen" /\ Late /\ flags' = flags \ {"reopen"} /\ noaccepting' = noaccepting
        /\ at' \in {"signal", "change_binary"}
    BY <1>10 DEF Reopen, Late, Goto, Loop, NoLoop
  <2> QED BY <1>9, <1>10, <2>1 DEF StartProcess
<1>11. CASE (Started \/ StartProcessFails) /\ ~StartProcess
  <2>1. /\ at = "start" /\ Late /\ UNCHANGED <<flags, noaccepting>>
    BY <1>11 DEF Started, StartProcessFails, Late, masterVars
  <2>2. at' # "start" \/ at = "start"
    BY <2>1
  <2> QED BY <1>9, <1>11, <2>1, <2>2
<1>12. CASE ChangeBinary \/ ChangeBinaryFails \/ ChangeBinaryForkFails \/ NoChangeBinary
  <2>1. /\ at = "change_binary" /\ Late /\ at' = "noaccept" /\ noaccepting' = noaccepting
        /\ flags' \subseteq flags
    BY <1>12 DEF ChangeBinary, ChangeBinaryFails, ChangeBinaryForkFails,
                 NoChangeBinary, Goto, Late, masterVars
  <2> QED BY <1>9, <1>12, <2>1 DEF StartProcess
<1>13. CASE ReapNothing \/ ReapRespawn \/ ReapRespawnFails \/ Reaped
  <2>1. /\ at = "reap" /\ at' \in {"reap", "check"} /\ UNCHANGED <<flags, noaccepting>>
    BY <1>13 DEF ReapNothing, ReapRespawn, ReapRespawnFails, Reaped, InTable, NextTurn,
                 Goto, masterVars
  <2> QED BY <1>9, <1>13, <2>1 DEF StartProcess, Late
<1>14. CASE Deliver
  <2>1. /\ at = "suspend" /\ at' \in {"reap", "check"} /\ noaccepting' = noaccepting
        /\ flags' \subseteq flags \cup pending
    BY <1>14 DEF Deliver, Goto
  <2> QED BY <1>9, <1>14, <2>1 DEF StartProcess, Late, SignalsInv
<1>15. CASE Terminate \/ Quit
  <2>1. /\ at = "check" /\ UNCHANGED <<flags, noaccepting>>
        /\ at' = "top" \/ (at' = "signal" /\ loop'.then = "top")
    BY <1>15 DEF Terminate, Quit, Goto, Loop, NoLoop, masterVars
  <2> QED BY <1>9, <1>15, <2>1 DEF StartProcess, Late
<1>16. CASE Reconfigured
  <2>1. /\ at = "reconfigured" /\ UNCHANGED <<flags, noaccepting>>
        /\ at' = "signal" /\ loop'.then = "restart"
    BY <1>16 DEF Reconfigured, Loop, NoLoop
  <2> QED BY <1>9, <1>16, <2>1 DEF StartProcess, Late
<1>17. CASE Top \/ Exit \/ Continue \/ NoReconfigure
  <2>1. /\ at \in {"top", "check", "reconfigure"} /\ at' \in {"suspend", "exited",
              "reconfigure", "restart"}
        /\ noaccepting' = noaccepting /\ flags' \subseteq flags
    BY <1>17 DEF Top, Exit, Continue, NoReconfigure, Goto, masterVars
  <2> QED BY <1>9, <1>17, <2>1 DEF StartProcess, Late
<1>18. CASE WorkersAgain \/ Reconfigure
  BY <1>2, <1>18 DEF WorkersAgain, Reconfigure
<1> QED BY <1>3, <1>4, <1>5, <1>6, <1>7, <1>8, <1>10, <1>11, <1>12, <1>13, <1>14, <1>15,
           <1>16, <1>17, <1>18 DEF MasterStep

LEMMA WorkersMaster ==
    ASSUME TypeInv, TypeInv', TableInv, FaultlessInv, SignalsInv, NoUpgradeReload,
           budget.faults = MaxFaults, budget'.faults = MaxFaults, JustInv, CountInv,
           "reconfigure" \notin Signals => PauseInv, MasterStep
    PROVE  JustInv' /\ CountInv' /\ ("reconfigure" \notin Signals => PauseInv')
<1>1. ~StartProcess => Settles
  BY SettlesMaster
<1>2. SignalSkip \/ SignalByChannel \/ SignalByKill => Told
  BY ToldTurn
<1>3. "reconfigure" \notin Signals => PauseInv'
  BY <1>1, <1>2, PauseNext
<1>4. ~WorkersAgain
  BY DEF WorkersAgain, NoUpgradeReload, SignalsInv
<1>5. Restart /\ "restart" \in flags => Members = {}
  BY DEF PauseInv, NoUpgradeReload, SignalsInv
<1>6. CASE StartProcess
  BY <1>3, <1>6, CountStart
<1>7. CASE at = "start" /\ ~StartProcess
  <2>1. StartProcessFails \/ Started
    BY <1>7 DEF MasterStep, ReapNothing, ReapRespawn, ReapRespawnFails, ReapRemove, Reaped,
       InTable, SignalSkip, SignalByChannel, SignalByKill, Signalled, InSignal, Top, Deliver,
       Exit, Terminate, Quit, Continue, WorkersAgain, Reconfigure, Reconfigured,
       NoReconfigure, Restart, Reopen, ChangeBinary, ChangeBinaryFails,
       ChangeBinaryForkFails, NoChangeBinary,
       Noaccept
  <2> QED BY <1>3, <2>1, CountStarted
<1>8. CASE at = "signal"
  <2>1. SignalSkip \/ SignalByChannel \/ SignalByKill \/ Signalled
    BY <1>8 DEF MasterStep, StartProcess, StartProcessFails, Started, ReapNothing,
       ReapRespawn, ReapRespawnFails, ReapRemove, Reaped, InTable, Top, Deliver,
       Exit, Terminate, Quit, Continue, WorkersAgain, Reconfigure, Reconfigured,
       NoReconfigure, Restart, Reopen, ChangeBinary, ChangeBinaryFails,
       ChangeBinaryForkFails, NoChangeBinary,
       Noaccept
  <2>2. Settles
    BY <1>1, <1>8 DEF StartProcess
  <2> QED BY <1>2, <1>3, <1>8, <2>1, <2>2, CountSignal
<1>9. CASE at \notin {"start", "signal"}
  <2>1. ~StartProcess
    BY <1>9 DEF StartProcess
  <2> QED BY <1>1, <1>3, <1>4, <1>5, <1>9, <2>1, CountRound
<1> QED BY <1>6, <1>7, <1>8, <1>9

LEMMA WorkersNext ==
    ASSUME TypeInv, TypeInv', TableInv, FaultlessInv, SignalsInv, WorkersInv,
           NoUpgradeReload, [Next]_vars
    PROVE  WorkersInv'
<1> SUFFICES ASSUME budget'.faults = MaxFaults
             PROVE  JustInv' /\ CountInv' /\ ("reconfigure" \notin Signals => PauseInv')
  BY DEF WorkersInv
<1>1. budget.faults = MaxFaults
  <2>1. budget.faults \in Nat /\ budget'.faults \in Nat /\ MaxFaults \in Nat
    BY MasterAssumption DEF TypeInv, OuterTypes
  <2>2. ASSUME NEW what \in {"signals", "crashes", "faults"}, Spend(what)
        PROVE  budget'.faults = budget.faults \/ budget'.faults = budget.faults - 1
    BY <2>2 DEF Spend, TypeInv, OuterTypes
  <2>3. budget' = budget \/ \E what \in {"signals", "crashes", "faults"} : Spend(what)
    <3>1. CASE MasterStep
      BY <3>1 DEF MasterStep, StartProcess, StartProcessFails, Started, ReapNothing,
         ReapRespawn, ReapRespawnFails, ReapRemove, Reaped, SignalSkip, SignalByChannel,
         SignalByKill, Signalled, Top, Deliver, Exit, Terminate, Quit, Continue,
         WorkersAgain, Reconfigure, Reconfigured, NoReconfigure, Restart, Reopen,
         ChangeBinary, ChangeBinaryFails, ChangeBinaryForkFails, NoChangeBinary, Noaccept
    <3>2. CASE ~MasterStep
      BY <3>2 DEF Next, ChildStep, Crash, Initialised, ReadChannel, ReopenFiles,
         GracefulExit, ExitProcess, End, Send, Alarm, vars
    <3> QED BY <3>1, <3>2
  <2>4. budget.faults <= MaxFaults
    BY DEF FaultlessInv
  <2> QED BY <2>1, <2>2, <2>3, <2>4
<1>2. JustInv /\ CountInv /\ ("reconfigure" \notin Signals => PauseInv)
  BY <1>1 DEF WorkersInv
<1>3. CASE MasterStep
  BY <1>1, <1>2, <1>3, WorkersMaster
<1>4. CASE ~MasterStep
  <2>1. UNCHANGED <<at, loop, proc, last, flags, noaccepting>>
    BY <1>4 DEF Next, ChildStep, Crash, Initialised, ReadChannel, ReopenFiles,
           GracefulExit, ExitProcess, End, OnlyChild, Send, Alarm, vars, tableVars, masterVars
  <2>2. InUse' = InUse /\ Members' = Members
    BY <2>1 DEF InUse, Used, Members
  <2>3. (Renewing' <=> Renewing) /\ (Quitting' <=> Quitting) /\ Limit' = Limit
    BY <2>1 DEF Renewing, Quitting, Limit
  <2>4. Counted' = Counted
    BY <2>1, <2>2, <2>3 DEF Counted
  <2> QED BY <1>2, <2>1, <2>2, <2>3, <2>4 DEF JustInv, CountInv, PauseInv, Late
<1> QED BY <1>3, <1>4

LEMMA WorkersInit == Init => SignalsInv /\ WorkersInv
<1> SUFFICES ASSUME Init PROVE SignalsInv /\ WorkersInv
  OBVIOUS
<1>1. /\ at = "start" /\ last = 0 /\ flags = {} /\ new_binary = 0
      /\ noaccepting = FALSE /\ pending = {}
  BY Zenon DEF Init
<1>2. loop = [NoLoop EXCEPT !.i = 1, !.what = "respawn", !.then = "top"]
  BY Zenon DEF Init
<1>3. loop.i = 1 /\ loop.what = "respawn" /\ loop.then = "top"
  BY <1>2 DEF NoLoop
<1>4. SignalsInv
  BY <1>1 DEF SignalsInv
<1>5. InUse = {} /\ Members = {} /\ Counted = {}
  BY <1>1 DEF InUse, Used, Members, Counted
<1>6. CountInv
  BY <1>1, <1>3, <1>5, KindsFacts, FS_EmptySet DEF CountInv, Limit
<1>7. JustInv /\ PauseInv
  BY <1>1, <1>3, <1>5 DEF JustInv, PauseInv, Renewing, Quitting, Late
<1> QED BY <1>4, <1>6, <1>7 DEF WorkersInv

(* No more workers serve than worker_processes asks for, as long as no call *)
(* fails and no administrator reconfigures while a new binary takes over.   *)
THEOREM NoExtraCorrect ==
    ASSUME NoUpgradeReload
    PROVE  Spec => [](budget.faults = MaxFaults => NoExtraWorkers)
<1> DEFINE Inv == TypeInv /\ TableInv /\ FaultlessInv /\ SignalsInv /\ WorkersInv
<1>1. Init => Inv
  BY TypeInit, TableInit, FaultlessInit, WorkersInit
<1>2. Inv /\ [Next]_vars => Inv'
  BY TypeNext, TableNext, FaultlessNext, SignalsNext, WorkersNext
<1>3. Inv => (budget.faults = MaxFaults => NoExtraWorkers)
  <2> SUFFICES ASSUME TypeInv, WorkersInv, budget.faults = MaxFaults, at = "suspend"
               PROVE  Cardinality(Serving) <= WorkerProcesses
    BY DEF NoExtraWorkers
  <2>1. Cardinality(Counted) <= WorkerProcesses
    BY DEF WorkersInv, CountInv, Limit
  <2>2. Serving \subseteq Counted
    BY DEF Serving, Counted, Members, InUse, Renewing, Quitting
  <2>3. IsFiniteSet(Counted) /\ Cardinality(Counted) \in Nat
    BY CountedFinite
  <2>4. Cardinality(Serving) <= Cardinality(Counted) /\ Cardinality(Serving) \in Nat
    BY <2>2, <2>3, FS_Subset, FS_CardinalityType
  <2>5. WorkerProcesses \in Nat
    BY KindsFacts
  <2> QED BY <2>1, <2>3, <2>4, <2>5
<1> QED BY <1>1, <1>2, <1>3, PTL DEF Spec

-----------------------------------------------------------------------------
(* The places of a round that the master passes only when no signal to quit *)
(* or terminate had come when it looked; the loops it enters there return   *)
(* to one of them, or to the top.                                           *)
Onward == {"reconfigure", "reconfigured", "restart", "reopen", "change_binary", "noaccept"}

OnwardInv ==
    /\ DOMAIN loop = {"i", "what", "then", "channel"}
    /\ at \in Onward \cup {"start"} => ~Stopping
    /\ at = "signal" /\ loop.then # "top" => ~Stopping

USE DEF Stopping, masterVars, tableVars, childVars

(* A step inside one of the master's loops.                                 *)
LEMMA TurnOnward ==
    ASSUME OnwardInv, NextTurn,
           flags' \cap {"terminate", "quit"} = flags \cap {"terminate", "quit"}
    PROVE  OnwardInv'
BY DEF OnwardInv, NextTurn, Onward

(* A step from one place to another.                                        *)
LEMMA GotoOnward ==
    ASSUME NEW l, Goto(l), l # "signal",
           l \in Onward \cup {"start"} => flags' \cap {"terminate", "quit"} = {}
    PROVE  OnwardInv'
BY DEF OnwardInv, Goto, NoLoop

(* A step into a loop.                                                      *)
LEMMA LoopOnward ==
    ASSUME NEW l \in {"start", "signal"}, NEW first, NEW what, NEW then,
           Loop(l, first, what, then),
           l = "start" \/ then # "top" => flags' \cap {"terminate", "quit"} = {}
    PROVE  OnwardInv'
BY DEF OnwardInv, Loop, NoLoop, Onward

LEMMA OnwardInit == Init => OnwardInv
BY DEF Init, OnwardInv, NoLoop

LEMMA OnwardStart ==
    ASSUME OnwardInv, StartProcess \/ StartProcessFails \/ Started
    PROVE  OnwardInv'
<1>1. CASE StartProcess
  BY <1>1, TurnOnward DEF StartProcess
<1>2. CASE StartProcessFails
  BY <1>2, TurnOnward DEF StartProcessFails
<1>3. CASE Started
  <2>1. flags' = flags /\ flags \cap {"terminate", "quit"} = {} /\ Goto(loop.then)
    BY <1>3 DEF Started, OnwardInv
  <2>2. at' = loop.then /\ loop' = NoLoop
    BY <2>1 DEF Goto
  <2> QED BY <2>1, <2>2 DEF OnwardInv, NoLoop
<1> QED BY <1>1, <1>2, <1>3

LEMMA OnwardReap ==
    ASSUME OnwardInv,
           ReapNothing \/ ReapRespawn \/ ReapRespawnFails \/ ReapRemove \/ Reaped
    PROVE  OnwardInv'
<1>1. CASE ReapNothing
  BY <1>1, TurnOnward DEF ReapNothing
<1>2. CASE ReapRespawn
  BY <1>2 DEF ReapRespawn, InTable, OnwardInv, Onward
<1>3. CASE ReapRespawnFails
  BY <1>3, TurnOnward DEF ReapRespawnFails
<1>4. CASE ReapRemove
  <2>1. at' = "reap" /\ loop' = [loop EXCEPT !.i = @ + 1]
    BY <1>4 DEF ReapRemove, InTable, NextTurn
  <2> QED BY <2>1 DEF OnwardInv, Onward
<1>5. CASE Reaped
  BY <1>5, GotoOnward DEF Reaped, Onward
<1> QED BY <1>1, <1>2, <1>3, <1>4, <1>5

LEMMA OnwardSignal ==
    ASSUME OnwardInv, SignalSkip \/ SignalByChannel \/ SignalByKill \/ Signalled
    PROVE  OnwardInv'
<1>1. CASE SignalSkip
  BY <1>1, TurnOnward DEF SignalSkip
<1>2. CASE SignalByChannel
  BY <1>2, TurnOnward DEF SignalByChannel
<1>3. CASE SignalByKill
  <2>1. flags' = flags \/ flags' = flags \cup {"reap"}
    BY <1>3 DEF SignalByKill
  <2>2. flags' \cap {"terminate", "quit"} = flags \cap {"terminate", "quit"}
    BY <2>1
  <2> QED BY <1>3, <2>2, TurnOnward DEF SignalByKill
<1>4. CASE Signalled
  <2>1. at' = loop.then /\ loop' = NoLoop /\ flags' = flags /\ at = "signal"
    BY <1>4 DEF Signalled, Goto
  <2> QED BY <2>1 DEF OnwardInv, NoLoop, Onward
<1> QED BY <1>1, <1>2, <1>3, <1>4

(* The part of a round before the tests that lead onward.                   *)
LEMMA OnwardWait ==
    ASSUME OnwardInv, Top \/ Deliver \/ Exit \/ Terminate \/ Quit \/ Continue
    PROVE  OnwardInv'
<1>1. CASE Top
  BY <1>1, GotoOnward DEF Top, Onward
<1>2. CASE Deliver
  <2>1. at' \in {"reap", "check"} /\ loop' \in {[NoLoop EXCEPT !.what = "close"], NoLoop}
    BY <1>2 DEF Deliver, Goto
  <2> QED BY <2>1 DEF OnwardInv, Onward, NoLoop
<1>3. CASE Exit
  BY <1>3, GotoOnward DEF Exit, Onward
<1>4. CASE Terminate
  <2>1. CASE Goto("top")
    BY <2>1, GotoOnward DEF Onward
  <2>2. CASE ~Goto("top")
    BY <1>4, <2>2, LoopOnward DEF Terminate
  <2> QED BY <2>1, <2>2
<1>5. CASE Quit
  BY <1>5, LoopOnward DEF Quit
<1>6. CASE Continue
  BY <1>6, GotoOnward DEF Continue
<1> QED BY <1>1, <1>2, <1>3, <1>4, <1>5, <1>6

(* From the test of ngx_reconfigure to the end of the round no flag to stop *)
(* can come up.                                                             *)
LEMMA OnwardRound ==
    ASSUME OnwardInv,
           \/ WorkersAgain \/ Reconfigure \/ Reconfigured \/ NoReconfigure \/ Restart
           \/ Reopen \/ ChangeBinary \/ ChangeBinaryFails \/ ChangeBinaryForkFails
           \/ NoChangeBinary \/ Noaccept
    PROVE  OnwardInv'
<1>1. flags' \cap {"terminate", "quit"} = {}
  <2>1. flags \cap {"terminate", "quit"} = {}
    BY DEF OnwardInv, Onward, WorkersAgain, Reconfigure, Reconfigured, NoReconfigure,
           Restart, Reopen, ChangeBinary, ChangeBinaryFails, ChangeBinaryForkFails,
           NoChangeBinary, Noaccept
  <2>2. flags' \subseteq flags
    BY DEF WorkersAgain, Reconfigure, Reconfigured, NoReconfigure, Restart, Reopen,
           ChangeBinary, ChangeBinaryFails, ChangeBinaryForkFails, NoChangeBinary,
           Noaccept
  <2> QED BY <2>1, <2>2
<1>2. DOMAIN loop' = {"i", "what", "then", "channel"}
  BY DEF WorkersAgain, Reconfigure, Reconfigured, NoReconfigure, Restart, Reopen,
         ChangeBinary, ChangeBinaryFails, ChangeBinaryForkFails, NoChangeBinary,
         Noaccept, Goto, Loop, NoLoop
<1> QED BY <1>1, <1>2 DEF OnwardInv

(* Nothing else touches the place of the master, its loop or its flags.     *)
LEMMA OnwardOthers ==
    ASSUME OnwardInv,
           \/ \E p \in Pids : ChildStep(p) \/ Crash(p)
           \/ \E s \in Signals : Send(s)
           \/ Alarm \/ UNCHANGED vars
    PROVE  OnwardInv' /\ nextPid' = nextPid
<1>1. UNCHANGED <<at, loop, flags, nextPid>>
  BY DEF ChildStep, Crash, Initialised, ReadChannel, ReopenFiles, GracefulExit,
         ExitProcess, End, OnlyChild, Send, Alarm, vars
<1> QED BY <1>1 DEF OnwardInv

LEMMA OnwardNext == OnwardInv /\ [Next]_vars => OnwardInv'
BY OnwardStart, OnwardReap, OnwardSignal, OnwardWait, OnwardRound, OnwardOthers
   DEF Next, MasterStep

(* Only three actions create a process; each is out of reach of a master    *)
(* that is stopping.                                                        *)
LEMMA NoSpawnStep ==
    ASSUME OnwardInv, [Next]_vars, Stopping
    PROVE  nextPid' = nextPid
<1>1. ~StartProcess
  BY DEF StartProcess, OnwardInv
<1>2. ~ReapRespawn
  BY DEF ReapRespawn, Respawns
<1>3. ~ChangeBinary
  BY DEF ChangeBinary, OnwardInv, Onward
<1>4. CASE MasterStep
  <2>1. CASE StartProcessFails \/ ReapRespawnFails \/ ChangeBinaryForkFails
    BY <2>1 DEF StartProcessFails, ReapRespawnFails, ChangeBinaryForkFails, SpawnFailed
  <2>2. CASE Started \/ ReapNothing \/ ReapRemove \/ Reaped \/ SignalSkip
             \/ SignalByChannel \/ SignalByKill \/ Signalled \/ Top \/ Deliver
    BY <2>2 DEF Started, ReapNothing, ReapRemove, Reaped, SignalSkip,
                SignalByChannel, SignalByKill, Signalled, Top, Deliver, OnlyMaster
  <2>3. CASE Exit \/ Terminate \/ Quit \/ Continue \/ WorkersAgain \/ Reconfigure
             \/ Reconfigured \/ NoReconfigure \/ Restart \/ Reopen
             \/ ChangeBinaryFails \/ NoChangeBinary \/ Noaccept
    BY <2>3 DEF Exit, Terminate, Quit, Continue, WorkersAgain, Reconfigure,
                Reconfigured, NoReconfigure, Restart, Reopen, ChangeBinaryFails,
                NoChangeBinary, Noaccept, OnlyMaster
  <2> QED BY <1>1, <1>2, <1>3, <1>4, <2>1, <2>2, <2>3 DEF MasterStep
<1> QED BY <1>4, OnwardOthers DEF Next

(* A master that was told to quit or terminate creates no process, whatever *)
(* other signals, reconfigurations, deaths and failures the same round      *)
(* brings (ngx_master_process_cycle, ngx_reap_children).                    *)
THEOREM NoSpawnCorrect == Spec => NoSpawnWhenStopping
<1>1. OnwardInv /\ [Next]_vars => [Stopping => nextPid' = nextPid]_vars
  BY NoSpawnStep
<1> QED BY OnwardInit, OnwardNext, <1>1, PTL DEF Spec, NoSpawnWhenStopping
=============================================================================
