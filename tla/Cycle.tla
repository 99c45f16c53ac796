------------------------------- MODULE Cycle -------------------------------
(***************************************************************************)
(* ngx_cycle.c: ngx_init_cycle builds a new cycle from a configuration     *)
(* beside the old one, takes over what both have, opens the rest, and then *)
(* either closes what only the old one had or rolls the new one back.      *)
(* Also the reopening of files and the cleaning of old cycles, which are   *)
(* kept in single process mode while their connections live.               *)
(***************************************************************************)
EXTENDS Integers, FiniteSets, Sequences, SequencesExt

CONSTANTS
    Confs,        \* configurations an administrator may ask for
    NoReuse,      \* tags of modules that set noreuse for their zones
    Unix,         \* addresses that are paths of unix sockets
    Stderr,       \* the log "stderr", a file without a name
    None,
    Inherited,    \* sockets handed over by an old binary: where, ignored?
    Modes,        \* master, single process, test of the configuration
    MaxCycles,    \* bound on configurations tried
    MaxFaults     \* bound on calls that fail

(* What the reader of the configuration makes of a file, after            *)
(* ngx_conf_open_file and ngx_clone_listening: declarations of zones in    *)
(* their order, names of files, and for each listening socket where.  A    *)
(* path is listened on once, also by the binary that hands sockets over.   *)
ASSUME CycleAssumption ==
    /\ \A c \in Confs :
        /\ DOMAIN c = {"zones", "files", "listen", "pid", "environment"} /\ c.pid # None
        /\ c.zones \in Seq(Range(c.zones)) /\ c.files \in Seq(Range(c.files))
        /\ c.listen \in Seq(Range(c.listen)) /\ c.environment \in BOOLEAN
        /\ \A j, k \in DOMAIN c.listen :
              c.listen[j].addr = c.listen[k].addr /\ c.listen[k].addr \in Unix => j = k
    /\ Inherited \in Seq(Range(Inherited))
    /\ \A k \in DOMAIN Inherited : Inherited[k].ignore \in BOOLEAN
    /\ \A j, k \in DOMAIN Inherited :
          Inherited[j].at.addr = Inherited[k].at.addr /\ Inherited[k].at.addr \in Unix => j = k
    /\ Modes \subseteq {"master", "single", "test"}
    /\ MaxCycles \in Nat /\ MaxFaults \in Nat

VARIABLES
    mode, at, i,   \* kind of process, place in the code, index of its loop
    old, new,      \* old_cycle (ngx_cycle when idle) and cycle
    fds,           \* open descriptors and what they refer to
    shm,           \* shared memory segments
    pidfiles, sockfiles,   \* files in the file system
    environ,       \* the cycle whose environment is in use, 0: the inherited one
    pools,         \* cycles whose pool exists
    old_cycles, cleaner,   \* ngx_old_cycles, ngx_cleaner_event.timer_set
    live,          \* cycles with connections
    made, faults,  \* cycles begun, failures so far
    before,        \* history: what existed when the last load began
    committed      \* history: cycles that came into force

disk == <<pidfiles, sockfiles>>
oldCycles == <<old_cycles, cleaner, live>>
history == <<before, committed>>
vars == <<mode, at, i, old, new, fds, shm, disk, environ, pools, oldCycles, made,
          faults, history>>

Invalid == -1
Fault == faults < MaxFaults /\ faults' = faults + 1
NoFault == UNCHANGED faults
Goto(place) == at' = place /\ i' = 1

NoConf == [zones |-> <<>>, files |-> <<>>, listen |-> <<>>, pid |-> None,
           environment |-> FALSE]
NoCycle == [id |-> 0, conf |-> NoConf, zones |-> <<>>, files |-> <<>>,
            listening |-> <<>>, environment |-> FALSE]

(* ngx_is_init_cycle: the stub that main made.                              *)
ngx_is_init_cycle(c) == c.id = 0

(* A new descriptor has the lowest free number.                             *)
Free == CHOOSE n \in 0 .. Cardinality(DOMAIN fds) :
            n \notin DOMAIN fds /\ \A k \in 0 .. n - 1 : k \in DOMAIN fds
Opened(what) == [n \in DOMAIN fds \cup {Free} |-> IF n = Free THEN what ELSE fds[n]]
Closed(S) == [n \in DOMAIN fds \ S |-> fds[n]]
FileOf(name) == [file |-> name]
PidFd == [pid |-> "pid"]

-----------------------------------------------------------------------------
(* The configuration.                                                       *)
NoSegment == [by |-> 0, name |-> None]

(* ngx_shared_memory_add, for one declaration of a zone: a second one must  *)
(* be of the same module and of the same size, or leave the size open.      *)
ngx_shared_memory_add(acc, d) ==
    LET same == {k \in DOMAIN acc.zones : acc.zones[k].name = d.name}
    IN  IF same = {}
        THEN [acc EXCEPT !.zones = Append(@, [name |-> d.name, size |-> d.size,
                                              tag |-> d.tag, addr |-> NoSegment])]
        ELSE LET k == CHOOSE s \in same : TRUE
                 z == acc.zones[k]
             IN  [ok |-> acc.ok /\ z.tag = d.tag /\ (z.size = 0 \/ d.size \in {0, z.size}),
                  zones |-> [acc.zones EXCEPT ![k].size = IF @ = 0 THEN d.size ELSE @]]
Parsed(c) == FoldLeft(ngx_shared_memory_add, [ok |-> TRUE, zones |-> <<>>], c.zones)

NewCycle(c) ==
    [id |-> made + 1, conf |-> c, zones |-> Parsed(c).zones,
     files |-> [k \in DOMAIN c.files |->
                   [name |-> c.files[k], fd |-> IF c.files[k] = Stderr THEN 0 ELSE Invalid]],
     listening |-> [k \in DOMAIN c.listen |->
                   [at |-> c.listen[k], fd |-> Invalid, open |-> FALSE, remain |-> FALSE,
                    ignore |-> FALSE]],
     environment |-> c.environment]

(* ngx_init_cycle up to the test of ngx_process: the configuration is read. *)
(* A module that manages the environment has set environ in its init_conf.  *)
ReadConf(c) ==
    /\ at = "idle" /\ made < MaxCycles /\ Parsed(c).ok
    /\ Goto("pidfile") /\ made' = made + 1 /\ NoFault
    /\ new' = NewCycle(c) /\ pools' = pools \cup {made + 1}
    /\ environ' = IF c.environment THEN made + 1 ELSE environ
    /\ before' = [fds |-> fds, shm |-> shm, disk |-> disk, environ |-> environ]
    /\ UNCHANGED <<mode, old, fds, shm, disk, oldCycles, committed>>

(* It cannot be read, or an allocation fails: the pools are destroyed and   *)
(* environ is put back.  main exits if it was the first configuration.      *)
RefuseConf(c) ==
    /\ at = "idle" /\ made < MaxCycles
    /\ IF Parsed(c).ok THEN Fault ELSE NoFault
    /\ made' = made + 1
    /\ at' = IF ngx_is_init_cycle(old) THEN "exited" ELSE at
    /\ UNCHANGED <<mode, i, old, new, fds, shm, disk, environ, pools, oldCycles, history>>

(* The pid file.  ngx_create_pidfile leaves its descriptor open when the    *)
(* write fails; a test writes nothing and keeps the file that is there.     *)
NewPid == mode = "test" \/ (~ngx_is_init_cycle(old) /\ new.conf.pid # old.conf.pid)
KeepPid ==
    /\ at = "pidfile" /\ ~NewPid
    /\ Goto("paths")

ngx_create_pidfile ==
    /\ at = "pidfile" /\ NewPid
    /\ Goto("paths") /\ NoFault
    /\ pidfiles' = (pidfiles \cup {new.conf.pid})
                   \ (IF mode = "test" THEN {} ELSE {old.conf.pid})
    /\ UNCHANGED <<mode, old, new, fds, shm, sockfiles, environ, pools, oldCycles, made, history>>

PidFileFails ==
    /\ at = "pidfile" /\ NewPid
    /\ Goto("failed") /\ Fault
    /\ \/ UNCHANGED <<fds, pidfiles>>
       \/ /\ mode # "test"
          /\ pidfiles' = pidfiles \cup {new.conf.pid} /\ fds' = Opened(PidFd)
    /\ UNCHANGED <<mode, old, new, shm, sockfiles, environ, pools, oldCycles, made, history>>

(* The lock file, the paths and the default log.                            *)
Paths ==
    /\ at = "paths"
    /\ \/ Goto("files") /\ NoFault
       \/ Goto("failed") /\ Fault
    /\ UNCHANGED <<mode, old, new, fds, shm, disk, environ, pools, oldCycles, made, history>>

(* The new files, one after the other; open may fail, and fcntl after it.   *)
OpenFile ==
    /\ at = "files" /\ i <= Len(new.files)
    /\ IF new.files[i].name = Stderr
       THEN at' = at /\ i' = i + 1 /\ NoFault /\ UNCHANGED <<new, fds>>
       ELSE \/ /\ fds' = Opened(FileOf(new.files[i].name))
               /\ new' = [new EXCEPT !.files[i].fd = Free]
               /\ (at' = at /\ i' = i + 1 /\ NoFault) \/ (Goto("failed") /\ Fault)
            \/ Goto("failed") /\ Fault /\ UNCHANGED <<new, fds>>
    /\ UNCHANGED <<mode, old, shm, disk, environ, pools, oldCycles, made, history>>

FilesOpen ==
    /\ at = "files" /\ i > Len(new.files)
    /\ Goto("zones")

-----------------------------------------------------------------------------
(* Shared memory, one zone after the other.                                 *)
Zone == new.zones[i]
Same(z, y) == z.name = y.name /\ z.tag = y.tag /\ z.size = y.size
Reused == {k \in DOMAIN old.zones : Same(Zone, old.zones[k]) /\ Zone.tag \notin NoReuse}
Segment == [by |-> new.id, name |-> Zone.name]

(* A zone of the old cycle is taken over; its module may refuse the data.   *)
ReuseZone ==
    /\ at = "zones" /\ i <= Len(new.zones) /\ Zone.size # 0
    /\ \E k \in Reused : new' = [new EXCEPT !.zones[i].addr = old.zones[k].addr]
    /\ \/ at' = at /\ i' = i + 1 /\ NoFault
       \/ Goto("failed") /\ Fault
    /\ UNCHANGED <<mode, old, fds, shm, disk, environ, pools, oldCycles, made, history>>

(* Otherwise ngx_shm_alloc, ngx_init_zone_pool and init, each may fail.     *)
AllocZone ==
    /\ at = "zones" /\ i <= Len(new.zones) /\ Zone.size # 0 /\ Reused = {}
    /\ \/ /\ shm' = shm \cup {Segment}
          /\ new' = [new EXCEPT !.zones[i].addr = Segment]
          /\ (at' = at /\ i' = i + 1 /\ NoFault) \/ (Goto("failed") /\ Fault)
       \/ Goto("failed") /\ Fault /\ UNCHANGED <<shm, new>>
    /\ UNCHANGED <<mode, old, fds, disk, environ, pools, oldCycles, made, history>>

ZeroZone ==
    /\ at = "zones" /\ i <= Len(new.zones) /\ Zone.size = 0
    /\ Goto("failed")

(* All zones are there: before the sockets are compared, remain is reset in *)
(* the old cycle.                                                           *)
ZonesDone ==
    /\ at = "zones" /\ i > Len(new.zones)
    /\ Goto("listen") /\ NoFault
    /\ old' = [old EXCEPT !.listening = [k \in DOMAIN @ |-> [@[k] EXCEPT !.remain = FALSE]]]
    /\ UNCHANGED <<mode, new, fds, shm, disk, environ, pools, oldCycles, made, history>>

-----------------------------------------------------------------------------
(* Listening sockets.                                                       *)

(* Mutant of Candidates: a socket that was taken over is taken over again.  *)
TakenTwice ==
    {k \in DOMAIN old.listening :
        ~old.listening[k].ignore /\ old.listening[k].at = new.listening[i].at}

(* A new socket takes over the first old one of its type and address that   *)
(* is not ignored and was not taken over yet; without one it is to be       *)
(* opened.                                                                  *)
Candidates == {k \in DOMAIN old.listening :
                  /\ ~old.listening[k].ignore /\ ~old.listening[k].remain
                  /\ old.listening[k].at = new.listening[i].at}
InheritSocket ==
    /\ at = "listen" /\ i <= Len(new.listening)
    /\ i' = i + 1 /\ NoFault
    /\ IF Candidates = {}
       THEN /\ new' = [new EXCEPT !.listening[i].open = TRUE]
            /\ UNCHANGED old
       ELSE LET k == CHOOSE c \in Candidates : \A d \in Candidates : c <= d
            IN  /\ new' = [new EXCEPT !.listening[i].fd = old.listening[k].fd]
                /\ old' = [old EXCEPT !.listening[k].remain = TRUE]
    /\ UNCHANGED <<mode, at, fds, shm, disk, environ, pools, oldCycles, made, history>>

InheritDone ==
    /\ at = "listen" /\ i > Len(new.listening)
    /\ Goto("open")

(* ngx_open_listening_sockets opens those that have no descriptor.  bind is *)
(* refused while the path of a unix socket exists, or by another program    *)
(* (after which the others are still tried); another error ends it at once. *)
Socket(l, k) == [at |-> l, by |-> new.id, nth |-> k]
SkipSocket ==
    /\ at = "open" /\ i <= Len(new.listening) /\ new.listening[i].fd # Invalid
    /\ i' = i + 1 /\ UNCHANGED at

OpenSocket ==
    /\ at = "open" /\ i <= Len(new.listening) /\ new.listening[i].fd = Invalid
    /\ LET l == new.listening[i].at
           path == {l.addr} \cap Unix
       IN  \/ /\ path \cap sockfiles = {}
              /\ fds' = Opened(Socket(l, i)) /\ sockfiles' = sockfiles \cup path
              /\ new' = [new EXCEPT !.listening[i].fd = Free]
              /\ i' = i + 1 /\ UNCHANGED at /\ NoFault
           \/ /\ IF path \cap sockfiles = {} THEN Fault ELSE NoFault
              /\ (i' = i + 1 /\ UNCHANGED at) \/ Goto("failed")
              /\ UNCHANGED <<fds, sockfiles, new>>
    /\ UNCHANGED <<mode, old, shm, pidfiles, environ, pools, oldCycles, made, history>>

SocketsOpen ==
    /\ at = "open" /\ i > Len(new.listening)
    /\ Goto(IF \E k \in DOMAIN new.listening : new.listening[k].fd = Invalid
            THEN "failed" ELSE "commit")

-----------------------------------------------------------------------------
(* "commit the new cycle configuration": the modules are initialised, which *)
(* nothing is prepared to see fail.                                         *)
Commit ==
    /\ at = "commit"
    /\ \/ Goto("free") /\ NoFault /\ committed' = committed \cup {new.id}
       \/ Goto("exited") /\ Fault /\ UNCHANGED committed
    /\ UNCHANGED <<mode, old, new, fds, shm, disk, environ, pools, oldCycles, made, before>>

(* Mutant of FreeZones: a zone with the name of a new one is never freed.   *)
FreeZonesByName ==
    /\ at = "free"
    /\ Goto("close") /\ NoFault
    /\ shm' = shm \ {z.addr : z \in {y \in Range(old.zones) :
                  ~\E n \in Range(new.zones) : y.name = n.name}}
    /\ UNCHANGED <<mode, old, new, fds, disk, environ, pools, oldCycles, made, history>>

(* Zones of the old cycle that were not taken over are freed.               *)
FreeZones ==
    /\ at = "free"
    /\ Goto("close") /\ NoFault
    /\ shm' = shm \ {z.addr : z \in {y \in Range(old.zones) :
                  y.tag \in NoReuse \/ ~\E n \in Range(new.zones) : Same(y, n)}}
    /\ UNCHANGED <<mode, old, new, fds, disk, environ, pools, oldCycles, made, history>>

(* So are its sockets that do not remain, with the paths of unix sockets.   *)
Leaving == {l \in Range(old.listening) : ~l.remain /\ l.fd # Invalid}
CloseSockets ==
    /\ at = "close"
    /\ Goto("close_files") /\ NoFault
    /\ fds' = Closed({l.fd : l \in Leaving})
    /\ sockfiles' = sockfiles \ {l.at.addr : l \in Leaving}
    /\ UNCHANGED <<mode, old, new, shm, pidfiles, environ, pools, oldCycles, made, history>>

(* And its files: the new cycle has opened its own.                         *)
OwnFiles(c) == {f.fd : f \in {g \in Range(c.files) : g.fd # Invalid /\ g.name # Stderr}}
CloseFiles ==
    /\ at = "close_files"
    /\ Goto("finish") /\ NoFault
    /\ fds' = Closed(OwnFiles(old))
    /\ UNCHANGED <<mode, old, new, shm, disk, environ, pools, oldCycles, made, history>>

(* The old cycle is destroyed, or kept for its connections.  After the      *)
(* first load main writes the pid file, and a single process sets environ.  *)
Finish ==
    /\ at = "finish"
    /\ at' = (IF mode = "test" THEN "exited" ELSE "idle") /\ i' = 1 /\ NoFault
    /\ IF ngx_is_init_cycle(old) /\ mode # "test"
       THEN pidfiles' = pidfiles \cup {new.conf.pid} ELSE UNCHANGED pidfiles
    /\ IF ngx_is_init_cycle(old) /\ mode = "single"
       THEN environ' = new.id /\ old' = [new EXCEPT !.environment = TRUE]
       ELSE old' = new /\ UNCHANGED environ
    /\ new' = NoCycle
    /\ IF mode = "master" \/ ngx_is_init_cycle(old)
       THEN pools' = pools \ {old.id} /\ UNCHANGED <<old_cycles, cleaner>>
       ELSE old_cycles' = Append(old_cycles, old.id) /\ cleaner' = TRUE /\ UNCHANGED pools
    /\ UNCHANGED <<mode, fds, shm, sockfiles, live, made, history>>

(* An old cycle that has to be kept, and no memory for ngx_temp_pool or the *)
(* list: the process exits although the new cycle is committed.             *)
KeepFails ==
    /\ at = "finish" /\ mode # "master" /\ ~ngx_is_init_cycle(old)
    /\ Goto("exited") /\ Fault
    /\ UNCHANGED <<mode, old, new, fds, shm, disk, environ, pools, oldCycles, made, history>>

(* Mutant of Rollback: sockets are closed that were taken over.             *)
RollbackAllSockets ==
    /\ at = "failed"
    /\ at' = (IF mode = "test" \/ ngx_is_init_cycle(old) THEN "exited" ELSE "idle")
    /\ i' = 1 /\ NoFault
    /\ fds' = Closed(OwnFiles(new) \cup {l.fd : l \in Range(new.listening)})
    /\ pools' = pools \ {new.id} /\ new' = NoCycle
    /\ UNCHANGED <<mode, old, shm, disk, environ, oldCycles, made, history>>

(* "rollback the new cycle configuration": its files are closed and the     *)
(* sockets that it opened itself; a test leaves those to its exit.          *)
Rollback ==
    /\ at = "failed"
    /\ at' = (IF mode = "test" \/ ngx_is_init_cycle(old) THEN "exited" ELSE "idle")
    /\ i' = 1 /\ NoFault
    /\ environ' = IF ~ngx_is_init_cycle(old) /\ old.environment THEN old.id ELSE environ
    /\ fds' = Closed(OwnFiles(new) \cup
                     IF mode = "test" THEN {}
                     ELSE {l.fd : l \in {k \in Range(new.listening) : k.fd # Invalid /\ k.open}})
    /\ pools' = pools \ {new.id} /\ new' = NoCycle
    /\ UNCHANGED <<mode, old, shm, disk, oldCycles, made, history>>

-----------------------------------------------------------------------------
(* Between reconfigurations.                                                *)
Idle == at = "idle" /\ ~ngx_is_init_cycle(old)

(* ngx_reopen_files, one file after the other: a file that cannot be opened *)
(* again, or whose owner or mode cannot be set, keeps its descriptor.       *)
Reopen ==
    /\ Idle /\ Goto("reopen") /\ NoFault
    /\ UNCHANGED <<mode, old, new, fds, shm, disk, environ, pools, oldCycles, made, history>>
ReopenFile ==
    /\ at = "reopen" /\ i <= Len(old.files)
    /\ i' = i + 1
    /\ IF old.files[i].name = Stderr THEN NoFault /\ UNCHANGED <<fds, old>>
       ELSE \/ /\ fds' = [n \in (DOMAIN fds \ {old.files[i].fd}) \cup {Free} |->
                             IF n = Free THEN FileOf(old.files[i].name) ELSE fds[n]]
               /\ old' = [old EXCEPT !.files[i].fd = Free] /\ NoFault
            \/ Fault /\ UNCHANGED <<fds, old>>
    /\ UNCHANGED <<mode, at, new, shm, disk, environ, pools, oldCycles, made, history>>
Reopened ==
    /\ at = "reopen" /\ i > Len(old.files)
    /\ Goto("idle")

(* In single process mode connections come and go; only the cycle in force  *)
(* accepts.                                                                 *)
Accept ==
    /\ Idle /\ mode = "single" /\ live' = live \cup {old.id} /\ NoFault
    /\ UNCHANGED <<mode, at, i, old, new, fds, shm, disk, environ, pools, old_cycles,
                   cleaner, made, history>>
CloseConnections(c) ==
    /\ Idle /\ c \in live /\ live' = live \ {c} /\ NoFault
    /\ UNCHANGED <<mode, at, i, old, new, fds, shm, disk, environ, pools, old_cycles,
                   cleaner, made, history>>

(* Mutant of ngx_clean_old_cycles: the timer is not set again for cycles    *)
(* that are kept.                                                           *)
CleanOnce ==
    /\ Idle /\ cleaner
    /\ old_cycles' = [k \in DOMAIN old_cycles |->
                         IF old_cycles[k] \in live THEN old_cycles[k] ELSE 0]
    /\ cleaner' = FALSE
    /\ pools' = pools \ (Range(old_cycles) \ live)
    /\ NoFault
    /\ UNCHANGED <<mode, at, i, old, new, fds, shm, disk, environ, live, made, history>>

(* The timer: old cycles without a connection are destroyed (and their      *)
(* entries NULL), and it is set again while others are left.                *)
ngx_clean_old_cycles ==
    /\ Idle /\ cleaner
    /\ LET kept == [k \in DOMAIN old_cycles |-> IF old_cycles[k] \in live THEN old_cycles[k] ELSE 0]
           found == \E k \in DOMAIN kept : kept[k] # 0
       IN  /\ old_cycles' = IF found THEN kept ELSE <<>>
           /\ cleaner' = found
    /\ pools' = pools \ (Range(old_cycles) \ live)
    /\ NoFault
    /\ UNCHANGED <<mode, at, i, old, new, fds, shm, disk, environ, live, made, history>>

(* ngx_master_process_exit.                                                 *)
Exit ==
    /\ Idle /\ Goto("exited") /\ NoFault
    /\ pidfiles' = pidfiles \ {old.conf.pid}
    /\ UNCHANGED <<mode, old, new, fds, shm, sockfiles, environ, pools, oldCycles, made, history>>

-----------------------------------------------------------------------------
(* A start with the sockets that an old binary has handed over, if any.     *)
InheritedCycle ==
    [NoCycle EXCEPT !.listening =
        [k \in DOMAIN Inherited |-> [at |-> Inherited[k].at, fd |-> k, open |-> FALSE,
                                     remain |-> FALSE, ignore |-> Inherited[k].ignore]]]
Init ==
    /\ mode \in Modes /\ at = "idle" /\ i = 1
    /\ old \in {NoCycle, InheritedCycle} /\ new = NoCycle
    /\ fds = [n \in 0 .. Len(old.listening) |->
                 IF n = 0 THEN FileOf(Stderr)
                 ELSE [at |-> old.listening[n].at, by |-> 0, nth |-> n]]
    /\ shm = {} /\ pidfiles = {} /\ environ = 0 /\ pools = {0}
    /\ sockfiles = {l.at.addr : l \in Range(old.listening)} \cap Unix
    /\ old_cycles = <<>> /\ cleaner = FALSE /\ live = {}
    /\ made = 0 /\ faults = 0 /\ committed = {0}
    /\ before = [fds |-> fds, shm |-> shm, disk |-> disk, environ |-> environ]

(* Steps that only go on to the next place.                                 *)
Pass ==
    /\ \/ KeepPid \/ FilesOpen \/ ZeroZone \/ InheritDone \/ SkipSocket \/ SocketsOpen
       \/ Reopened
    /\ NoFault
    /\ UNCHANGED <<mode, old, new, fds, shm, disk, environ, pools, oldCycles, made, history>>

Load ==
    \/ Pass \/ ngx_create_pidfile \/ PidFileFails \/ Paths \/ OpenFile
    \/ ReuseZone \/ AllocZone \/ ZonesDone \/ InheritSocket \/ OpenSocket \/ Commit
    \/ FreeZones \/ CloseSockets \/ CloseFiles \/ Finish \/ KeepFails \/ Rollback

Next ==
    \/ \E c \in Confs : ReadConf(c) \/ RefuseConf(c)
    \/ Load
    \/ Reopen \/ ReopenFile
    \/ Accept \/ (\E c \in live : CloseConnections(c)) \/ ngx_clean_old_cycles
    \/ Exit

Spec == Init /\ [][Next]_vars
=============================================================================
