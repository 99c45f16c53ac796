# TLA+ specifications of InsideNginx

InsideNginx is a reading edition of the core of nginx: `src/ngx_src` holds the parts
that make nginx what it is (processes and signals, thread pools, timers, the choice of
upstream servers, the containers below them), `src/notes` explains them. This directory
models the parts with state that several actors change, checks them with TLC on small
instances, and proves with TLAPS what matters most for every instance.

## The system

| part | state | operations | talks to |
|---|---|---|---|
| thread pool, `ngx_thread_pool.c` | per pool `mtx`, `cond`, `queue`, `waiting`; the list `ngx_thread_pool_done` and its spinlock; `event.active` of each task | `ngx_thread_task_post`, `ngx_thread_pool_cycle` in each thread, `ngx_thread_pool_handler` in the event loop, `..._init_worker`, `..._exit_worker`, `..._destroy` | event loop (`ngx_notify`), modules that post tasks |
| master, `ngx_process_cycle.c`, `ngx_process.c` | signal flags, `ngx_processes[]`, `ngx_last_process`, `ngx_process_slot`, `ngx_new_binary`, `ngx_noaccepting`, the locals `live`, `delay`, `sigio` | `ngx_master_process_cycle` and all it calls, `ngx_spawn_process`, `ngx_signal_handler`, `ngx_process_get_status` | children (channels, `kill`, `waitpid`), administrator (signals), `ngx_init_cycle` |
| workers and cache processes, `ngx_process_cycle.c` | flags, the channel, a copy of the channel ends of the other children | `ngx_channel_handler`, the cycles, exit | master |
| upstream, `ngx_http_upstream_*.c` | per peer weights, connections, failures, times; per request the list in use, the bitmap `tried`, `tries`, the hash | `init`, `get` for three methods, `free` | requests (the HTTP upstream code) |
| cycle, `ngx_cycle.c` | configuration, listening sockets, open files, shared zones, pid file, old cycles | `ngx_init_cycle` with rollback, reopening of files, cleaning of old cycles | master, single process, event timers (the cleaner) |
| event timers, `ngx_event_timer.*`, `ngx_rbtree.*` | the tree of keys, `timer_set` | add, delete, find, expire, the test for timers left | loops of the worker and the cache manager, handlers called while timers expire |
| radix tree, `ngx_radix_tree.*` | nodes, free list, page in use | create, insert, delete, find | memory pool (pages) |
| memory pool, `ngx_palloc.*` | blocks, `current`, `failed`, entries of large pieces, cleanup entries | small, large and aligned pieces, cleanup of files, free, reset, destroy | all of the above |
| array, list, queue | elements | growth | all of the above |

Hard behaviour, by part:

- **Thread pool.** True threads. A post signals the condition *before* it appends the
  task; `waiting` is a difference that may be negative; one node links a task into
  three lists one after the other; pools share the done list; the exit task is on the
  stack of the function that posts it again for each thread. Correct means: an accepted
  task is run once and completed once, no wakeup is lost, the limit of the queue means
  what it says, destruction leaves no thread and no task behind.
- **Master.** Signals set flags, the round looks at them in a fixed order and may
  `continue` past the rest; children end at any time, several under one `SIGCHLD`; the
  table shrinks and its slots are reused; an upgrade can be rolled back by a signal or
  by the death of the new binary; channels may be full, `kill`, `fork` or the loading of
  a configuration may fail. Correct means: no child is forgotten, a stopping master
  starts nothing, leaves last, and does leave; a worker that died is replaced; a reload
  or an upgrade ends with the right number of workers; children know each other.
- **Upstream.** Requests interleave between `get` and `free`; failures, retries, limits
  and time change which peers take part in a turn. Correct means: connections are
  accounted for, weights neither drift nor leave their range, shares are in proportion,
  a request tries each peer once and gives up only when nothing is left, a disabled peer
  gets one check at a time.
- **Cycle.** A reload builds the new cycle beside the old one, lends it descriptors and
  shared memory, and only then either closes what the old one alone had or takes
  everything back; any call in between may fail. Correct means: what the configuration in
  force uses is there at every step, nothing else is left between loads, a socket both have
  is never closed, and an old cycle kept for its connections goes with the last one.
- **Timers.** Keys wrap around; a timer set again may keep its old time; handlers set and
  delete timers while the loop takes them out. Correct means: the leftmost node is the next
  timer, none goes off early or late by more than the lazy delay, a worker told to leave
  does although its connections set theirs again.
- **Radix tree, pool.** Nodes and entries are reused in other places; an insertion or an
  allocation may end half-way. Correct means: a search finds the longest prefix, no node is
  lost or in two places; pieces do not overlap, a large piece and a file have one entry each.

## Modules

| module | models | notes |
|---|---|---|
| `TaskPool` | what a pool promises to those who post tasks | abstract specification |
| `ThreadPool` | `ngx_thread_pool.c` at run time | implements `TaskPool` |
| `ThreadPoolProperties`, `MCThreadPool` | properties, fairness; instances | |
| `ThreadPool_proof` | types, `waiting`, where tasks are; `TaskPool` is implemented; wakeups, announcements, the end of a pool | TLAPS |
| `Master` | master, process table, children, channels | |
| `MasterProperties`, `MCMaster` | properties, fairness; instances | |
| `Master_proof` | the process table, signals, no process for a master that stops, its exit, the children's views, the number of workers | TLAPS |
| `Cycle` | `ngx_init_cycle`, reopening, old cycles | implements `Reload` |
| `Reload` | what a reload promises to the outside | abstract specification |
| `CycleProperties`, `MCCycle` | properties, fairness; instances | |
| `Cycle_proof` | the cycle in force, what loads leave, `Reload` is implemented | TLAPS |
| `Timers` | event timers, the loops of worker and cache manager | |
| `TimersProperties` | properties, fairness | |
| `Timers_proof` | the order of the tree, timers go off in time | TLAPS |
| `RadixTree`, `Pool` | the structures, with their properties | |
| `RadixTree_proof` | the nodes of a radix tree, searches | TLAPS |
| `Pool_proof` | theorem about `Pool` | TLAPS |
| `MCStructures` | instances of `Timers`, `RadixTree` and `Pool` | one at a time |
| `Upstream` | peers and the three ways to choose one | |
| `UpstreamProperties`, `MCUpstream` | properties; instances | |
| `Sums` | induction over finite sets, sums over them | TLAPS |
| `Upstream_proof` | types, connections, the choice of peers, checks of disabled ones, the balance of the weights and the shares | TLAPS |

An operator whose comment says "Mutant of X" is not part of a specification: it is X
with a plausible mistake, kept to see that a property notices the mistake.

### ThreadPool

`main` says where the event loop thread is (`user` between calls; `post`, `append` inside
`ngx_thread_task_post`; `next`, `destroy`, `spin` inside the exit of the worker), `pc[th]`
where each thread of `ngx_thread_pool_cycle` is: `enter` at the lock, `test` holding the
mutex at the `while`, `sleep` and `woken` in `pthread_cond_wait`, `run`, `append`,
`notify`, and `exited` (exit task), `dead` and `lost` (failed call). `queue`, `waiting`,
`mtx`, `done` are the fields of that name, `active` the tasks with `event.active`. Each
action is the code between two points at which another thread can observe or change
something. `CondWait` releases the mutex and sleeps at once; `Signal` wakes one sleeper or
nobody; `SpuriousWakeup` wakes anyone. The exit task's spin is the pair `DestroyPost`,
`DestroySpin`. `call` holds the arguments of the post under way, so that the same actions
serve modules that post tasks (also from a completion handler, inside `batch`) and
`ngx_thread_pool_destroy`. Every call whose result the code looks at can fail, `MaxFaults`
times, and so can `ngx_notify`, whose result it does not use; unlocking a mutex and
destroying it do not fail where the code ignores the result.

### Master

`at` is the place in a round: `suspend` is `sigsuspend`, `reap` and `signal` are the loops
over the table, and `check`, `reconfigure`, ..., `noaccept` are the tests of the flags in
their order. `loop` holds the index and what follows. The master blocks all signals outside
`sigsuspend`, so handlers run in one place only, `Deliver`, for any set of pending signals,
and a round is otherwise the master's own steps interleaved with those of the children.
`proc`, `last`, `slot` are `ngx_processes`, `ngx_last_process` and `ngx_process_slot`; a
start that fails leaves them as far changed as the call got (`SpawnFailed`,
`ChangeBinaryForkFails`). A channel is named by the pid it was made for; `inbox` is what is
in it, `ChannelSize` what fits. `view[p]` is the copy of the `channel[0]` fields that child
`p` inherited and then keeps up to date from open and close messages. Both ends stay open
in the master, so a write to a dead child succeeds. A child is `init`, `run`, `exiting`,
then `zombie` and `reaped`. An exit code of 2 stands for the fatal errors of
`ngx_worker_process_init`.

### Upstream

A configuration (method and servers) is chosen in `Init` from the constant `Upstreams`.
`peer` holds the fields of each peer, `req` what a request keeps between calls, `now`
is `ngx_time()`. The lock macros are empty and a worker is single-threaded, so a `get` is
one action: `GetSingle`, `GetIpHash` (the hash finds a peer within its 20 tries), `GetPeer`
(round robin, least connections, or the fall-back of the hash), `GetBackup` and `GetBusy`;
`Free` is `ngx_http_upstream_free_round_robin_peer` with the outcome of the request, after
which the caller may retry while tries are left. The loop over the list is stated as what
it computes: the available peers gain their effective weight, the first of the richest
pays for all. The hash is computed with the code's own arithmetic on the bytes of the
address; `Hashes` is the chain of values and `req[r].hash` the place of the request in it.
`past`, `since`, `served` and `failures` are history that no action looks at, except
that the bounds on picks and failures count in them.

### Cycle

`at` is the place in `ngx_init_cycle`, `i` the index of its loops over files, zones and
sockets; `old` and `new` are `old_cycle` and `cycle`, each with the fields that the code
compares. A descriptor is a number, the lowest free one, and `fds` says what it refers to,
so a descriptor closed twice or kept too long is seen. `shm`, `pidfiles` and `sockfiles`
are what exists outside the process. A configuration is what its reader makes of it:
declarations of zones, names of files, addresses, a pid file, whether a module takes over
the environment. `ReadConf` to `Finish` are the stages of a load in their order; each call
that can fail has an action of its own that goes to `failed`, and `Rollback` is the label
of that name. From the commit on (`Committed`) no call can take a load back: keeping the
old cycle may fail (`KeepFails`), and then the process exits. `mode` is a master, a single
process, which keeps old cycles while connections live and cleans them from a timer, or a
test of the configuration, which exits. `Inherited` gives the sockets of an old binary.
Hidden from the outside the whole is `Reload`: asked for, a configuration comes into force
in one step or not at all, and the sockets that both have are the same ones afterwards.

### Timers

The tree is the sequence of its nodes from left to right; `ngx_rbtree_insert` puts a node
where the comparison of `ngx_rbtree_insert_timer_value` leads, and the rotations, which do
not change this order, are left out. `now` is `ngx_current_msec` modulo `Msecs`.
`process` is a worker (`top`, `wait`, `events`, `expire`, `flags` are the places of its
loop, `exited` the call of `ngx_worker_process_exit`) or the cache manager. `Wait` is the
call of epoll: at most until the first timer, less if an event or a signal ends it, more if
the process comes late. Handlers of connections may set and delete any timers, their own
included, and set one again while timers expire. `timers.left` is history: how long it
still is until the time that was asked for.

### RadixTree and Pool

Nodes are numbered in the order they are cut from the pages; `left`, `right`, `parent`,
`value`, `free_list`, `start` and `size` are the fields of that name. A key with its mask is
the sequence of the bits of the key that the mask covers, since the code looks at no others.
`Way` is the walk from the root that insert, delete and find begin with; the loops of insert
(`Grow`), delete (`TakeOut`) and create (`InsertAll`) are functions from the number of turns
to what they have made. `routes` is history: what a user of
the tree believes to be in it. `crashed` is set where a deletion of the empty prefix from an
otherwise empty tree dereferences the parent of the root.

A block of a `Pool` has the fields `last` and `failed`; its pieces are intervals of
offsets. `large` is the list of entries, each with the place of the entry and the large
piece it is for; `heap` is the large pieces in use. `cleanup` is the list of cleanup
entries, of which those for files are told apart by their handler; `files` is the
descriptors that the pool has to close, and the system gives the lowest free one, so that a
number comes back after `ngx_pool_run_cleanup_file`. `pieces` is history. Functions that
may allocate return the set of their outcomes, so that one call in a call can fail. Data of
a cleanup entry that no block has room for is a large piece (`ngx_pool_cleanup_add_large`).
`ngx_reset_pool` leaves the cleanup entries in their list although it takes their memory
back: `spoiled` records this and the behaviour ends, as what follows is undefined.

## Runs

| run | question | bounds |
|---|---|---|
| `threadpool` | no lost wakeup; completion and termination under fairness | one pool of 2 threads, 2 tasks, `max_queue` 1, no failures |
| `threadpool_faults` | counters, lists, exit task, destruction, refinement of `TaskPool`; two pools, failures | 2 + 1 threads, `max_queue` 1 and 0, 2 tasks, any one call fails |
| `master` | supervision, reload, orderly end, termination of children that never react | 1 worker, 2 signals of quit, terminate, reconfigure, reopen, SIGIO, 1 crash |
| `master_upgrade` | upgrade of the binary and its rollback, tables of the children | 2 workers and a binary, 2 signals of quit, change-binary, no-accept, 1 crash |
| `master_faults` | failing system calls, full table, full channels | worker, cache manager and loader for a table of 2, channel of 1 message, 2 failures, 2 signals, 1 crash |
| `master_orphan` | violated: the master leaves last | upgrade, no-accept, reconfigure, quit |
| `master_close` | violated: children forget the channels of the dead | worker, manager and loader, 1 crash |
| `upstream` | accounting, weights, shares, choice, checks | 5 blocks of up to 3 servers, 2 requests, 5 picks, 2 failures, 2 seconds |
| `upstream_check` | violated: only a check enables a disabled peer | 2 servers, 3 requests, 2 failures |
| `cycle` | sockets, files, zones and pools through reloads that fail anywhere; refinement of `Reload`; old cycles | 3 loads of 5 configurations, 1 failing call, 3 modes, 3 inherited sockets |
| `cycle_rollback` | violated: a rolled-back load changes nothing | 2 configurations |
| `structures` | order and punctuality of timers, exit of a worker; longest prefix, nodes accounted for; pieces disjoint, entries accounted for | 2 connections, time modulo 10; 3 bits, 4 nodes; 4 blocks, 2 large pieces, 2 files, `FailedLimit` and `LargeLimit` 0 |

Why the bounds are enough. Two threads and two tasks give every race of a pool: two
threads for one wakeup, a second task posted while the first is anywhere, an exit task
behind a task. A queue of one and of zero reach the overflow with and without idle
threads. For the master, each hazard needs one child in the middle of the table and one
at its end, and at most two signals in one round with one death; the two violated runs
show what longer sequences of signals reach. The table of two slots is full after one
upgrade or reload. `FirstDelay` and `KillDelay` keep the doubling of `delay` but need
fewer rounds than 50 and 1000 ms; once beyond `KillDelay` the wait stops growing, since
nothing depends on its length. For the upstreams, five picks make one full round of
the total weight (3 + 1 + 1), two failures disable the heavy server, two seconds pass its
`fail_timeout` of one, and two requests compete for the check of a disabled peer.

Three loads are what it takes for a load that fails to come between two that succeed, with
marks left in the old cycle, and for a second old cycle to be kept beside the first; the
five configurations share, drop, add and resize zones, name one zone twice, move a pid
file, use one socket per worker and are refused early and late. Ten values of time wrap
around every few timers, as the delays (1, 3 and a lag of 1) are within half of them; two
delays, one of them further than the lazy delay from the other, reach both branches of
`ngx_event_add_timer`, and two connections let a handler disturb another timer than its
own. Three bits give paths with two inner nodes to prune, and four nodes in two pages make
an insertion run out half-way. Four blocks with the limits on failures and on entries
lowered to 0 let `current` move twice and the search for an unused entry give up.
`structures` puts the three in one run, `what` chooses which of them a behaviour uses.

`CHECK_DEADLOCK FALSE` stands where the system may stop: an exited process, or the bound
on requests used up.

### What the violated runs show

- `master_orphan`. The master of a rolled-back upgrade (USR2, WINCH, then HUP) starts its
  workers again at `ngx_process_cycle.c:213-219` without setting `live`, as the two other
  branches that start workers do. Quit it then and it exits at once; the workers it has
  just started go on without a master.
- `master_close`. `ngx_reap_children` sets `ch.command` and `ch.fd` once, before its loop,
  and overwrites them after a respawn. If the respawned child is followed by another that
  ended, the others are told to open a channel for its slot instead of to close it.
- `cycle_rollback`. `ngx_init_cycle` deletes the old pid file (`ngx_cycle.c:333`) before it
  knows that the new configuration will do, and "rollback the new cycle configuration"
  (`:818`) does not bring it back: after a reload that failed, the pid file of the
  configuration in force is gone.
- `upstream_check`. The comment "mark peer live if check passed" does not say what
  `accessed < checked` tests: the answer to a request that was sent before the peer's
  failures enables it while the check has not been answered.

### Left out of the runs on purpose

`NoExtraWorkers` is checked for the orders of signals that the code is written for. It
does not hold if the administrator reconfigures a master that has a new binary but was
never told to stop accepting, nor if the start of the new binary failed (`ngx_new_binary`
is then -1, which `:213` takes for a pid). `ViewsAgree` is checked with channels that hold
all messages, since the code ignores `NGX_AGAIN` by its own admission (`:431`, `:573`).
`SignalsOwnChildren` and `DoneIsAnnounced` exempt runs with failures, `ViewsAgree` those
in which a cache loader ends next to a respawn (`master_close`).

## Fairness

- A thread that can step does (weak fairness for each step of a thread), and one that
  finds a mutex free again and again gets it (strong fairness of `Enter` and
  `Reacquire`): what a preemptive scheduler and a fair mutex give. `SpuriousWakeup`
  and failures are never obliged to happen.
- The event loop goes on serving notifications between other work (strong fairness of
  the steps of the handler), and finishes a call it has begun.
- The master and its timer go on (`FairSpec` of `MasterProperties`). Where a property needs
  the children to read their channels and their connections to end, it says so in a
  premise, `ChildFairness`; termination (`TerminateKills`) assumes nothing of them and
  relies on `SIGKILL`.
- A load of a configuration and a reopening of files go on to their end, and the event loop
  comes to the timer of the cleaner between two loads again and again (strong fairness,
  since further loads may always begin). That connections close is a premise of
  `OldCyclesFreed`, not an assumption.
- The loops of worker and cache manager go on, epoll returns when the first timer is due or
  at a signal, and time passes: not every wait is of length 0 (strong fairness). Nothing is
  assumed of connections: they may set their timers for ever.
- No fairness is assumed of administrators, crashes or failures, and `Upstream`, whose
  progress depends on its callers, claims no liveness.

## Proofs

### Thread pool

Proved for any finite set of threads, any pools, tasks, limits and numbers of failures,
from `PoolAssumption` alone, which TLC evaluates in every run of the pool. It says that
each pool has at least one thread: `ngx_thread_pool` refuses a pool without the parameter
`threads`, the default pool has 32.

`ThreadPool_proof`:

- `TypeCorrect`: `Spec => []TypeOK`. The inductive invariant `TypeInv` adds what a thread
  and the event loop hold at each place: a thread at `run` has a task, one at `append` a
  task that is not the exit task, since that thread never returns from its handler.
- `WaitingCorrect`: `Spec => []WaitingAccounts`, `tp->waiting` is the length of the queue
  less the threads that have announced themselves. The inductive invariant `CountInv` adds
  that the post under way passed the test of `max_queue` and still holds the mutex, which
  is why no thread changes `waiting` between the test and the increment. The lemmas
  `IdleSame`, `IdleMore` and `IdleLess` say how the number of idle threads changes with one
  thread's step; `CountFrame` carries both counts over steps that leave them alone.
- `QueueBoundCorrect`: `Spec => []QueueBounded`, from the same invariant.

About the tasks:

- `OnePlaceCorrect`: `Spec => []OnePlace`, a task is in one place of one queue, with one
  thread, in the list of finished tasks or in the event loop's batch, never in two.
- `ExitTaskCorrect`: `Spec => []ExitTaskIsOurs`.
- `TasksCorrect`: `Spec => ImplementsTaskPool`, every step of the pool is a step of
  `TaskPool` or leaves its state alone.

The last three rest on `PlaceInv`, of three parts. `Apart` says that the places share no task and
that every task in one of them is `active`. That a task is put somewhere only once
depends on the test of `event.active`, which is made before the mutex is taken: `PostInv`
says that between `ngx_thread_task_post`'s test and its append the task is nowhere yet, and
that the exit task is queued only while the event loop spins on its `lock`. `HoldInv` says at
which places a thread has a task and when there is a batch. The refinement maps an abstract task to
the place `PlaceInv` says is the only one, so each of the 20 steps either moves one task
between abstract states or none.

About the threads:

- `AnnouncedCorrect`: `Spec => []DoneIsAnnounced`, finished tasks do not wait without an
  announcement of them to the event loop, unless `ngx_notify` failed.
- `WakeupCorrect`: `Spec => []NoLostWakeup`, while no call has failed and a thread of the
  pool sleeps, at least as many are awake as there are tasks queued or about to be. It needs
  `MutexInv`: a mutex is owned by whoever is at a place where the code holds it, so a thread
  that saw an empty queue is asleep before anyone can append to it.
- `DestroyedCorrect`: `Spec => []DestroyedIsQuiet`, when the mutex and the condition of a
  pool are destroyed all its threads have exited and its queue is empty. `LeaveInv` counts:
  as many threads have exited as exit tasks were taken (`ExitCount`), one at a time; an exit
  task is the last of its queue (`ExitPlace`), so all other tasks have been run before.

### Master

`Master_proof` proves, from `MasterAssumption` (a table of at least one slot beyond the
last used, as `NGX_MAX_PROCESSES` of 1024 gives), for any kinds of children and any sizes,
signals, crashes and failures:

- `MasterTypeCorrect`: `Spec => []TypeOK`. `TypeInv` adds the types of the loop's record
  and of the messages, and with what each loop can be entered.
- `NobodyForgotten`: `Spec => []NoForgottenChild`, a child not waited for is in exactly one
  used slot, not marked `exited`. `TableInv` relates the table to the processes: its pids
  were given out (`KnownPids`), no two slots have the same (`OneSlotEach`), `exited` is set
  exactly for those waited for (`ExitedIsReaped`), pids are given out in order
  (`PidsInOrder`), and who was created and not waited for is in the table (`NobodyLost`).
  What could break it is the choice of a slot: `NewSlotFree` says that the slot
  `ngx_spawn_process` finds is unused, and `ngx_last_process` shrinks past a slot only once its
  child was waited for. It holds through every failed `fork`, although then the slot keeps
  its old pid.
- `SignalsCorrect`: `Spec => []SignalsOwnChildren`, while no call has failed no signal goes
  to a pid that was waited for already. `FaultlessInv`: a slot marked `exited` lasts no
  longer than the reaping that follows, which has yet to reach it.
- `LeavesLastCorrect`: `Spec /\ [][~WorkersAgain]_vars => []MasterLeavesLast`. Without the
  premise the property is false: the run `master_orphan` shows how the branch that
  starts workers again after a failed upgrade forgets to set `live`
  (`ngx_process_cycle.c:213`). The theorem says that this branch is the only reason: when it is not
  taken, no worker is left when the master exits. `LiveInv` says what `live = 0` means at
  each place: among the slots `ngx_reap_children` has passed, only exited and detached
  children. Steps that create processes set it, `ngx_reconfigure` only at its end.
- `NoSpawnCorrect`: `Spec => NoSpawnWhenStopping`, a master that was told to quit or
  terminate creates no process. The property is about a step, so it needs an invariant
  that says where a stopping master cannot be: `OnwardInv`, from the test of
  `ngx_reconfigure` to the end of the round neither flag is set, and a loop over the table
  that will return there (`loop.then`) was entered without them. It holds because signals
  are delivered in `sigsuspend` only; `ngx_reap_children`, which comes before the test,
  looks at the flags itself (`Respawns`). This one needs no assumption on the constants.

- `ViewsCorrect`: `Spec /\ []NothingLost => []ViewsAgree`. The messages in a child's channel
  are the difference between its view and the table: `WillKnow` is what it will take the
  channel of a slot to be once it has read them, and by `WillAgree` that is what the master
  has. `KnowAppend`, `KnowTold` and `KnowRead` carry it over a message about another slot,
  about this slot, and over reading one; `ViewSpawn` over `ngx_spawn_process`, which forks a
  copy of the table and then tells the others. `OwnChannels` says that a slot has its own process's
  channel, so what is announced is right. `NothingLost` names the three ways in which the
  property fails: a call that failed, a message that found the channel full, and a slot given up
  after a respawn in the same pass of `ngx_reap_children`, which is the
  finding of `master_close`. TLC found `ViewInv` to hold in 4.56 million states with that premise.
- `NoExtraCorrect`: `Spec => [](budget.faults = MaxFaults => NoExtraWorkers)` if `Signals` do not
  include both `reconfigure` and `change_binary` (`NoUpgradeReload`). `CountInv` counts:
  while workers are started, those that serve are at most as many as the loop over `Kinds`
  has passed; then they are `WorkerProcesses`. While a new configuration's workers are
  started, only those `just_spawn` count, and while the others are told to quit, those the
  loop over the table has passed too: `JustInv` says `just_spawn` is set exactly for
  what that loop has yet to pass over. Without `SIGHUP` workers are started again only after the new
  binary has gone, by `ngx_restart`: `PauseInv` says that all that served were told to leave
  by then. TLC found the invariant to hold in 13 million states first. `SettlesMaster` says that every other
  step adds nobody.

### Timers

`Timers_proof` proves, from `TimersAssumption` (an even number of values of `ngx_msec_t`, delays
and lateness of the loop that together are less than half of it, as the comment in
`ngx_rbtree_insert_timer_value` says, finitely many connections), for any of these:

- `OrderedCorrect`: `TimersSpec => []TimersOrdered`, and `InTimeCorrect`: `TimersSpec => []InTime`.

The invariant `TimersInv` measures every key from the current time (`Ahead`): none is
further ahead than the longest delay, and none is overdue, except from a wait to the
end of the expiring that follows it, and then by no more than the loop was late (`Low`).
So all keys lie in less than half of the values, where the difference of two keys is that of
their times (`Difference`), and as time goes on all come nearer alike (`Nearer`).
`ngx_event_find_timer` is what keeps it so: the loop waits for the leftmost node, which is
the first only because the tree is in order. A key that is kept lazily is not bounded by the delay
asked for, but was itself once asked for with some delay. `Place` says where the tree puts a
node, `PutSound` and `RemoveSound` that the order and the nodes of other events stay;
closing many connections is a fold, done by induction over the set closed (`CloseSound`). TLC
found `TimersInv` to hold in the 840,660 states of the run `structures` first.

`ngx_event_del_timer` and `CloseAll` take out nodes one by one. With the library's `SelectSeq`,
which takes a predicate, there would be nothing to cite about them.

### Radix tree

`RadixTree_proof` proves, from `RadixAssumption` (keys of at least one bit, pages of at least
one node, at least one page, preallocation within the width), for any such sizes:

- `RadixCorrect`: `RadixSpec => []RadixInv`. `NodesAccounted` and `FindsLongest` are not
  inductive: they do not say which prefix a node stands for. `Sound` does. It has a function
  `net` from the nodes in the tree to different prefixes, the root to the empty one and each child to its
  parent's with one bit more (`Placed`), says that exactly the prefixes in `routes` have a
  value (`Valued`), that the other nodes below `start` are a list, each once (`Listed`), and
  that `start`, `size` and the pages to come fit the nodes there are (`Room`). An invariant
  that all nodes without a value have children would be false: an insertion that ends
  half-way leaves a leaf with no value, and so does `ngx_radix_tree_create`.
- `FindsCorrect`: `RadixSpec => []FindsLongest`, and `AccountedCorrect`:
  `RadixSpec => []NodesAccounted`.

The key is `WaySound`: at depth d of the way of a key is the node whose prefix is the first d
bits, if there is one. What one turn of a loop does is proved for one turn: `GrowSound` hangs
a new node under one that has no such child, `CutSound` takes out a leaf. `GrowTurn` and `CutTurn`
say what holds after each turn; in deletion that a node whose last child went and that
does not stay is now a leaf (`Cutting`). A loop is a recursive function in the model, that
is, a `CHOOSE` of one that satisfies an equation, so it needs a proof that there is one:
`Turns` gives it from what each turn takes and returns, by the least number for which there
would be none, since an induction rule with an operator as parameter cannot be used.
`ngx_radix_tree_create` is three such loops in one another. That the list of free nodes ends
within as many steps as there are nodes is the pigeonhole principle (`ListShort`).

### Pool

`Pool_proof` proves, for any sizes, alignment, limits and bounds that `PoolAssumption`
admits (blocks of a multiple of the alignment, entries that fit in them):

- `PoolCorrect`: `PoolSpec => []PoolSound`. The inductive invariant `PoolInv` replaces "no
  piece reaches past its block" by `BlocksSound`: every piece of a block ends at or before
  the block's `last`, so that what is cut from there is apart from all others. The
  room left in `ngx_palloc_small` is an unsigned difference; `AlignedUp` is the lemma that makes
  it safe, an aligned start is never past the end of a block whose size is a multiple of
  the alignment. `SmallSound` says it for one allocation from any state of the pool, so that
  a call that allocates twice (`ngx_pool_cleanup_add`) uses it twice, and `LargePieceKeeps`
  does for a large piece after another allocation. `LargeInv` and
  `FileInv` say that entries and large pieces, and entries and files, correspond one to one.

### Upstream

Proved for any upstream blocks, requests, client addresses, times and bounds, from
`UpstreamAssumption`: weights are positive, a block has a server that is no backup, one of
`ip_hash` no backup at all, the time is past every `fail_timeout`, there are finitely many
requests.

`Sums` has the induction that the theorems about peers need. The library's induction
theorems take a predicate, which cannot be passed here; `SmallestBad` says instead that among
sets of subsets of a finite set there is one none of whose elements can be taken away, and
a counterexample of least size refutes itself. With it: `SumFunctionOnSet`, which folds a set in
the order in which `CHOOSE` finds its elements, is well defined (`SumExists`, `SumUnique`),
does not depend on the set it is a part of (`SumOfPart`), and allows to take out any element
(`SumRemove`); from there the usual laws of sums.

`Upstream_proof`:

- `PeersTypeCorrect`: `Spec => []TypeOK`, and `ConnsCorrect`: `Spec => []ConnsAccount`. The two
  need each other: that `free` does not count below 0 is because the request that frees
  a peer is one of its holders, and `TypeInv` adds that who holds a peer holds one of the block's.
  `GetOutcomes` sums up a call of get, whatever the method and the turns it took on the
  way: the only peer, one of the candidates for the data `q` of the request or of its
  change to the backup servers (`Follows`), or NGX_BUSY with nobody left. It needs that the
  best peer exists (`RichestExists`, `LeastExists`), by the same induction.
- `NeverTwiceCorrect`: `Spec => NeverTwice`, and `NotPassedOverCorrect`: `Spec => NotPassedOver`.
  `HistoryInv` compares the bitmap with the past of the request: what was given out is in
  `tried`, or was before the change to the backup servers and is in the other group; what
  is in `tried` was given out. A single peer, which is given without the bitmap, has no
  second try.
- `OneProbeCorrect`: `Spec => OneProbe`. `ProbeInv`: a peer that has failed too often was
  last given out no later than it was last `checked`, for both ways to get there renew the time.

About the shares:

- `BalanceCorrect`: `Spec => []WeightsBalance`. In one turn all peers that take part gain
  their effective weight and the chosen one pays the total (`SumOnePays`), whoever they are.
- `ShareCorrect`: `Spec => []Proportional`. While nothing failed the current weight of a peer
  is what is due to it less what it got (`ShareInv`), and more than minus the total weight,
  because who is chosen is the richest and the riches add up to the total weight,
  so that its own are positive (`RichestGains`). From there a peer is never ahead by a
  whole request. That it is behind by less than one for each other peer follows from
  the balance, and so does the share after a full round: the weights are then multiples of
  the total above minus the total, and numbers that are not negative and add up to 0 are 0.

The bound below is not one request: with five servers of weights 5, 1, 20, 1 and 20 one
falls behind by more than a request before it catches up. The runs have too few servers to
show it.

Not proved is `EnabledByCheck`, which `upstream_check` refutes.

### Cycle

`Cycle_proof` proves, for any configurations, numbers of loads and failures and any
sockets inherited from another binary, from `CycleAssumption`: a configuration has sequences of
zones, files and listening sockets, its pid file has a name (`NGX_PID_PATH` where it
gives none), and a unix path is listened on once, in a configuration and among inherited
sockets. The number of zones of a configuration is not bounded; how they are read is a
fold, and that it gives each name once (`ParsedWellRead`) is proved by an induction over
how many declarations have been read, of the kind that `Sums` has for sums.

- `IntactCorrect`: `Spec => []InForceIntact`, and `LeftCorrect`: `Spec => []NothingLeft`, both from the
  invariant `Inv` (`InvCorrect`), which holds until the process exits.
- `ReloadCorrect`: `Spec => ImplementsReload`, every step of the load is a step of `Reload` or
  leaves its state alone.

`Inv` has a part for each thing a cycle has, and each says for every place of the load what
has been done to which entry. `FilesInv`: files of both cycles are open and no two have one
descriptor; entries the loop has not reached have none (`FilesUntouched`). That is
what makes the rollback, which closes all with a descriptor, close only its own.
`SocketsInv`: a new socket is either opened by this load or taken over from an old one
(`EitherOr`), and an old one that is marked to remain has been taken over by a new one
(`RemainsTaken`): after the commit those not marked are closed, and after a
failure those that were opened, and neither set has a socket, or the path of one, that
the cycle in force uses. `Accounted`: each descriptor has a user. `ZonesInv`: a zone of the
new cycle is its own or that of an old zone that `ngx_init_cycle` keeps for it. Segments are told
apart by the cycle that made them and the zone's name, and names are distinct, so the loops that
compare addresses to free zones free none of the new cycle. `PoolsInv`: the pools are those
of the cycles at hand and of old ones; cycles are numbered as they are read
(`Numbered`), so the new one is none of the old.

The refinement needs three more facts (`Offered`): the new sockets are those of the
configuration (`NewPlaces`), no two descriptors are of the same socket (`RecordsOnce`), and
if a new socket had to be opened, every old one at its address had been taken over
(`AllCompared`). So at the commit either all new sockets at an address are old ones, or all
old ones are kept (`SucceedStep`): with `AllCompared` one of the two sets at each address
contains the other, and the common sockets are as many as the smaller has. The steps after
the commit only close what is no longer in force; those before it only open
(`ForceStays`).

TLC found `Inv` and `Offered` to hold in all 442,463 states of the run `cycle` before they were
proved. Not proved are `RolledBack`, which `cycle_rollback` refutes, and `OldCyclesFreed`, which
is liveness.

### What stays with TLC

Out of the prover's reach: liveness under fairness (`EveryTaskCompletes`, `ExitTerminates`,
`StopTerminates`, `TerminateKills`, `Supervised`, `OldCyclesFreed`, `ShutdownEnds`).

Every invariant and every action property of a run that passes is stated by a theorem. The runs that
expect a violation refute theirs; where one of those is also proved, a premise excludes the fault.

Two theorems about the master have premises because the properties are false without them. For
`ViewsCorrect` they are those of `NothingLost` above. For `NoExtraCorrect` it is that no
administrator sends both `SIGHUP` and `SIGUSR2`: `SIGHUP` while a master that stopped its
workers (`SIGWINCH`) waits for a new binary starts workers, and the exit of that binary starts them
again. A new binary that could not be started leaves `ngx_new_binary` at -1, which `:213` takes for a
pid, so no call may have failed either.

## What is not modelled

- The event loop, connections, the HTTP core and the configuration reader are not in the
  repository. `ngx_notify`, `ngx_write_channel`, `kill`, the condition variable and the
  callers of an upstream are modelled from how this code uses them.
- `ngx_init_cycle` and `ngx_exec_new_binary` either succeed or fail in `Master`. `dd` at
  `ngx_process_cycle.c:246`, which is declared nowhere, is read as `NGX_PROCESS_RESPAWN`,
  what the same call has at :116 and :215. A pid is not used again; descriptors are named by
  what they refer to, so the reuse of a number after a double close is not seen. The
  master is the daemon: its parent is not another master.
- `ngx_http_upstream_create_round_robin_peer`, SSL sessions, `ngx_unlock_mutexes`,
  configuration of pools and upstreams.
- Of `ngx_cycle.c`: the command line that sends signals (`ngx_signal_process`), options of
  sockets, a reload while an upgrade is under way. `ngx_shutdown_timer_handler` closes all
  connections here, as the handlers of the HTTP code do when they see the marks.
  `worker_shutdown_timeout` is set: without it a worker may wait for its connections
  for ever.
- The red-black tree below the timers, but for its order. `ngx_rbtree.c` does not compile at
  this commit (nodes have no field `p`, `:154` and `:332`), `ngx_rbtree_right_rotate` leaves
  the parent of the node that moves up unset, and `ngx_rbtree_transplant` expects the
  parent of the root to be the sentinel where `ngx_rbtree_insert` sets NULL. `Timers` takes
  the tree to be what its header says.
- Arrays: `ngx_array_init` tests `elements` and never sets it, so that each later call is
  undefined. Lists and queues, which only the configuration uses here.
- The cache loader's handler, which runs once and exits; the wrappers of `malloc`, and the
  zeroing of `ngx_pcalloc`.

## Plan

1. Thread pool: modelled, all of its invariants and the refinement proved.
2. Master: modelled, the table, signals, the exit, the children's views and the number of
   workers proved.
3. Upstream: modelled but for peers of one request. All properties that hold are proved.
4. `Cycle`: modelled, its invariants and the refinement of `Reload` proved.
5. `Timers`: modelled, the order of the tree and the times of timers proved.
6. `Pool` and `RadixTree`: modelled and proved.
