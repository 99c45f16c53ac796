----------------------------- MODULE ThreadPool -----------------------------
(***************************************************************************)
(* The thread pools of one worker process (ngx_thread_pool.c): the event   *)
(* loop thread ("Main") posts tasks and runs their completion handlers,    *)
(* the threads of each pool take tasks from the pool's queue under its     *)
(* mutex, run them, and hand them back through one "done" list that all    *)
(* pools share and a notification of the event loop.                       *)
(*                                                                         *)
(* The two linked lists are sequences here.  What happens while a pool's   *)
(* mutex is held is split into steps wherever the code can leave the       *)
(* critical section by another way; the short spinlock sections around the *)
(* done list are single steps.                                             *)
(***************************************************************************)
EXTENDS Integers, Sequences, FiniteSets, Functions

CONSTANTS Pools,      \* the pools the configuration names
          Threads,    \* the threads of all pools
          PoolOf,     \* the pool a thread belongs to
          Tasks,      \* ngx_thread_task_t objects of the modules using pools
          MaxQueue,   \* tp->max_queue of each pool (0 is accepted by the parser)
          MaxFaults,  \* bound on the failures of pthread and notify calls
          Exit,       \* the task on the stack of ngx_thread_pool_destroy
          Main, None  \* the event loop thread; "no owner" and "no task"

ASSUME PoolAssumption ==
    /\ IsFiniteSet(Threads)
    /\ PoolOf \in [Threads -> Pools]
    /\ \A p \in Pools : \E th \in Threads : PoolOf[th] = p  \* "threads" is not 0
    /\ MaxQueue \in [Pools -> Nat]
    /\ MaxFaults \in Nat
    /\ Exit \notin Tasks /\ None \notin Tasks /\ Exit # None
    /\ Main \notin Threads /\ None \notin Threads /\ Main # None

VARIABLES
    main,       \* where the event loop thread is
    call,       \* arguments of its current ngx_thread_task_post
    handling,   \* is it inside ngx_thread_pool_handler?
    batch,      \* rest of the list that handler took from the done list
    leaving,    \* pools ngx_thread_pool_exit_worker has not come to yet
    posted,     \* n in ngx_thread_pool_destroy
    lock,       \* the flag ngx_thread_pool_destroy spins on
    destroyed,  \* pools whose condition and mutex have been destroyed
    active,     \* tasks with event.active = 1
    mtx,        \* owner of each pool's mutex
    queue,      \* tp->queue
    waiting,    \* tp->waiting
    done,       \* ngx_thread_pool_done
    notified,   \* a notification is pending in the event loop
    pc,         \* where each pool thread is
    held,       \* the local variable task of each pool thread
    faults      \* failures so far

handlerVars == <<handling, batch>>
exitVars == <<leaving, posted, lock, destroyed>>
mainVars == <<main, call, handlerVars, exitVars, active>>
poolVars == <<mtx, queue, waiting>>
doneVars == <<done, notified>>
threadVars == <<pc, held>>
vars == <<mainVars, poolVars, doneVars, threadVars, faults>>

AllTasks == Tasks \cup {Exit}
ThreadsOf(p) == {th \in Threads : PoolOf[th] = p}
Up == main # "exited"

(* The pool whose post is under way, and the task posted. *)
tp == call.pool
task == call.task

Init ==
    /\ main = "init"
    /\ call \in [pool : Pools, task : {None}]
    /\ handling = FALSE
    /\ batch = <<>>
    /\ leaving = Pools
    /\ posted = 0
    /\ lock = 0
    /\ destroyed = {}
    /\ active = {}
    /\ mtx = [p \in Pools |-> None]
    /\ queue = [p \in Pools |-> <<>>]
    /\ waiting = [p \in Pools |-> 0]
    /\ done = <<>>
    /\ notified = FALSE
    /\ pc = [th \in Threads |-> "none"]
    /\ held = [th \in Threads |-> None]
    /\ faults = 0

Fault == faults < MaxFaults /\ faults' = faults + 1
NoFault == UNCHANGED faults

(* A step of the event loop thread that only moves on to m. *)
Goto(m) ==
    /\ main' = m
    /\ UNCHANGED <<call, handlerVars, exitVars, active, poolVars, doneVars, threadVars>>

(* A step of a pool thread on its own variables. *)
Step(th, from, to) == pc[th] = from /\ pc' = [pc EXCEPT ![th] = to]
Alone == UNCHANGED <<mainVars, poolVars, doneVars, held>>

(***************************************************************************)
(* Starting the pools: ngx_thread_pool_init_worker calls                   *)
(* ngx_thread_pool_init for every pool, which creates its threads; a       *)
(* failure makes the worker process exit at once.                          *)
(***************************************************************************)
CreateThread(th) == main = "init" /\ Step(th, "none", "start") /\ Alone /\ NoFault
InitFails == main = "init" /\ Goto("exited") /\ Fault
Initialised ==
    /\ main = "init" /\ \A th \in Threads : pc[th] # "none"
    /\ Goto("user") /\ NoFault

(***************************************************************************)
(* ngx_thread_task_post(tp, task), called by a module from the event loop  *)
(* or from a completion handler (main = "user"), or by                     *)
(* ngx_thread_pool_destroy with the exit task.  A task that is active is   *)
(* refused before anything changes.                                        *)
(***************************************************************************)
ngx_thread_task_post(p, t) ==
    /\ main = "user" /\ t \notin active
    /\ main' = "post"
    /\ call' = [pool |-> p, task |-> t]
    /\ NoFault
    /\ UNCHANGED <<handlerVars, exitVars, active, poolVars, doneVars, threadVars>>

(* Where a post goes back to, when it failed and when it succeeded. *)
AfterError == IF task = Exit THEN "next" ELSE "user"
AfterOK == IF task = Exit THEN "spin" ELSE "user"

(* Faulty variant: one task too many. *)
OverflowByOne == waiting[tp] > MaxQueue[tp]
Overflow == waiting[tp] >= MaxQueue[tp]

PostOverflow ==
    /\ main = "post" /\ mtx[tp] = None /\ Overflow
    /\ Goto(AfterError) /\ NoFault

PostLockFails == main = "post" /\ Goto(AfterError) /\ Fault

(* ngx_thread_cond_signal wakes one thread sleeping in ngx_thread_cond_wait. *)
Sleeping(p) == {th \in ThreadsOf(p) : pc[th] = "sleep"}
Wake(p) ==
    IF Sleeping(p) = {} THEN UNCHANGED pc
                        ELSE \E th \in Sleeping(p) : Step(th, "sleep", "woken")

(* Faulty variant: signals only when the queue was empty. *)
SignalIfEmpty(p) == IF queue[p] = <<>> THEN Wake(p) ELSE UNCHANGED pc
Signal(p) == Wake(p)

PostSignal ==
    /\ main = "post" /\ mtx[tp] = None /\ ~Overflow
    /\ mtx' = [mtx EXCEPT ![tp] = Main]
    /\ active' = active \cup {task}
    /\ Signal(tp)
    /\ main' = "append"
    /\ NoFault
    /\ UNCHANGED <<call, handlerVars, exitVars, queue, waiting, doneVars, held>>

(* The signal fails: the task stays active although it is in no queue. *)
PostSignalFails ==
    /\ main = "post" /\ mtx[tp] = None /\ ~Overflow
    /\ active' = active \cup {task}
    /\ main' = AfterError
    /\ Fault
    /\ UNCHANGED <<call, handlerVars, exitVars, poolVars, doneVars, threadVars>>

PostAppend ==
    /\ main = "append"
    /\ queue' = [queue EXCEPT ![tp] = Append(@, task)]
    /\ waiting' = [waiting EXCEPT ![tp] = @ + 1]
    /\ mtx' = [mtx EXCEPT ![tp] = None]
    /\ main' = AfterOK
    /\ NoFault
    /\ UNCHANGED <<call, handlerVars, exitVars, active, doneVars, threadVars>>

(***************************************************************************)
(* ngx_thread_pool_handler, run by the event loop for a notification: it   *)
(* takes the whole done list, then completes its tasks one by one.  A      *)
(* completion handler is module code and may post tasks, its own included. *)
(***************************************************************************)
Take(list, rest) ==
    /\ main = "user" /\ ~handling /\ notified
    /\ handling' = TRUE /\ notified' = FALSE
    /\ batch' = list /\ done' = rest
    /\ NoFault
    /\ UNCHANGED <<main, call, exitVars, active, poolVars, threadVars>>

(* Faulty variants: the list stays on the done list; one task is taken for *)
(* each notification.                                                      *)
HandlerTakeNoReset == Take(done, done)
HandlerTakeOne == done # <<>> /\ Take(<<Head(done)>>, Tail(done))
HandlerTake == Take(done, <<>>)

CompleteTask(rest) ==
    /\ main = "user" /\ handling /\ batch # <<>>
    /\ active' = active \ {Head(batch)}
    /\ batch' = rest
    /\ NoFault
    /\ UNCHANGED <<main, call, handling, exitVars, poolVars, doneVars, threadVars>>

(* Faulty variant: does not step to the next task. *)
HandlerCompleteAgain == CompleteTask(batch)
HandlerComplete == CompleteTask(Tail(batch))

HandlerReturn ==
    /\ main = "user" /\ handling /\ batch = <<>>
    /\ handling' = FALSE
    /\ NoFault
    /\ UNCHANGED <<main, call, batch, exitVars, active, poolVars, doneVars, threadVars>>

(***************************************************************************)
(* ngx_thread_pool_exit_worker destroys one pool after the other.  For     *)
(* each, ngx_thread_pool_destroy posts the exit task once per thread and   *)
(* spins until a thread has run it; it gives up when a post fails.         *)
(***************************************************************************)
ngx_thread_pool_exit_worker ==
    main = "user" /\ ~handling /\ Goto("next") /\ NoFault

DestroyBegin(p) ==
    /\ main = "next" /\ p \in leaving
    /\ leaving' = leaving \ {p}
    /\ call' = [pool |-> p, task |-> Exit]
    /\ active' = active \ {Exit}
    /\ posted' = 0
    /\ main' = "destroy"
    /\ NoFault
    /\ UNCHANGED <<handlerVars, lock, destroyed, poolVars, doneVars, threadVars>>

(* Faulty variant: one exit task too few. *)
OneThreadLess == Cardinality(ThreadsOf(tp)) - 1
ThreadsToStop == Cardinality(ThreadsOf(tp))

DestroyPost ==
    /\ main = "destroy" /\ posted < ThreadsToStop
    /\ lock' = 1
    /\ main' = "post"
    /\ NoFault
    /\ UNCHANGED <<call, handlerVars, leaving, posted, destroyed, active, poolVars,
                   doneVars, threadVars>>

(* Faulty variant: does not wait for the thread. *)
NoWait == TRUE
Released == lock = 0

DestroySpin ==
    /\ main = "spin" /\ Released
    /\ active' = active \ {Exit}
    /\ posted' = posted + 1
    /\ main' = "destroy"
    /\ NoFault
    /\ UNCHANGED <<call, handlerVars, leaving, lock, destroyed, poolVars, doneVars,
                   threadVars>>

DestroyEnd ==
    /\ main = "destroy" /\ posted >= ThreadsToStop
    /\ destroyed' = destroyed \cup {tp}
    /\ main' = "next"
    /\ NoFault
    /\ UNCHANGED <<call, handlerVars, leaving, posted, lock, active, poolVars,
                   doneVars, threadVars>>

(* ngx_worker_process_exit goes on to exit(0), which ends every thread. *)
ProcessExit == main = "next" /\ leaving = {} /\ Goto("exited") /\ NoFault

(***************************************************************************)
(* ngx_thread_pool_cycle, the body of a pool thread.                       *)
(***************************************************************************)
Start(th) == Step(th, "start", "enter") /\ Alone /\ NoFault
StartFails(th) == Step(th, "start", "dead") /\ Alone /\ Fault

Lock(th) == mtx[PoolOf[th]] = None /\ mtx' = [mtx EXCEPT ![PoolOf[th]] = th]
Unlock(th) == mtx' = [mtx EXCEPT ![PoolOf[th]] = None]
Announce(th) == waiting' = [waiting EXCEPT ![PoolOf[th]] = @ - 1]

Enter(th) ==
    /\ Step(th, "enter", "test") /\ Lock(th) /\ Announce(th)
    /\ NoFault
    /\ UNCHANGED <<mainVars, queue, doneVars, held>>

EnterFails(th) == Step(th, "enter", "dead") /\ Alone /\ Fault

CondWait(th) ==
    /\ Step(th, "test", "sleep") /\ queue[PoolOf[th]] = <<>>
    /\ Unlock(th)
    /\ NoFault
    /\ UNCHANGED <<mainVars, queue, waiting, doneVars, held>>

(* The thread ends without giving back its decrement of waiting. *)
CondWaitFails(th) ==
    /\ Step(th, "test", "lost") /\ queue[PoolOf[th]] = <<>>
    /\ Unlock(th)
    /\ Fault
    /\ UNCHANGED <<mainVars, queue, waiting, doneVars, held>>

(* A condition wait may return although nobody signalled. *)
SpuriousWakeup(th) == Step(th, "sleep", "woken") /\ Alone /\ NoFault

(* Faulty variant: announces itself again after every wakeup. *)
ReacquireAnnounces(th) ==
    /\ Step(th, "woken", "test") /\ Lock(th) /\ Announce(th)
    /\ NoFault
    /\ UNCHANGED <<mainVars, queue, doneVars, held>>
Reacquire(th) ==
    /\ Step(th, "woken", "test") /\ Lock(th)
    /\ NoFault
    /\ UNCHANGED <<mainVars, queue, waiting, doneVars, held>>

TakeFirst(th) ==
    LET p == PoolOf[th] IN
    /\ queue[p] # <<>>
    /\ held' = [held EXCEPT ![th] = Head(queue[p])]
    /\ queue' = [queue EXCEPT ![p] = Tail(@)]

Dequeue(th) ==
    /\ Step(th, "test", "run") /\ TakeFirst(th) /\ Unlock(th)
    /\ NoFault
    /\ UNCHANGED <<mainVars, waiting, doneVars>>

(* The unlock after the dequeue fails: the thread ends with the task in    *)
(* its hands and the mutex still locked.                                   *)
UnlockFails(th) ==
    /\ Step(th, "test", "dead") /\ TakeFirst(th)
    /\ Fault
    /\ UNCHANGED <<mainVars, mtx, waiting, doneVars>>

Run(th) == held[th] # Exit /\ Step(th, "run", "append") /\ Alone /\ NoFault

RunExit(th, to, flag) ==
    /\ Step(th, "run", to) /\ held[th] = Exit
    /\ lock' = flag
    /\ NoFault
    /\ UNCHANGED <<main, call, handlerVars, leaving, posted, destroyed, active,
                   poolVars, doneVars>>

(* Faulty variants: the handler returns and the thread goes on; the thread *)
(* ends without releasing the flag.                                        *)
ExitHandlerReturns(th) == RunExit(th, "append", 0) /\ UNCHANGED held
ExitHandlerKeepsLock(th) ==
    RunExit(th, "exited", lock) /\ held' = [held EXCEPT ![th] = None]
ngx_thread_pool_exit_handler(th) ==
    RunExit(th, "exited", 0) /\ held' = [held EXCEPT ![th] = None]

AppendDone(th) ==
    /\ Step(th, "append", "notify")
    /\ done' = Append(done, held[th])
    /\ held' = [held EXCEPT ![th] = None]
    /\ NoFault
    /\ UNCHANGED <<mainVars, poolVars, notified>>

(* Faulty variant: the event loop is not notified. *)
NotifyNot(th) == Step(th, "notify", "enter") /\ Alone /\ NoFault
Notify(th) ==
    /\ Step(th, "notify", "enter")
    /\ notified' = TRUE
    /\ NoFault
    /\ UNCHANGED <<mainVars, poolVars, done, held>>

(* The result of ngx_notify is ignored. *)
NotifyFails(th) == Step(th, "notify", "enter") /\ Alone /\ Fault

ngx_thread_pool_cycle(th) ==
    /\ Up
    /\ \/ Start(th) \/ StartFails(th) \/ Enter(th) \/ EnterFails(th) \/ CondWait(th)
       \/ CondWaitFails(th) \/ SpuriousWakeup(th) \/ Reacquire(th) \/ Dequeue(th)
       \/ UnlockFails(th) \/ Run(th) \/ ngx_thread_pool_exit_handler(th)
       \/ AppendDone(th) \/ Notify(th) \/ NotifyFails(th)

(* The process has exited. *)
Terminated == main = "exited" /\ UNCHANGED vars

Next ==
    \/ \E th \in Threads : CreateThread(th)
    \/ InitFails
    \/ Initialised
    \/ \E p \in Pools, t \in Tasks : ngx_thread_task_post(p, t)
    \/ PostOverflow
    \/ PostLockFails
    \/ PostSignal
    \/ PostSignalFails
    \/ PostAppend
    \/ HandlerTake
    \/ HandlerComplete
    \/ HandlerReturn
    \/ ngx_thread_pool_exit_worker
    \/ \E p \in Pools : DestroyBegin(p)
    \/ DestroyPost
    \/ DestroySpin
    \/ DestroyEnd
    \/ ProcessExit
    \/ \E th \in Threads : ngx_thread_pool_cycle(th)
    \/ Terminated

Spec == Init /\ [][Next]_vars
=============================================================================
