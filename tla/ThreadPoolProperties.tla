------------------------ MODULE ThreadPoolProperties ------------------------
(***************************************************************************)
(* What makes the thread pools of ThreadPool correct.                      *)
(***************************************************************************)
EXTENDS ThreadPool

(* Type invariant of ThreadPool; the exit task in particular never reaches *)
(* the done list, for its thread ends before it gets there.                *)
TypeOK ==
    /\ main \in {"init", "user", "post", "append", "next", "destroy", "spin",
                 "exited"}
    /\ call \in [pool : Pools, task : AllTasks \cup {None}]
    /\ handling \in BOOLEAN
    /\ batch \in Seq(Tasks)
    /\ leaving \subseteq Pools
    /\ posted \in Nat
    /\ lock \in {0, 1}
    /\ destroyed \subseteq Pools
    /\ active \subseteq AllTasks
    /\ mtx \in [Pools -> Threads \cup {Main, None}]
    /\ queue \in [Pools -> Seq(AllTasks)]
    /\ waiting \in [Pools -> Int]
    /\ done \in Seq(Tasks)
    /\ notified \in BOOLEAN
    /\ pc \in [Threads -> {"none", "start", "enter", "test", "sleep", "woken",
                           "run", "append", "notify", "exited", "dead", "lost"}]
    /\ held \in [Threads -> AllTasks \cup {None}]
    /\ faults \in Nat

(* The threads of a pool that have announced themselves with tp->waiting-- *)
(* and not taken a task since; one that ended in cond_wait stays announced. *)
Idle == {"test", "sleep", "woken", "lost"}
IdleOf(p) == {th \in ThreadsOf(p) : pc[th] \in Idle}

(* tp->waiting "may become negative": it is exactly the number of queued    *)
(* tasks less the number of idle threads, over every interleaving of posts, *)
(* wakeups (spurious ones included), dequeues and deaths of threads.        *)
WaitingAccounts ==
    \A p \in Pools : waiting[p] = Len(queue[p]) - Cardinality(IdleOf(p))

(* The max_queue test of ngx_thread_task_post limits the queue only         *)
(* relative to the idle threads: max_queue tasks may wait for busy threads, *)
(* one more for each thread that has announced itself.                      *)
QueueBounded ==
    \A p \in Pools : Len(queue[p]) <= MaxQueue[p] + Cardinality(IdleOf(p))

Injective(s) == \A i, j \in DOMAIN s : s[i] = s[j] => i = j

Queued == UNION {Range(queue[p]) : p \in Pools}
Held == {held[th] : th \in Threads} \ {None}

(* A task is in one place only, once: one queue, the hands of one thread,   *)
(* the done list, or the list ngx_thread_pool_handler walks; and whenever   *)
(* it is in any of them its event is active.  The field next of a task      *)
(* serves all the lists, so a second place would splice them together.      *)
OnePlace ==
    /\ \A p, q \in Pools : \A i \in DOMAIN queue[p], j \in DOMAIN queue[q] :
            queue[p][i] = queue[q][j] => p = q /\ i = j
    /\ Injective(done) /\ Injective(batch)
    /\ \A th, th2 \in Threads : held[th] = held[th2] /\ held[th] # None => th = th2
    /\ Queued \cap Held = {} /\ Queued \cap Range(done) = {}
    /\ Queued \cap Range(batch) = {} /\ Held \cap Range(done) = {}
    /\ Held \cap Range(batch) = {} /\ Range(done) \cap Range(batch) = {}
    /\ Queued \cup Held \cup Range(done) \cup Range(batch) \subseteq active

(* The task on the stack of ngx_thread_pool_destroy: when the function      *)
(* touches it, reuses it or returns, no queue and no thread refers to it.   *)
ExitTaskIsOurs ==
    main \notin {"append", "spin", "exited"} => Exit \notin Queued \cup Held

(* No lost wakeup: while a thread of the pool sleeps, there are at least as *)
(* many threads awake as there are tasks queued or about to be appended,    *)
(* not counting a thread that is about to exit.  (A failed call may end a   *)
(* thread that was woken for a task.)                                       *)
Awake(p) == {th \in ThreadsOf(p) :
                /\ pc[th] \in {"start", "enter", "test", "woken", "run", "append",
                               "notify"}
                /\ held[th] # Exit}
Appending(p) == IF main = "append" /\ tp = p THEN 1 ELSE 0
NoLostWakeup ==
    faults = 0 =>
        \A p \in Pools : Sleeping(p) # {} =>
            Len(queue[p]) + Appending(p) <= Cardinality(Awake(p))

(* A task on the done list is always about to be noticed: the event loop    *)
(* has a notification pending or a thread is on its way to send one.        *)
DoneIsAnnounced ==
    done # <<>> => notified \/ (\E th \in Threads : pc[th] = "notify") \/ faults > 0

(* A pool's condition and mutex are destroyed only when every thread of the *)
(* pool has left ngx_thread_pool_cycle and every task posted has been run.  *)
DestroyedIsQuiet ==
    \A p \in destroyed :
        /\ \A th \in ThreadsOf(p) : pc[th] = "exited"
        /\ queue[p] = <<>> /\ mtx[p] = None

(* The pools implement TaskPool: over all threads, pools, wakeups and       *)
(* failures a task accepted by ngx_thread_task_post is run at most once and *)
(* completed at most once, in this order, before it is accepted again.      *)
HeldAt(t, l) == \E th \in Threads : held[th] = t /\ pc[th] = l
Status(t) ==
    CASE t \notin active -> "idle"
      [] t \in active /\ (t \in Queued \/ (main = "append" /\ task = t)) -> "posted"
      [] t \in active /\ HeldAt(t, "run") -> "running"
      [] t \in active /\ (HeldAt(t, "append") \/ t \in Range(done) \cup Range(batch))
            -> "finished"
      [] OTHER -> "stranded"

Abstract == INSTANCE TaskPool WITH status <- [t \in Tasks |-> Status(t)]
ImplementsTaskPool == Abstract!Spec

-----------------------------------------------------------------------------
(* Fairness.  A thread that can take a step of its own eventually does, and *)
(* one that finds the mutex free again and again eventually gets it.  The   *)
(* event loop keeps serving notifications and its handlers return; nothing  *)
(* obliges it to post or to exit.                                           *)
ThreadFairness ==
    \A th \in Threads :
        /\ WF_vars(Up /\ (Start(th) \/ CondWait(th) \/ Dequeue(th) \/ Run(th)
                          \/ ngx_thread_pool_exit_handler(th) \/ AppendDone(th)
                          \/ Notify(th)))
        /\ SF_vars(Up /\ (Enter(th) \/ Reacquire(th)))
MainFairness ==
    /\ WF_vars(\E th \in Threads : CreateThread(th)) /\ WF_vars(Initialised)
    /\ SF_vars(PostOverflow \/ PostSignal) /\ WF_vars(PostAppend)
    /\ SF_vars(HandlerTake \/ HandlerComplete \/ HandlerReturn)
    /\ WF_vars((\E p \in Pools : DestroyBegin(p)) \/ DestroyPost \/ DestroySpin
               \/ DestroyEnd \/ ProcessExit)
FairSpec == Spec /\ ThreadFairness /\ MainFairness

Exiting == main \in {"next", "destroy", "exited"} \/ task = Exit

(* A posted task is eventually run and completed, unless the worker leaves  *)
(* its event loop first.                                                    *)
EveryTaskCompletes == \A t \in Tasks : t \in active ~> t \notin active \/ Exiting

(* Leaving the worker terminates: ngx_thread_pool_destroy never spins for   *)
(* ever, whatever is still queued.                                          *)
ExitTerminates == Exiting ~> main = "exited"
=============================================================================
