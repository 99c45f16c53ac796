-------------------------- MODULE ThreadPool_proof --------------------------
(***************************************************************************)
(* Theorems about ThreadPool, for any pools, threads, tasks and limits:    *)
(* types, waiting, the bound of the queues, where the tasks are, in one    *)
(* place at a time and moving as TaskPool allows, what the threads wait    *)
(* for and how they leave.                                                 *)
(***************************************************************************)
EXTENDS ThreadPoolProperties, SequenceTheorems, FiniteSetTheorems, TLAPS

(* The types with what a thread and the event loop hold at each place.     *)
TypeInv ==
    /\ TypeOK
    /\ \A th \in Threads : pc[th] = "run" => held[th] \in AllTasks
    /\ \A th \in Threads : pc[th] = "append" => held[th] \in Tasks
    /\ main \in {"destroy", "post", "append", "spin"} => task \in AllTasks

USE DEF AllTasks, mainVars, handlerVars, exitVars, poolVars, doneVars, threadVars,
        Fault, NoFault

(* A step by which the event loop thread only moves on. *)
LEMMA GotoType ==
    ASSUME TypeInv, NEW m, Goto(m), faults' \in Nat,
           m \in {"user", "next", "spin", "exited"},
           m = "spin" => task \in AllTasks
    PROVE  TypeInv'
BY DEF TypeInv, TypeOK, Goto, tp, task

(* A step of a pool thread on its own variables, where it takes up no task. *)
LEMMA AloneType ==
    ASSUME TypeInv, NEW th \in Threads, NEW from, faults' \in Nat,
           NEW to \in {"start", "enter", "woken", "dead"},
           Step(th, from, to), Alone
    PROVE  TypeInv'
BY DEF TypeInv, TypeOK, Step, Alone, tp, task

LEMMA TypeInit == Init => TypeInv
<1> SUFFICES ASSUME Init PROVE TypeInv
  OBVIOUS
<1>1. call \in [pool : Pools, task : AllTasks \cup {None}]
  BY DEF Init
<1>2. /\ <<>> \in Seq(AllTasks) /\ <<>> \in Seq(Tasks)
      /\ queue \in [Pools -> Seq(AllTasks)]
  BY DEF Init
<1>3. mtx \in [Pools -> Threads \cup {Main, None}] /\ waiting \in [Pools -> Int]
  BY DEF Init
<1>4. /\ pc = [th \in Threads |-> "none"]
      /\ held \in [Threads -> AllTasks \cup {None}]
  BY DEF Init
<1>5. handling \in BOOLEAN /\ notified \in BOOLEAN
  BY Zenon DEF Init
<1>6. main = "init" /\ batch = <<>> /\ done = <<>> /\ lock = 0 /\ posted = 0
  BY DEF Init
<1>7. leaving \subseteq Pools /\ destroyed \subseteq Pools /\ active \subseteq AllTasks
  BY DEF Init
<1>8. faults \in Nat
  BY DEF Init
<1>9. TypeOK
  BY <1>1, <1>2, <1>3, <1>4, <1>5, <1>6, <1>7, <1>8 DEF TypeOK
<1> QED BY <1>4, <1>6, <1>9 DEF TypeInv

LEMMA FaultNat == ASSUME TypeInv, Fault \/ NoFault PROVE faults' \in Nat
BY DEF TypeInv, TypeOK

LEMMA TypePost ==
    ASSUME TypeInv,
           \/ \E p \in Pools, t \in Tasks : ngx_thread_task_post(p, t)
           \/ PostOverflow \/ PostLockFails \/ PostSignal \/ PostSignalFails
           \/ PostAppend
    PROVE  TypeInv'
<1> USE DEF TypeInv, TypeOK, tp, task
<1>1. ASSUME NEW p \in Pools, NEW t \in Tasks, ngx_thread_task_post(p, t)
      PROVE  TypeInv'
  BY <1>1 DEF ngx_thread_task_post
<1>2. CASE PostOverflow
  BY <1>2, GotoType, FaultNat DEF PostOverflow, AfterError
<1>3. CASE PostLockFails
  BY <1>3, GotoType, FaultNat DEF PostLockFails, AfterError
<1>4. CASE PostSignal
  BY <1>4 DEF PostSignal, Signal, Wake, Step, Sleeping, ThreadsOf
<1>5. CASE PostSignalFails
  BY <1>5 DEF PostSignalFails, AfterError
<1>6. CASE PostAppend
  BY <1>6 DEF PostAppend, AfterOK
<1> QED BY <1>1, <1>2, <1>3, <1>4, <1>5, <1>6

LEMMA TypeHandler ==
    ASSUME TypeInv, HandlerTake \/ HandlerComplete \/ HandlerReturn
    PROVE  TypeInv'
<1> USE DEF TypeInv, TypeOK, tp, task
<1>1. CASE HandlerTake
  <2>1. batch' = done /\ done' = <<>> /\ <<>> \in Seq(Tasks)
    BY <1>1 DEF HandlerTake, Take
  <2>2. handling' \in BOOLEAN /\ notified' \in BOOLEAN
    BY <1>1, Zenon DEF HandlerTake, Take
  <2> QED BY <1>1, <2>1, <2>2 DEF HandlerTake, Take
<1>2. CASE HandlerComplete
  BY <1>2 DEF HandlerComplete, CompleteTask
<1>3. CASE HandlerReturn
  BY <1>3 DEF HandlerReturn
<1> QED BY <1>1, <1>2, <1>3

LEMMA TypeDestroy ==
    ASSUME TypeInv,
           \/ \E p \in Pools : DestroyBegin(p)
           \/ DestroyPost \/ DestroySpin \/ DestroyEnd
    PROVE  TypeInv'
<1> USE PoolAssumption DEF TypeInv, TypeOK, tp, task
<1>1. ASSUME NEW p \in Pools, DestroyBegin(p) PROVE TypeInv'
  BY <1>1 DEF DestroyBegin
<1>2. CASE DestroyPost
  BY <1>2 DEF DestroyPost
<1>3. CASE DestroySpin
  BY <1>3 DEF DestroySpin
<1>4. CASE DestroyEnd
  BY <1>4 DEF DestroyEnd
<1> QED BY <1>1, <1>2, <1>3, <1>4
LEMMA TypeThread ==
    ASSUME TypeInv, NEW th \in Threads, ngx_thread_pool_cycle(th)
    PROVE  TypeInv'
<1> USE PoolAssumption DEF PoolAssumption
<1>1. CASE Start(th) \/ StartFails(th) \/ EnterFails(th) \/ SpuriousWakeup(th)
           \/ NotifyFails(th)
  BY <1>1, AloneType, FaultNat
  DEF Start, StartFails, EnterFails, SpuriousWakeup, NotifyFails
<1>2. CASE Enter(th)
  BY <1>2 DEF TypeInv, TypeOK, tp, task, Enter, Step, Lock, Announce
<1>3. CASE CondWait(th) \/ CondWaitFails(th)
  <2>1. mtx' \in [Pools -> Threads \cup {Main, None}]
    BY <1>3 DEF TypeInv, TypeOK, CondWait, CondWaitFails, Unlock
  <2>2. pc' = [pc EXCEPT ![th] = "sleep"] \/ pc' = [pc EXCEPT ![th] = "lost"]
    BY <1>3 DEF CondWait, CondWaitFails, Step
  <2>3. faults' \in Nat /\ UNCHANGED <<mainVars, queue, waiting, doneVars, held>>
    BY <1>3, FaultNat DEF CondWait, CondWaitFails
  <2>4. CASE pc' = [pc EXCEPT ![th] = "sleep"]
    BY <2>1, <2>3, <2>4 DEF TypeInv, TypeOK, tp, task
  <2>5. CASE pc' = [pc EXCEPT ![th] = "lost"]
    BY <2>1, <2>3, <2>5 DEF TypeInv, TypeOK, tp, task
  <2> QED BY <2>2, <2>4, <2>5
<1>4. CASE Reacquire(th)
  BY <1>4 DEF TypeInv, TypeOK, tp, task, Reacquire, Step, Lock
<1>5. CASE Dequeue(th) \/ UnlockFails(th)
  <2>1. /\ Head(queue[PoolOf[th]]) \in AllTasks
        /\ Tail(queue[PoolOf[th]]) \in Seq(AllTasks)
    BY <1>5 DEF TypeInv, TypeOK, Dequeue, UnlockFails, TakeFirst
  <2>2. /\ held' \in [Threads -> AllTasks \cup {None}]
        /\ held'[th] \in AllTasks
        /\ \A th2 \in Threads \ {th} : held'[th2] = held[th2]
        /\ queue' \in [Pools -> Seq(AllTasks)]
    <3> DEFINE h == Head(queue[PoolOf[th]])
               r == Tail(queue[PoolOf[th]])
    <3>1. held' = [held EXCEPT ![th] = h] /\ queue' = [queue EXCEPT ![PoolOf[th]] = r]
      BY <1>5 DEF Dequeue, UnlockFails, TakeFirst
    <3>2. h \in AllTasks /\ r \in Seq(AllTasks)
      BY <2>1
    <3> HIDE DEF h, r
    <3> QED BY <3>1, <3>2 DEF TypeInv, TypeOK
  <2>3. mtx' \in [Pools -> Threads \cup {Main, None}]
    BY <1>5 DEF TypeInv, TypeOK, Dequeue, UnlockFails, Unlock
  <2>4. pc' = [pc EXCEPT ![th] = "run"] \/ pc' = [pc EXCEPT ![th] = "dead"]
    BY <1>5 DEF Dequeue, UnlockFails, Step
  <2>5. faults' \in Nat /\ UNCHANGED <<mainVars, waiting, doneVars>>
    BY <1>5, FaultNat DEF Dequeue, UnlockFails
  <2>6. CASE pc' = [pc EXCEPT ![th] = "run"]
    BY <2>2, <2>3, <2>5, <2>6 DEF TypeInv, TypeOK, tp, task
  <2>7. CASE pc' = [pc EXCEPT ![th] = "dead"]
    BY <2>2, <2>3, <2>5, <2>7 DEF TypeInv, TypeOK, tp, task
  <2> QED BY <2>4, <2>6, <2>7
<1>6. CASE Run(th)
  BY <1>6 DEF TypeInv, TypeOK, tp, task, Run, Step, Alone
<1>7. CASE ngx_thread_pool_exit_handler(th)
  BY <1>7 DEF TypeInv, TypeOK, tp, task, ngx_thread_pool_exit_handler, RunExit, Step
<1>8. CASE AppendDone(th)
  BY <1>8 DEF TypeInv, TypeOK, tp, task, AppendDone, Step
<1>9. CASE Notify(th)
  BY <1>9 DEF TypeInv, TypeOK, tp, task, Notify, Step
<1> QED
  BY <1>1, <1>2, <1>3, <1>4, <1>5, <1>6, <1>7, <1>8, <1>9 DEF ngx_thread_pool_cycle

LEMMA TypeNext == TypeInv /\ [Next]_vars => TypeInv'
<1> SUFFICES ASSUME TypeInv, [Next]_vars PROVE TypeInv'
  OBVIOUS
<1>1. ASSUME NEW th \in Threads, CreateThread(th) PROVE TypeInv'
  BY <1>1, AloneType, FaultNat DEF CreateThread
<1>2. CASE InitFails \/ Initialised \/ ngx_thread_pool_exit_worker \/ ProcessExit
  BY <1>2, GotoType, FaultNat
  DEF InitFails, Initialised, ngx_thread_pool_exit_worker, ProcessExit
<1>3. CASE UNCHANGED vars
  BY <1>3 DEF TypeInv, TypeOK, vars, tp, task
<1> QED
  BY <1>1, <1>2, <1>3, TypePost, TypeHandler, TypeDestroy, TypeThread
  DEF Next, Terminated

(* The type invariant holds for any number of pools and threads.           *)
THEOREM TypeCorrect == Spec => []TypeOK
<1>1. Spec => []TypeInv
  BY TypeInit, TypeNext, PTL DEF Spec
<1>2. TypeInv => TypeOK
  BY DEF TypeInv
<1> QED BY <1>1, <1>2, PTL
-----------------------------------------------------------------------------
(***************************************************************************)
(* The counter tp->waiting.  CountInv adds to WaitingAccounts the bound    *)
(* that the max_queue test establishes, and what that test leaves true     *)
(* between the two halves of a post.                                       *)
(***************************************************************************)
CountInv ==
    /\ WaitingAccounts
    /\ \A p \in Pools : waiting[p] <= MaxQueue[p]
    /\ main = "append" => waiting[tp] < MaxQueue[tp]

(* The idle threads are finitely many. *)
LEMMA IdleFinite ==
    ASSUME NEW p
    PROVE  IsFiniteSet(IdleOf(p)) /\ Cardinality(IdleOf(p)) \in Nat
<1>1. IdleOf(p) \in SUBSET Threads
  BY DEF IdleOf, ThreadsOf
<1>2. IsFiniteSet(IdleOf(p))
  BY <1>1, FS_Subset, PoolAssumption DEF PoolAssumption
<1> QED BY <1>2, FS_CardinalityType

(* A thread that moves within Idle, or outside it, changes no count. *)
LEMMA IdleSame ==
    ASSUME TypeInv, NEW th \in Threads, NEW from, NEW to, Step(th, from, to),
           from \in Idle <=> to \in Idle,
           NEW p
    PROVE  IdleOf(p)' = IdleOf(p)
BY DEF TypeInv, TypeOK, Step, IdleOf, ThreadsOf

(* A thread that announces itself is one more idle thread of its pool. *)
LEMMA IdleMore ==
    ASSUME TypeInv, NEW th \in Threads, NEW from, NEW to, Step(th, from, to),
           from \notin Idle, to \in Idle,
           NEW p
    PROVE  Cardinality(IdleOf(p))' =
             Cardinality(IdleOf(p)) + (IF PoolOf[th] = p THEN 1 ELSE 0)
<1>1. CASE PoolOf[th] = p
  <2>1. IdleOf(p)' = IdleOf(p) \cup {th} /\ th \notin IdleOf(p)
    BY <1>1 DEF TypeInv, TypeOK, Step, IdleOf, ThreadsOf
  <2> QED BY <1>1, <2>1, IdleFinite, FS_AddElement
<1>2. CASE PoolOf[th] # p
  <2>1. IdleOf(p)' = IdleOf(p)
    BY <1>2 DEF TypeInv, TypeOK, Step, IdleOf, ThreadsOf
  <2> QED BY <1>2, <2>1, IdleFinite
<1> QED BY <1>1, <1>2

(* A thread that takes a task is one idle thread less. *)
LEMMA IdleLess ==
    ASSUME TypeInv, NEW th \in Threads, NEW from, NEW to, Step(th, from, to),
           from \in Idle, to \notin Idle,
           NEW p
    PROVE  Cardinality(IdleOf(p))' =
             Cardinality(IdleOf(p)) - (IF PoolOf[th] = p THEN 1 ELSE 0)
<1>1. CASE PoolOf[th] = p
  <2>1. IdleOf(p)' = IdleOf(p) \ {th} /\ th \in IdleOf(p)
    BY <1>1 DEF TypeInv, TypeOK, Step, IdleOf, ThreadsOf
  <2> QED BY <1>1, <2>1, IdleFinite, FS_RemoveElement
<1>2. CASE PoolOf[th] # p
  <2>1. IdleOf(p)' = IdleOf(p)
    BY <1>2 DEF TypeInv, TypeOK, Step, IdleOf, ThreadsOf
  <2> QED BY <1>2, <2>1, IdleFinite
<1> QED BY <1>1, <1>2

(* Steps that change neither the queues, nor the counters, nor who is idle. *)
LEMMA CountFrame ==
    ASSUME TypeInv, CountInv, UNCHANGED <<queue, waiting>>,
           \A p \in Pools : IdleOf(p)' = IdleOf(p),
           main' = "append" => waiting[call'.pool] < MaxQueue[call'.pool]
    PROVE  CountInv'
BY DEF CountInv, WaitingAccounts, tp

LEMMA CountInit == Init => CountInv
<1> SUFFICES ASSUME Init PROVE CountInv
  OBVIOUS
<1>1. ASSUME NEW p \in Pools PROVE IdleOf(p) = {} /\ Len(queue[p]) = 0 /\ waiting[p] = 0
  BY DEF Init, IdleOf, Idle, ThreadsOf
<1>2. ASSUME NEW p \in Pools PROVE waiting[p] = Len(queue[p]) - Cardinality(IdleOf(p))
  <2>1. Cardinality(IdleOf(p)) = 0
    BY <1>1, FS_EmptySet
  <2> QED BY <1>1, <2>1
<1>3. \A p \in Pools : waiting[p] <= MaxQueue[p]
  BY <1>1, PoolAssumption DEF PoolAssumption
<1> QED BY <1>2, <1>3 DEF CountInv, WaitingAccounts, Init

(* The event loop thread's steps. *)
LEMMA CountLoop ==
    ASSUME TypeInv, CountInv,
           \/ InitFails \/ Initialised
           \/ \E p \in Pools, t \in Tasks : ngx_thread_task_post(p, t)
           \/ PostOverflow \/ PostLockFails \/ PostSignalFails
           \/ HandlerTake \/ HandlerComplete \/ HandlerReturn
           \/ ngx_thread_pool_exit_worker
           \/ \E p \in Pools : DestroyBegin(p)
           \/ DestroyPost \/ DestroySpin \/ DestroyEnd \/ ProcessExit
    PROVE  CountInv'
<1>1. UNCHANGED <<queue, waiting, pc>> /\ main' # "append"
  BY DEF InitFails, Initialised, Goto, ngx_thread_task_post, PostOverflow,
         PostLockFails, PostSignalFails, AfterError, HandlerTake, Take,
         HandlerComplete, CompleteTask, HandlerReturn, ngx_thread_pool_exit_worker,
         DestroyBegin, DestroyPost, DestroySpin, DestroyEnd, ProcessExit
<1>2. \A p \in Pools : IdleOf(p)' = IdleOf(p)
  BY <1>1 DEF IdleOf, ThreadsOf
<1> QED BY <1>1, <1>2, CountFrame

LEMMA CountSignal == ASSUME TypeInv, CountInv, PostSignal PROVE CountInv'
<1>1. \A p \in Pools : IdleOf(p)' = IdleOf(p)
  <2>1. CASE UNCHANGED pc
    BY <2>1 DEF IdleOf, ThreadsOf
  <2>2. ASSUME NEW th \in Sleeping(tp), Step(th, "sleep", "woken")
        PROVE  \A p \in Pools : IdleOf(p)' = IdleOf(p)
    BY <2>2, IdleSame DEF Sleeping, ThreadsOf, Idle
  <2> QED BY <2>1, <2>2 DEF PostSignal, Signal, Wake
<1>2. waiting[tp] < MaxQueue[tp]
  <2>1. tp \in Pools
    BY DEF TypeInv, TypeOK, tp
  <2>2. waiting[tp] \in Int /\ MaxQueue[tp] \in Nat
    BY <2>1, PoolAssumption DEF PoolAssumption, TypeInv, TypeOK
  <2> QED BY <2>2 DEF PostSignal, Overflow
<1> QED BY <1>1, <1>2, CountFrame DEF PostSignal, tp

LEMMA CountAppend == ASSUME TypeInv, CountInv, PostAppend PROVE CountInv'
<1>1. \A p : IdleOf(p)' = IdleOf(p)
  BY DEF PostAppend, IdleOf, ThreadsOf
<1>2. main' # "append" /\ main = "append"
  BY DEF PostAppend, AfterOK
<1>3. tp \in Pools /\ task \in AllTasks /\ queue \in [Pools -> Seq(AllTasks)]
      /\ waiting \in [Pools -> Int] /\ MaxQueue \in [Pools -> Nat]
  BY <1>2, PoolAssumption DEF PoolAssumption, TypeInv, TypeOK, tp, task
<1>4. ASSUME NEW p \in Pools
      PROVE  IF p = tp
             THEN Len(queue'[p]) = Len(queue[p]) + 1 /\ waiting'[p] = waiting[p] + 1
             ELSE queue'[p] = queue[p] /\ waiting'[p] = waiting[p]
  BY <1>3 DEF PostAppend
<1>5. ASSUME NEW p \in Pools
      PROVE  /\ waiting'[p] = Len(queue'[p]) - Cardinality(IdleOf(p)')
             /\ waiting'[p] <= MaxQueue[p]
  <2>1. /\ waiting[p] \in Int /\ MaxQueue[p] \in Nat /\ Len(queue[p]) \in Nat
        /\ Cardinality(IdleOf(p)) \in Nat /\ Cardinality(IdleOf(p)') = Cardinality(IdleOf(p))
    BY <1>1, <1>3, IdleFinite
  <2>2. /\ waiting[p] = Len(queue[p]) - Cardinality(IdleOf(p))
        /\ waiting[p] <= MaxQueue[p] /\ (p = tp => waiting[p] < MaxQueue[p])
    BY <1>2 DEF CountInv, WaitingAccounts
  <2>3. CASE p = tp
    BY <1>4, <2>1, <2>2, <2>3, SMTT(30)
  <2>4. CASE p # tp
    BY <1>4, <2>1, <2>2, <2>4, SMTT(30)
  <2> QED BY <2>3, <2>4
<1> QED BY <1>2, <1>5 DEF CountInv, WaitingAccounts

LEMMA CountThread ==
    ASSUME TypeInv, CountInv, NEW th \in Threads, ngx_thread_pool_cycle(th)
    PROVE  CountInv'
<1> DEFINE p0 == PoolOf[th]
<1>0. /\ p0 \in Pools /\ queue \in [Pools -> Seq(AllTasks)]
      /\ waiting \in [Pools -> Int] /\ MaxQueue \in [Pools -> Nat]
      /\ \A p \in Pools : Cardinality(IdleOf(p)) \in Nat
  BY PoolAssumption, IdleFinite DEF PoolAssumption, TypeInv, TypeOK
<1>1. CASE Enter(th)
  <2>1. \A p \in Pools : Cardinality(IdleOf(p))' =
            Cardinality(IdleOf(p)) + (IF p0 = p THEN 1 ELSE 0)
    BY <1>1, IdleMore DEF Enter, Idle
  <2>2. \A p \in Pools : waiting'[p] = waiting[p] - (IF p0 = p THEN 1 ELSE 0)
    BY <1>0, <1>1 DEF Enter, Announce
  <2>3. UNCHANGED <<queue, main, call>>
    BY <1>1 DEF Enter
  <2>4. ASSUME NEW p \in Pools
        PROVE  /\ waiting'[p] = Len(queue'[p]) - Cardinality(IdleOf(p)')
               /\ waiting'[p] <= waiting[p] /\ waiting[p] \in Int
    <3>1. /\ waiting[p] \in Int /\ Len(queue[p]) \in Nat
          /\ Cardinality(IdleOf(p)) \in Nat
          /\ waiting[p] = Len(queue[p]) - Cardinality(IdleOf(p))
      BY <1>0 DEF CountInv, WaitingAccounts
    <3> QED BY <2>1, <2>2, <2>3, <3>1
  <2>5. \A p \in Pools : waiting'[p] <= MaxQueue[p] /\ waiting'[p] \in Int
    BY <1>0, <2>2, <2>4 DEF CountInv
  <2>6. main' = "append" => waiting'[call'.pool] < MaxQueue[call'.pool]
    <3>1. tp \in Pools
      BY DEF TypeInv, TypeOK, tp
    <3>2. waiting'[tp] <= waiting[tp] /\ waiting'[tp] \in Int /\ MaxQueue[tp] \in Nat
      BY <1>0, <2>4, <2>5, <3>1
    <3> QED BY <1>0, <2>3, <3>1, <3>2 DEF CountInv, tp
  <2> QED BY <2>4, <2>5, <2>6 DEF CountInv, WaitingAccounts, tp
<1>2. CASE Dequeue(th) \/ UnlockFails(th)
  <2>1. PICK to \in {"run", "dead"} : Step(th, "test", to)
    BY <1>2 DEF Dequeue, UnlockFails
  <2>2. \A p \in Pools : Cardinality(IdleOf(p))' =
            Cardinality(IdleOf(p)) - (IF p0 = p THEN 1 ELSE 0)
    BY <2>1, IdleLess DEF Idle
  <2>3. \A p \in Pools : IF p0 = p THEN Len(queue'[p]) = Len(queue[p]) - 1
                                  ELSE queue'[p] = queue[p]
    <3>1. queue[p0] # <<>> /\ queue' = [queue EXCEPT ![p0] = Tail(queue[p0])]
      BY <1>2 DEF Dequeue, UnlockFails, TakeFirst
    <3>2. Len(Tail(queue[p0])) = Len(queue[p0]) - 1
      BY <1>0, <3>1
    <3>3. \A p \in Pools : queue'[p] = IF p0 = p THEN Tail(queue[p]) ELSE queue[p]
      BY <1>0, <3>1
    <3> QED BY <3>2, <3>3
  <2>4. UNCHANGED <<waiting, main, call>>
    BY <1>2 DEF Dequeue, UnlockFails
  <2>5. ASSUME NEW p \in Pools
        PROVE  waiting'[p] = Len(queue'[p]) - Cardinality(IdleOf(p)')
    <3>1. /\ Len(queue[p]) \in Nat /\ Cardinality(IdleOf(p)) \in Nat
          /\ waiting[p] = Len(queue[p]) - Cardinality(IdleOf(p))
      BY <1>0 DEF CountInv, WaitingAccounts
    <3>2. waiting'[p] = waiting[p]
      BY <2>4
    <3>3. CASE p0 = p
      BY <2>2, <2>3, <3>1, <3>2, <3>3, SMTT(30)
    <3>4. CASE p0 # p
      BY <2>2, <2>3, <3>1, <3>2, <3>4, SMTT(30)
    <3> QED BY <3>3, <3>4
  <2> QED BY <2>4, <2>5 DEF CountInv, WaitingAccounts, tp
<1>3. CASE ~(Enter(th) \/ Dequeue(th) \/ UnlockFails(th))
  <2>1. UNCHANGED <<queue, waiting, main, call>>
    BY <1>3
    DEF ngx_thread_pool_cycle, Start, StartFails, EnterFails, CondWait, CondWaitFails,
        SpuriousWakeup, Reacquire, Run, ngx_thread_pool_exit_handler, RunExit,
        AppendDone, Notify, NotifyFails, Alone
  <2>2. PICK from, to : Step(th, from, to) /\ (from \in Idle <=> to \in Idle)
    BY <1>3
    DEF ngx_thread_pool_cycle, Start, StartFails, EnterFails, CondWait, CondWaitFails,
        SpuriousWakeup, Reacquire, Run, ngx_thread_pool_exit_handler, RunExit,
        AppendDone, Notify, NotifyFails, Idle
  <2>3. \A p \in Pools : IdleOf(p)' = IdleOf(p)
    BY <2>2, IdleSame
  <2> QED BY <2>1, <2>3, CountFrame DEF CountInv, tp
<1> QED BY <1>1, <1>2, <1>3

LEMMA CountNext == TypeInv /\ CountInv /\ [Next]_vars => CountInv'
<1> SUFFICES ASSUME TypeInv, CountInv, [Next]_vars PROVE CountInv'
  OBVIOUS
<1>1. ASSUME NEW th \in Threads, CreateThread(th) PROVE CountInv'
  <2>1. \A p \in Pools : IdleOf(p)' = IdleOf(p)
    BY <1>1, IdleSame DEF CreateThread, Idle
  <2> QED BY <1>1, <2>1, CountFrame DEF CreateThread, Alone, CountInv, tp
<1>2. CASE UNCHANGED vars
  <2>1. \A p \in Pools : IdleOf(p)' = IdleOf(p)
    BY <1>2 DEF vars, IdleOf, ThreadsOf
  <2> QED BY <1>2, <2>1, CountFrame DEF vars, CountInv, tp
<1> QED
  BY <1>1, <1>2, CountLoop, CountSignal, CountAppend, CountThread
  DEF Next, Terminated

(* tp->waiting counts the queued tasks less the idle threads.              *)
THEOREM WaitingCorrect == Spec => []WaitingAccounts
<1>1. Spec => [](TypeInv /\ CountInv)
  BY TypeInit, TypeNext, CountInit, CountNext, PTL DEF Spec
<1>2. CountInv => WaitingAccounts
  BY DEF CountInv
<1> QED BY <1>1, <1>2, PTL

(* A queue never outgrows max_queue by more than its idle threads.         *)
THEOREM QueueBoundCorrect == Spec => []QueueBounded
<1>1. Spec => [](TypeInv /\ CountInv)
  BY TypeInit, TypeNext, CountInit, CountNext, PTL DEF Spec
<1>2. ASSUME TypeInv, CountInv PROVE QueueBounded
  <2> SUFFICES ASSUME NEW p \in Pools
               PROVE  Len(queue[p]) <= MaxQueue[p] + Cardinality(IdleOf(p))
    BY DEF QueueBounded
  <2>1. /\ Len(queue[p]) \in Nat /\ MaxQueue[p] \in Nat
        /\ Cardinality(IdleOf(p)) \in Nat
    BY PoolAssumption, IdleFinite DEF PoolAssumption, TypeInv, TypeOK
  <2> QED BY <1>2, <2>1 DEF CountInv, WaitingAccounts
<1> QED BY <1>1, <1>2, PTL

-----------------------------------------------------------------------------
(* Lists at whose end an element is added and from whose front it is taken. *)
LEMMA Appended ==
    ASSUME NEW S, NEW s \in Seq(S), NEW x \in S
    PROVE  /\ Append(s, x) \in Seq(S) /\ Range(Append(s, x)) = Range(s) \cup {x}
           /\ Injective(s) /\ x \notin Range(s) => Injective(Append(s, x))
<1> DEFINE r == Append(s, x)
<1>1. /\ r \in Seq(S) /\ DOMAIN r = 1 .. Len(s) + 1 /\ DOMAIN s = 1 .. Len(s)
      /\ Len(s) \in Nat /\ \A i \in 1 .. Len(s) : r[i] = s[i]
      /\ r[Len(s) + 1] = x
  BY AppendProperties
<1> HIDE DEF r
<1>2. \A i \in DOMAIN r : i \in DOMAIN s \/ i = Len(s) + 1
  BY <1>1
<1>3. \A i \in DOMAIN s : i \in DOMAIN r /\ r[i] = s[i]
  BY <1>1
<1>4. Len(s) + 1 \in DOMAIN r
  BY <1>1
<1>5. Range(r) = Range(s) \cup {x}
  BY <1>1, <1>2, <1>3, <1>4 DEF Range
<1>6. ASSUME Injective(s), x \notin Range(s) PROVE Injective(r)
  <2> SUFFICES ASSUME NEW i \in DOMAIN r, NEW j \in DOMAIN r, r[i] = r[j] PROVE i = j
    BY DEF Injective
  <2>1. \A k \in DOMAIN s : s[k] # x
    BY <1>6 DEF Range
  <2>2. CASE i \in DOMAIN s /\ j \in DOMAIN s
    BY <2>2, <1>3, <1>6 DEF Injective
  <2>3. CASE i = Len(s) + 1 \/ j = Len(s) + 1
    BY <2>1, <2>3, <1>1, <1>2, <1>3
  <2> QED BY <1>2, <2>2, <2>3
<1> QED BY <1>1, <1>5, <1>6 DEF r

LEMMA Taken ==
    ASSUME NEW S, NEW s \in Seq(S), s # <<>>
    PROVE  /\ Head(s) \in S /\ Tail(s) \in Seq(S)
           /\ Range(s) = Range(Tail(s)) \cup {Head(s)}
           /\ Injective(s) => Injective(Tail(s)) /\ Head(s) \notin Range(Tail(s))
<1> DEFINE r == Tail(s)
           h == Head(s)
<1>1. /\ h \in S /\ r \in Seq(S) /\ DOMAIN r = 1 .. Len(s) - 1 /\ DOMAIN s = 1 .. Len(s)
      /\ Len(s) \in Nat \ {0} /\ h = s[1] /\ \A i \in 1 .. Len(s) - 1 : r[i] = s[i + 1]
  OBVIOUS
<1> HIDE DEF r, h
<1>2. \A i \in DOMAIN r : i \in Int /\ i + 1 \in DOMAIN s /\ i + 1 # 1 /\ r[i] = s[i + 1]
  BY <1>1
<1>3. \A i \in DOMAIN s : i = 1 \/ \E j \in DOMAIN r : i = j + 1
  <2> SUFFICES ASSUME NEW i \in DOMAIN s, i # 1 PROVE i - 1 \in DOMAIN r /\ i = (i - 1) + 1
    OBVIOUS
  <2> QED BY <1>1
<1>4. 1 \in DOMAIN s
  BY <1>1
<1>5. Range(s) = Range(r) \cup {h}
  <2>1. \A x \in Range(s) : x \in Range(r) \cup {h}
    BY <1>1, <1>2, <1>3 DEF Range
  <2>2. \A x \in Range(r) \cup {h} : x \in Range(s)
    BY <1>1, <1>2, <1>4 DEF Range
  <2> QED BY <2>1, <2>2
<1>6. ASSUME Injective(s) PROVE Injective(r) /\ h \notin Range(r)
  <2>1. h \notin Range(r)
    BY <1>1, <1>2, <1>4, <1>6 DEF Range, Injective
  <2>2. ASSUME NEW i \in DOMAIN r, NEW j \in DOMAIN r, r[i] = r[j] PROVE i = j
    <3>1. i + 1 = j + 1
      BY <1>2, <1>6, <2>2 DEF Injective
    <3> QED BY <3>1, <1>2
  <2> QED BY <2>1, <2>2 DEF Injective
<1> QED BY <1>1, <1>5, <1>6 DEF r, h

LEMMA EmptyList == Range(<<>>) = {} /\ Injective(<<>>)
BY DEF Range, Injective

-----------------------------------------------------------------------------
(***************************************************************************)
(* OnePlace is inductive with what the code keeps true around it: a task   *)
(* being posted is nowhere, only a thread that runs or has run a task, or  *)
(* ended with it, holds one, and the exit task is somewhere only while     *)
(* ngx_thread_pool_destroy spins with its flag set.                        *)
(***************************************************************************)
Placed == Queued \cup Held \cup Range(done) \cup Range(batch)

Apart ==
    /\ \A p \in Pools : Injective(queue[p])
    /\ \A p, q \in Pools : p # q => Range(queue[p]) \cap Range(queue[q]) = {}
    /\ Injective(done) /\ Injective(batch)
    /\ \A th, th2 \in Threads : held[th] = held[th2] /\ held[th] # None => th = th2
    /\ Queued \cap Held = {} /\ Queued \cap Range(done) = {}
    /\ Queued \cap Range(batch) = {} /\ Held \cap Range(done) = {}
    /\ Held \cap Range(batch) = {} /\ Range(done) \cap Range(batch) = {}
    /\ Placed \subseteq active

PostInv ==
    /\ main = "post" => task \notin active
    /\ main = "append" => task \in active /\ task \notin Placed
    /\ main \in {"post", "append"} /\ task = Exit => lock = 1
    /\ main = "destroy" => task = Exit /\ Exit \notin active
    /\ main = "spin" => task = Exit
    /\ Exit \in Queued \cup Held => main = "spin" /\ lock = 1

HoldInv ==
    /\ \A th \in Threads : held[th] # None => pc[th] \in {"run", "append", "dead"}
    /\ ~handling => batch = <<>>

PlaceInv == Apart /\ PostInv /\ HoldInv

LEMMA ApartOnePlace == ASSUME TypeInv, Apart PROVE OnePlace
<1>1. ASSUME NEW p \in Pools, NEW q \in Pools, NEW i \in DOMAIN queue[p],
             NEW j \in DOMAIN queue[q], queue[p][i] = queue[q][j]
      PROVE  p = q /\ i = j
  BY <1>1 DEF Apart, Injective, Range
<1> QED BY <1>1 DEF Apart, OnePlace, Placed

(* Steps that move no task: those placed stay active.                      *)
LEMMA ApartFrame ==
    ASSUME TypeInv, PlaceInv, UNCHANGED <<queue, done, batch, held>>, Placed \subseteq active'
    PROVE  Apart' /\ Queued' = Queued /\ Held' = Held /\ Placed' = Placed
<1>1. Queued' = Queued /\ Held' = Held /\ Placed' = Placed
  BY DEF Queued, Held, Placed
<1> QED BY <1>1 DEF PlaceInv, Apart

LEMMA PlaceInit == Init => PlaceInv
<1> SUFFICES ASSUME Init PROVE PlaceInv
  OBVIOUS
<1>1. /\ \A p \in Pools : queue[p] = <<>>
      /\ done = <<>> /\ batch = <<>> /\ \A th \in Threads : held[th] = None
      /\ main = "init"
  BY DEF Init
<1>2. Queued = {} /\ Held = {} /\ Placed = {}
  BY <1>1, EmptyList DEF Queued, Held, Placed
<1>3. Apart
  BY <1>1, <1>2, EmptyList DEF Apart
<1>4. PostInv
  BY <1>1, <1>2 DEF PostInv
<1> QED BY <1>1, <1>3, <1>4 DEF PlaceInv, HoldInv

(* The steps of a post.                                                    *)
LEMMA PlacePost ==
    ASSUME TypeInv, PlaceInv,
           \/ \E p \in Pools, t \in Tasks : ngx_thread_task_post(p, t)
           \/ PostOverflow \/ PostLockFails \/ PostSignal \/ PostSignalFails
    PROVE  PlaceInv'
<1> USE DEF PlaceInv
<1>1. ASSUME NEW p \in Pools, NEW t \in Tasks, ngx_thread_task_post(p, t)
      PROVE  PlaceInv'
  <2>1. /\ main = "user" /\ t \notin active /\ main' = "post"
        /\ call' = [pool |-> p, task |-> t]
        /\ UNCHANGED <<handling, lock, pc, active, queue, done, batch, held>>
    BY <1>1 DEF ngx_thread_task_post
  <2>2. Placed \subseteq active'
    BY <2>1 DEF Apart
  <2>3. Apart' /\ Queued' = Queued /\ Held' = Held /\ Placed' = Placed
    BY <2>1, <2>2, ApartFrame
  <2>4. PostInv'
    BY <2>1, <2>3, PoolAssumption DEF PostInv, task
  <2> QED BY <2>1, <2>3, <2>4 DEF HoldInv
<1>2. CASE PostOverflow \/ PostLockFails
  <2>1. /\ main = "post" /\ main' = AfterError
        /\ UNCHANGED <<call, handling, lock, pc, active, queue, done, batch, held>>
    BY <1>2 DEF PostOverflow, PostLockFails, Goto
  <2>2. Apart' /\ Queued' = Queued /\ Held' = Held /\ Placed' = Placed
    BY <2>1, ApartFrame DEF Apart
  <2>3. PostInv'
    BY <2>1, <2>2 DEF PostInv, task, AfterError
  <2> QED BY <2>1, <2>2, <2>3 DEF HoldInv
<1>3. CASE PostSignalFails
  <2>1. /\ main = "post" /\ main' = AfterError /\ active' = active \cup {task}
        /\ UNCHANGED <<call, handling, lock, pc, queue, done, batch, held>>
    BY <1>3 DEF PostSignalFails
  <2>2. Apart' /\ Queued' = Queued /\ Held' = Held /\ Placed' = Placed
    <3>1. Placed \subseteq active'
      BY <2>1 DEF Apart
    <3> QED BY <2>1, <3>1, ApartFrame
  <2>3. PostInv'
    BY <2>1, <2>2 DEF PostInv, task, AfterError
  <2> QED BY <2>1, <2>2, <2>3 DEF HoldInv
<1>4. CASE PostSignal
  <2>1. /\ main = "post" /\ main' = "append" /\ active' = active \cup {task}
        /\ UNCHANGED <<call, handling, lock, queue, done, batch, held>>
        /\ \/ UNCHANGED pc
           \/ \E th \in Threads : pc[th] = "sleep" /\ pc' = [pc EXCEPT ![th] = "woken"]
    BY <1>4 DEF PostSignal, Signal, Wake, Sleeping, ThreadsOf, Step
  <2>2. Apart' /\ Queued' = Queued /\ Held' = Held /\ Placed' = Placed
    <3>1. Placed \subseteq active'
      BY <2>1 DEF Apart
    <3> QED BY <2>1, <3>1, ApartFrame
  <2>3. task \notin Placed
    BY <2>1 DEF PostInv, Apart
  <2>4. PostInv'
    BY <2>1, <2>2, <2>3 DEF PostInv, task
  <2>5. HoldInv'
    BY <2>1 DEF HoldInv, TypeInv, TypeOK
  <2> QED BY <2>2, <2>4, <2>5
<1> QED BY <1>1, <1>2, <1>3, <1>4

LEMMA Enqueued ==
    ASSUME TypeInv, PostAppend
    PROVE  /\ \A p \in Pools : Range(queue[p])' =
                 IF p = tp THEN Range(queue[p]) \cup {task} ELSE Range(queue[p])
           /\ \A p \in Pools : Injective(queue[p]) /\ task \notin Range(queue[p])
                                   => Injective(queue[p])'
           /\ Queued' = Queued \cup {task}
<1>1. /\ tp \in Pools /\ task \in AllTasks /\ queue \in [Pools -> Seq(AllTasks)]
      /\ queue' = [queue EXCEPT ![tp] = Append(queue[tp], task)]
  BY DEF PostAppend, TypeInv, TypeOK, tp, task
<1>2. \A p \in Pools : queue'[p] = IF p = tp THEN Append(queue[p], task) ELSE queue[p]
  BY <1>1
<1>3. ASSUME NEW p \in Pools
      PROVE  /\ Range(Append(queue[p], task)) = Range(queue[p]) \cup {task}
             /\ Injective(queue[p]) /\ task \notin Range(queue[p])
                    => Injective(Append(queue[p], task))
  <2>1. queue[p] \in Seq(AllTasks)
    BY <1>1
  <2> QED BY <2>1, <1>1, Appended
<1>4. \A p \in Pools : Range(queue'[p]) =
          IF p = tp THEN Range(queue[p]) \cup {task} ELSE Range(queue[p])
  BY <1>2, <1>3
<1>5. Queued' = Queued \cup {task}
  <2>1. ASSUME NEW x \in Queued' PROVE x \in Queued \cup {task}
    <3>1. PICK p \in Pools : x \in Range(queue'[p])
      BY DEF Queued
    <3> QED BY <3>1, <1>4 DEF Queued
  <2>2. ASSUME NEW x \in Queued PROVE x \in Queued'
    <3>1. PICK p \in Pools : x \in Range(queue[p])
      BY DEF Queued
    <3>2. x \in Range(queue'[p])
      BY <3>1, <1>4
    <3> QED BY <3>2 DEF Queued
  <2>3. task \in Queued'
    <3>1. task \in Range(queue'[tp])
      BY <1>1, <1>4
    <3> QED BY <1>1, <3>1 DEF Queued
  <2> QED BY <2>1, <2>2, <2>3
<1>6. ASSUME NEW p \in Pools, Injective(queue[p]), task \notin Range(queue[p])
      PROVE  Injective(queue'[p])
  <2>1. CASE p = tp
    <3>1. queue'[p] = Append(queue[p], task)
      BY <1>2, <2>1
    <3>2. Injective(Append(queue[p], task))
      BY <1>3, <1>6
    <3> QED BY <3>1, <3>2
  <2>2. CASE p # tp
    <3>1. queue'[p] = queue[p]
      BY <1>2, <2>2
    <3> QED BY <3>1, <1>6
  <2> QED BY <2>1, <2>2
<1> QED BY <1>4, <1>5, <1>6

LEMMA PlaceAppend == ASSUME TypeInv, PlaceInv, PostAppend PROVE PlaceInv'
<1> USE DEF PlaceInv
<1>1. /\ main = "append" /\ main' = AfterOK
      /\ UNCHANGED <<call, handling, lock, pc, active, done, batch, held>>
  BY DEF PostAppend
<1>2. task \in active /\ task \notin Placed /\ tp \in Pools
  BY <1>1 DEF PostInv, TypeInv, TypeOK, tp
<1>3. Queued' = Queued \cup {task} /\ Held' = Held /\ Placed' = Placed \cup {task}
  BY <1>1, Enqueued DEF Held, Placed
<1>4. \A p \in Pools : task \notin Range(queue[p])
  BY <1>2 DEF Placed, Queued
<1>5. Apart'
  <2>1. \A p \in Pools : Injective(queue[p])'
    BY <1>4, Enqueued DEF Apart
  <2>2. ASSUME NEW p \in Pools, NEW q \in Pools, p # q
        PROVE  (Range(queue[p]) \cap Range(queue[q]))' = {}
    <3>1. /\ Range(queue[p])' \subseteq Range(queue[p]) \cup {task}
          /\ Range(queue[q])' \subseteq Range(queue[q]) \cup {task}
          /\ p # tp => Range(queue[p])' = Range(queue[p])
          /\ q # tp => Range(queue[q])' = Range(queue[q])
      BY Enqueued
    <3>2. Range(queue[p]) \cap Range(queue[q]) = {}
      BY <2>2 DEF Apart
    <3> QED BY <1>4, <2>2, <3>1, <3>2
  <2>3. /\ (Queued \cap Held)' = {} /\ (Queued \cap Range(done))' = {}
        /\ (Queued \cap Range(batch))' = {} /\ (Placed \subseteq active)'
    BY <1>1, <1>2, <1>3 DEF Apart, Placed
  <2> QED BY <2>1, <2>2, <2>3, <1>1, <1>3 DEF Apart
<1>6. PostInv'
  <2>1. task = Exit => lock = 1
    \* the flag was set before the post
    BY <1>1 DEF PostInv
  <2> QED BY <2>1, <1>1, <1>2, <1>3 DEF PostInv, AfterOK, task
<1> QED BY <1>1, <1>5, <1>6 DEF HoldInv

(* A thread takes the first task of its queue.                             *)
LEMMA Dequeued ==
    ASSUME TypeInv, PlaceInv, NEW th \in Threads, TakeFirst(th), pc[th] = "test"
    PROVE  \E h \in Queued :
             /\ h \in AllTasks /\ h \notin Held
             /\ held'[th] = h /\ held[th] = None
             /\ \A th2 \in Threads \ {th} : held'[th2] = held[th2]
             /\ Queued' = Queued \ {h} /\ Held' = Held \cup {h}
             /\ \A p \in Pools : /\ Injective(queue[p])'
                                /\ Range(queue[p])' \subseteq Range(queue[p])
<1> DEFINE q == queue[PoolOf[th]]
           h == Head(q)
           r == Tail(q)
<1>1. /\ PoolOf[th] \in Pools /\ q \in Seq(AllTasks) /\ q # <<>> /\ Injective(q)
      /\ held' = [held EXCEPT ![th] = h] /\ queue' = [queue EXCEPT ![PoolOf[th]] = r]
  BY PoolAssumption DEF PoolAssumption, TypeInv, TypeOK, TakeFirst, PlaceInv, Apart
<1>2. /\ h \in AllTasks /\ Range(q) = Range(r) \cup {h}
      /\ Injective(r) /\ h \notin Range(r)
  <2> HIDE DEF q
  <2> QED BY <1>1, Taken
<1> HIDE DEF h, r
<1>3. \A p \in Pools : queue'[p] = IF p = PoolOf[th] THEN r ELSE queue[p]
  BY <1>1 DEF TypeInv, TypeOK
<1>4. \A p \in Pools : p # PoolOf[th] => h \notin Range(queue[p])
  BY <1>1, <1>2 DEF PlaceInv, Apart
<1>5. h \in Queued
  BY <1>1, <1>2 DEF Queued
<1>6. h \notin Held /\ h # None
  BY <1>2, <1>5, PoolAssumption DEF PlaceInv, Apart, PoolAssumption
<1>7. held[th] = None
  BY DEF PlaceInv, HoldInv
<1>8. /\ held'[th] = h
      /\ \A th2 \in Threads \ {th} : held'[th2] = held[th2]
  BY <1>1 DEF TypeInv, TypeOK
<1>9. Held' = Held \cup {h}
  BY <1>6, <1>7, <1>8 DEF Held
<1>10. Queued' = Queued \ {h}
  <2>1. ASSUME NEW x \in Queued' PROVE x \in Queued \ {h}
    <3>1. PICK p \in Pools : x \in Range(queue'[p])
      BY DEF Queued
    <3>2. x \in Range(queue[p]) /\ x # h
      BY <3>1, <1>2, <1>3, <1>4
    <3> QED BY <3>2 DEF Queued
  <2>2. ASSUME NEW x \in Queued, x # h PROVE x \in Queued'
    <3>1. PICK p \in Pools : x \in Range(queue[p])
      BY DEF Queued
    <3>2. x \in Range(queue'[p])
      BY <2>2, <3>1, <1>2, <1>3
    <3> QED BY <3>2 DEF Queued
  <2> QED BY <2>1, <2>2
<1>11. \A p \in Pools : Injective(queue'[p]) /\ Range(queue'[p]) \subseteq Range(queue[p])
  BY <1>2, <1>3 DEF PlaceInv, Apart
<1> QED BY <1>2, <1>5, <1>6, <1>7, <1>8, <1>9, <1>10, <1>11

LEMMA PlaceDequeue ==
    ASSUME TypeInv, PlaceInv, NEW th \in Threads, Dequeue(th) \/ UnlockFails(th)
    PROVE  PlaceInv'
<1> USE DEF PlaceInv
<1>1. /\ pc[th] = "test" /\ TakeFirst(th) /\ UNCHANGED <<mainVars, done>>
      /\ pc' = [pc EXCEPT ![th] = "run"] \/ pc' = [pc EXCEPT ![th] = "dead"]
  BY DEF Dequeue, UnlockFails, Step
<1>2. PICK h \in Queued :
             /\ h \in AllTasks /\ h \notin Held
             /\ held'[th] = h /\ held[th] = None
             /\ \A th2 \in Threads \ {th} : held'[th2] = held[th2]
             /\ Queued' = Queued \ {h} /\ Held' = Held \cup {h}
             /\ \A p \in Pools : /\ Injective(queue[p])'
                                /\ Range(queue[p])' \subseteq Range(queue[p])
  BY <1>1, Dequeued
<1>3. Placed' = Placed
  BY <1>1, <1>2 DEF Placed
<1>4. Apart'
  <2>1. \A p, q \in Pools : p # q => (Range(queue[p]) \cap Range(queue[q]))' = {}
    BY <1>2 DEF Apart
  <2>2. \A th1, th2 \in Threads : held'[th1] = held'[th2] /\ held'[th1] # None => th1 = th2
    <3>1. \A th2 \in Threads : held[th2] # h
      BY <1>2, PoolAssumption DEF Held, PoolAssumption
    <3> QED BY <1>2, <3>1 DEF Apart
  <2>3. /\ h \notin Range(done) /\ h \notin Range(batch)
    BY <1>2 DEF Apart
  <2>4. /\ (Queued \cap Held)' = {} /\ (Queued \cap Range(done))' = {}
        /\ (Queued \cap Range(batch))' = {} /\ (Held \cap Range(done))' = {}
        /\ (Held \cap Range(batch))' = {} /\ (Range(done) \cap Range(batch))' = {}
    BY <1>1, <1>2, <2>3 DEF Apart
  <2> QED BY <1>1, <1>2, <1>3, <2>1, <2>2, <2>4 DEF Apart
<1>5. PostInv'
  BY <1>1, <1>2, <1>3 DEF PostInv, task
<1>6. HoldInv'
  BY <1>1, <1>2 DEF HoldInv, TypeInv, TypeOK
<1> QED BY <1>4, <1>5, <1>6

(* A thread lets go of its task. *)
LEMMA Released1 ==
    ASSUME TypeInv, Apart, NEW th \in Threads, held' = [held EXCEPT ![th] = None],
           held[th] # None
    PROVE  /\ Held' = Held \ {held[th]} /\ held[th] \in Held
           /\ \A th1, th2 \in Threads :
                held'[th1] = held'[th2] /\ held'[th1] # None => th1 = th2
<1>1. \A th2 \in Threads : held'[th2] = IF th2 = th THEN None ELSE held[th2]
  BY DEF TypeInv, TypeOK
<1>2. \A th1, th2 \in Threads : held[th1] = held[th2] /\ held[th1] # None => th1 = th2
  BY DEF Apart
<1>3. Held' = Held \ {held[th]} /\ held[th] \in Held
  BY <1>1, <1>2 DEF Held
<1> QED BY <1>1, <1>2, <1>3

LEMMA PlaceExit ==
    ASSUME TypeInv, PlaceInv, NEW th \in Threads, ngx_thread_pool_exit_handler(th)
    PROVE  PlaceInv'
<1> USE DEF PlaceInv
<1>1. /\ held[th] = Exit /\ held' = [held EXCEPT ![th] = None] /\ lock' = 0
      /\ pc' = [pc EXCEPT ![th] = "exited"]
      /\ UNCHANGED <<main, call, handling, batch, active, queue, done>>
  BY DEF ngx_thread_pool_exit_handler, RunExit, Step
<1>2. held[th] # None
  BY <1>1, PoolAssumption DEF PoolAssumption
<1>3. /\ Held' = Held \ {Exit} /\ Exit \in Held
      /\ \A th1, th2 \in Threads :
                held'[th1] = held'[th2] /\ held'[th1] # None => th1 = th2
  BY <1>1, <1>2, Released1
<1>4. Queued' = Queued
  BY <1>1 DEF Queued
<1>5. Placed' = Placed \ {Exit}
  BY <1>1, <1>3, <1>4 DEF Placed, Apart
<1>6. Apart'
  BY <1>1, <1>3, <1>4, <1>5 DEF Apart
<1>7. PostInv'
  <2>1. main = "spin" /\ Exit \notin Queued
    BY <1>3 DEF PostInv, Apart
  <2> QED BY <2>1, <1>1, <1>3, <1>4, <1>5 DEF PostInv, task
<1>8. HoldInv'
  BY <1>1 DEF HoldInv, TypeInv, TypeOK
<1> QED BY <1>6, <1>7, <1>8

LEMMA PlaceDone ==
    ASSUME TypeInv, PlaceInv, NEW th \in Threads, AppendDone(th)
    PROVE  PlaceInv'
<1> USE DEF PlaceInv
<1>1. /\ pc[th] = "append" /\ held' = [held EXCEPT ![th] = None]
      /\ done' = Append(done, held[th])
      /\ pc' = [pc EXCEPT ![th] = "notify"]
      /\ UNCHANGED <<main, call, handling, batch, lock, active, queue>>
  BY DEF AppendDone, Step
<1>2. held[th] \in Tasks /\ held[th] # None /\ held[th] # Exit
  BY <1>1, PoolAssumption DEF PoolAssumption, TypeInv
<1>3. /\ Held' = Held \ {held[th]} /\ held[th] \in Held
      /\ \A th1, th2 \in Threads :
                held'[th1] = held'[th2] /\ held'[th1] # None => th1 = th2
  BY <1>1, <1>2, Released1
<1>4. Queued' = Queued
  BY <1>1 DEF Queued
<1>5. done \in Seq(Tasks) /\ held[th] \notin Range(done)
  BY <1>3 DEF TypeInv, TypeOK, Apart
<1>6. Range(done') = Range(done) \cup {held[th]} /\ Injective(done')
  <2> DEFINE x == held[th]
  <2>1. x \in Tasks /\ Injective(done) /\ done' = Append(done, x) /\ x \notin Range(done)
    BY <1>1, <1>2, <1>5 DEF Apart
  <2> HIDE DEF x
  <2>2. Range(Append(done, x)) = Range(done) \cup {x} /\ Injective(Append(done, x))
    BY <2>1, <1>5, Appended
  <2>3. Range(done') = Range(done) \cup {x} /\ Injective(done')
    BY <2>1, <2>2
  <2> QED BY <2>3 DEF x
<1>7. Placed' = Placed
  BY <1>1, <1>3, <1>4, <1>6 DEF Placed
<1>8. Apart'
  <2>1. /\ (Queued \cap Held)' = {} /\ (Queued \cap Range(done))' = {}
        /\ (Queued \cap Range(batch))' = {} /\ (Held \cap Range(done))' = {}
        /\ (Held \cap Range(batch))' = {} /\ (Range(done) \cap Range(batch))' = {}
    BY <1>1, <1>3, <1>4, <1>6 DEF Apart
  <2> QED BY <2>1, <1>1, <1>3, <1>6, <1>7 DEF Apart
<1>9. PostInv'
  BY <1>1, <1>3, <1>4, <1>7 DEF PostInv, task
<1>10. HoldInv'
  BY <1>1 DEF HoldInv, TypeInv, TypeOK
<1> QED BY <1>8, <1>9, <1>10

(* The event loop's handler. *)
LEMMA PlaceHandler ==
    ASSUME TypeInv, PlaceInv, HandlerTake \/ HandlerComplete \/ HandlerReturn
    PROVE  PlaceInv'
<1> USE DEF PlaceInv
<1>1. CASE HandlerTake
  <2>1. /\ main = "user" /\ batch = <<>> /\ batch' = done /\ done' = <<>> /\ handling' = TRUE
        /\ UNCHANGED <<main, call, lock, pc, held, active, queue>>
    BY <1>1 DEF HandlerTake, Take, HoldInv
  <2>2. Queued' = Queued /\ Held' = Held
    BY <2>1 DEF Queued, Held
  <2>3. /\ Range(batch') = Range(done) /\ Range(done') = {} /\ Range(batch) = {}
        /\ Injective(done)' /\ (Injective(batch)' <=> Injective(done))
    BY <2>1, EmptyList
  <2>4. Placed' = Placed
    BY <2>2, <2>3 DEF Placed
  <2>5. Apart'
    BY <2>1, <2>2, <2>3, <2>4 DEF Apart
  <2>6. PostInv'
    BY <2>1, <2>2, <2>4 DEF PostInv, task
  <2> QED BY <2>1, <2>5, <2>6 DEF HoldInv
<1>2. CASE HandlerComplete
  <2>1. /\ main = "user" /\ handling /\ batch # <<>> /\ batch' = Tail(batch)
        /\ active' = active \ {Head(batch)} /\ batch \in Seq(Tasks)
        /\ UNCHANGED <<main, call, handling, lock, pc, held, done, queue>>
    BY <1>2 DEF HandlerComplete, CompleteTask, TypeInv, TypeOK
  <2>2. Queued' = Queued /\ Held' = Held
    BY <2>1 DEF Queued, Held
  <2>3. /\ Head(batch) \in Tasks /\ Range(batch) = Range(batch') \cup {Head(batch)}
        /\ Injective(batch) => Injective(batch') /\ Head(batch) \notin Range(batch')
    BY <2>1, Taken
  <2>4. Placed' = Placed \ {Head(batch)}
    BY <2>1, <2>2, <2>3 DEF Placed, Apart
  <2>5. Apart'
    BY <2>1, <2>2, <2>3, <2>4 DEF Apart
  <2>6. PostInv'
    BY <2>1, <2>2, <2>4 DEF PostInv, task
  <2> QED BY <2>1, <2>5, <2>6 DEF HoldInv
<1>3. CASE HandlerReturn
  <2>1. /\ main = "user" /\ batch = <<>> 
        /\ UNCHANGED <<main, call, batch, lock, pc, held, active, done, queue>>
    BY <1>3 DEF HandlerReturn
  <2>2. Apart' /\ Queued' = Queued /\ Held' = Held /\ Placed' = Placed
    BY <2>1, ApartFrame DEF Apart
  <2>3. PostInv'
    BY <2>1, <2>2 DEF PostInv, task
  <2> QED BY <2>1, <2>2, <2>3 DEF HoldInv
<1> QED BY <1>1, <1>2, <1>3

(* ngx_thread_pool_exit_worker. *)
LEMMA PlaceDestroy ==
    ASSUME TypeInv, PlaceInv,
           \/ \E p \in Pools : DestroyBegin(p)
           \/ DestroyPost \/ DestroySpin \/ DestroyEnd
    PROVE  PlaceInv'
<1> USE DEF PlaceInv
<1>1. /\ UNCHANGED <<queue, done, batch, held, pc, handling>>
      /\ active \ {Exit} \subseteq active'
      /\ Exit \notin Placed
  <2>1. Exit \notin Range(done) /\ Exit \notin Range(batch)
    BY PoolAssumption DEF PoolAssumption, TypeInv, TypeOK, Range
  <2>2. Exit \notin Queued \cup Held
    BY DEF DestroyBegin, DestroyPost, DestroySpin, Released, DestroyEnd, PostInv
  <2> QED BY <2>1, <2>2
          DEF DestroyBegin, DestroyPost, DestroySpin, DestroyEnd, Placed
<1>2. Placed \subseteq active'
  BY <1>1 DEF Apart
<1>3. Apart' /\ Queued' = Queued /\ Held' = Held /\ Placed' = Placed
  BY <1>1, <1>2, ApartFrame
<1>4. Exit \notin Queued \cup Held
  BY <1>1 DEF Placed
<1>5. PostInv'
  <2>1. ASSUME NEW p \in Pools, DestroyBegin(p) PROVE PostInv'
    BY <2>1, <1>3, <1>4 DEF DestroyBegin, PostInv, task
  <2>2. CASE DestroyPost
    BY <2>2, <1>3, <1>4 DEF DestroyPost, PostInv, task
  <2>3. CASE DestroySpin
    BY <2>3, <1>3, <1>4 DEF DestroySpin, PostInv, task
  <2>4. CASE DestroyEnd
    BY <2>4, <1>3, <1>4 DEF DestroyEnd, PostInv, task
  <2> QED BY <2>1, <2>2, <2>3, <2>4
<1> QED BY <1>1, <1>3, <1>5 DEF HoldInv

LEMMA PlaceNext == TypeInv /\ PlaceInv /\ [Next]_vars => PlaceInv'
<1> SUFFICES ASSUME TypeInv, PlaceInv, [Next]_vars PROVE PlaceInv'
  OBVIOUS
<1> USE DEF PlaceInv
<1>1. CASE InitFails \/ Initialised \/ ngx_thread_pool_exit_worker \/ ProcessExit
  <2>1. /\ main \in {"init", "user", "next"} /\ main' \in {"user", "next", "exited"}
        /\ UNCHANGED <<call, handling, batch, lock, pc, held, active, done, queue>>
    BY <1>1 DEF InitFails, Initialised, ngx_thread_pool_exit_worker, ProcessExit, Goto
  <2>2. Apart' /\ Queued' = Queued /\ Held' = Held /\ Placed' = Placed
    BY <2>1, ApartFrame DEF Apart
  <2>3. PostInv'
    BY <2>1, <2>2 DEF PostInv, task
  <2> QED BY <2>1, <2>2, <2>3 DEF HoldInv
<1>2. ASSUME NEW th \in Threads, CreateThread(th) \/ ngx_thread_pool_cycle(th)
      PROVE  PlaceInv'
  <2>1. CASE \/ Dequeue(th) \/ UnlockFails(th)
            \/ ngx_thread_pool_exit_handler(th) \/ AppendDone(th)
    BY <2>1, PlaceDequeue, PlaceExit, PlaceDone
  <2>2. CASE ~(Dequeue(th) \/ UnlockFails(th)
               \/ ngx_thread_pool_exit_handler(th) \/ AppendDone(th))
    <3>1. /\ UNCHANGED <<main, call, handling, batch, lock, held, active, done, queue>>
          /\ \E from, to \in {"none", "start", "enter", "test", "sleep", "woken",
                           "run", "append", "notify", "dead", "lost"} :
                /\ pc[th] = from /\ pc' = [pc EXCEPT ![th] = to]
                /\ from = "run" => to = "append"
                /\ from \notin {"append", "dead"}
      BY <1>2, <2>2
      DEF CreateThread, ngx_thread_pool_cycle, Start, StartFails, Enter, EnterFails,
          CondWait, CondWaitFails, SpuriousWakeup, Reacquire, Run, Notify, NotifyFails,
          Alone, Step
    <3>2. Apart' /\ Queued' = Queued /\ Held' = Held /\ Placed' = Placed
      BY <3>1, ApartFrame DEF Apart
    <3>3. PostInv'
      BY <3>1, <3>2 DEF PostInv, task
    <3>4. HoldInv'
      BY <3>1 DEF HoldInv, TypeInv, TypeOK
    <3> QED BY <3>2, <3>3, <3>4
  <2> QED BY <2>1, <2>2
<1>3. CASE UNCHANGED vars
  <2>1. UNCHANGED <<main, call, handling, batch, lock, pc, held, active, done, queue>>
    BY <1>3 DEF vars
  <2>2. Apart' /\ Queued' = Queued /\ Held' = Held /\ Placed' = Placed
    BY <2>1, ApartFrame DEF Apart
  <2>3. PostInv'
    BY <2>1, <2>2 DEF PostInv, task
  <2> QED BY <2>1, <2>2, <2>3 DEF HoldInv
<1> QED
  BY <1>1, <1>2, <1>3, PlacePost, PlaceAppend, PlaceHandler, PlaceDestroy
  DEF Next, Terminated

LEMMA PlaceCorrect == Spec => [](TypeInv /\ PlaceInv)
BY TypeInit, TypeNext, PlaceInit, PlaceNext, PTL DEF Spec

(* A task is in one place only, once, and active while it is in any.       *)
THEOREM OnePlaceCorrect == Spec => []OnePlace
<1>1. TypeInv /\ PlaceInv => OnePlace
  BY ApartOnePlace DEF PlaceInv
<1> QED BY <1>1, PlaceCorrect, PTL

(* No queue and no thread refers to the task on the stack of               *)
(* ngx_thread_pool_destroy once the function goes on.                      *)
THEOREM ExitTaskCorrect == Spec => []ExitTaskIsOurs
<1>1. PlaceInv => ExitTaskIsOurs
  BY DEF PlaceInv, PostInv, ExitTaskIsOurs
<1> QED BY <1>1, PlaceCorrect, PTL
-----------------------------------------------------------------------------
(***************************************************************************)
(* The refinement of TaskPool.  The status of a task depends on five facts *)
(* about it; a step that leaves them as they are leaves the status.        *)
(***************************************************************************)
Accepted(t) == t \in Queued \/ (main = "append" /\ task = t)
Returned(t) == HeldAt(t, "append") \/ t \in Range(done) \cup Range(batch)

(* A task that is accepted is not held, nor is one held that has returned. *)
LEMMA OneStatus ==
    ASSUME TypeInv, PlaceInv, NEW t \in Tasks
    PROVE  /\ ~(Accepted(t) /\ HeldAt(t, "run")) /\ ~(Accepted(t) /\ Returned(t))
           /\ ~(HeldAt(t, "run") /\ Returned(t))
           /\ HeldAt(t, "run") \/ Returned(t) => t \in active
           /\ Accepted(t) => t \in active
<1>1. \A th \in Threads : held[th] = t => t \in Held
  BY PoolAssumption DEF Held, PoolAssumption
<1>2. t \in Queued => t \notin Held /\ t \notin Range(done) /\ t \notin Range(batch)
  BY DEF PlaceInv, Apart
<1>3. main = "append" /\ task = t => t \in active /\ t \notin Placed
  BY DEF PlaceInv, PostInv
<1>4. t \in Held => t \notin Range(done) /\ t \notin Range(batch)
  BY DEF PlaceInv, Apart
<1>5. ~(HeldAt(t, "run") /\ HeldAt(t, "append"))
  <2>1. \A th, th2 \in Threads : held[th] = t /\ held[th2] = t => th = th2
    BY PoolAssumption DEF PoolAssumption, PlaceInv, Apart
  <2> QED BY <2>1 DEF HeldAt
<1>6. HeldAt(t, "run") \/ HeldAt(t, "append") => t \in Held
  BY <1>1 DEF HeldAt
<1>7. Placed \subseteq active
  BY DEF PlaceInv, Apart
<1> QED BY <1>2, <1>3, <1>4, <1>5, <1>6, <1>7 DEF Accepted, Returned, Placed

StatusRule(t) ==
    /\ t \notin active => Status(t) = "idle"
    /\ Accepted(t) => Status(t) = "posted"
    /\ HeldAt(t, "run") => Status(t) = "running"
    /\ Returned(t) => Status(t) = "finished"
    /\ t \in active /\ ~Accepted(t) /\ ~HeldAt(t, "run") /\ ~Returned(t)
            => Status(t) = "stranded"

LEMMA StatusIs == ASSUME TypeInv, PlaceInv, NEW t \in Tasks PROVE StatusRule(t)
<1> DEFINE a == Accepted(t)
           h == HeldAt(t, "run")
           r == Returned(t)
<1>1. /\ ~(a /\ h) /\ ~(a /\ r) /\ ~(h /\ r) /\ (a \/ h \/ r => t \in active)
  BY OneStatus
<1>2. Status(t) = CASE t \notin active -> "idle"
      [] t \in active /\ a -> "posted"
      [] t \in active /\ h -> "running"
      [] t \in active /\ r -> "finished"
      [] OTHER -> "stranded"
  BY DEF Status, Accepted, Returned
<1> HIDE DEF a, h, r
<1>3. t \notin active => Status(t) = "idle"
  BY <1>1, <1>2
<1>4. a => Status(t) = "posted"
  BY <1>1, <1>2
<1>5. h => Status(t) = "running"
  BY <1>1, <1>2
<1>6. r => Status(t) = "finished"
  BY <1>1, <1>2
<1>7. t \in active /\ ~a /\ ~h /\ ~r => Status(t) = "stranded"
  BY <1>1, <1>2
<1> QED BY <1>3, <1>4, <1>5, <1>6, <1>7 DEF a, h, r, StatusRule

LEMMA StatusIsNext == TypeInv' /\ PlaceInv' => (\A t \in Tasks : StatusRule(t))'
<1>1. TypeInv /\ PlaceInv => \A t \in Tasks : StatusRule(t)
  BY StatusIs
<1> QED BY <1>1, PTL

LEMMA StatusFrame ==
    ASSUME NEW t, (t \in active') <=> (t \in active), Accepted(t)' <=> Accepted(t),
           HeldAt(t, "run")' <=> HeldAt(t, "run"), Returned(t)' <=> Returned(t)
    PROVE  Status(t)' = Status(t)
BY DEF Status, Accepted, Returned

(* One task moves, as TaskPool allows. *)
LEMMA OneMove ==
    ASSUME NEW t \in Tasks, \A u \in Tasks \ {t} : Status(u)' = Status(u),
           \/ Status(t) = "idle" /\ Status(t)' \in {"posted", "stranded"}
           \/ Status(t) = "posted" /\ Status(t)' \in {"running", "stranded"}
           \/ Status(t) = "running" /\ Status(t)' = "finished"
           \/ Status(t) = "finished" /\ Status(t)' = "idle"
    PROVE  Abstract!Next
<1> DEFINE st == [u \in Tasks |-> Status(u)]
<1>1. st' = [st EXCEPT ![t] = Status(t)'] /\ st[t] = Status(t)
  OBVIOUS
<1> QED
  BY <1>1 DEF Abstract!Next, Abstract!Post, Abstract!Begin, Abstract!Finish,
              Abstract!Complete, Abstract!Strand, Abstract!Move

LEMMA NoMove ==
    ASSUME \A u \in Tasks : Status(u)' = Status(u)
    PROVE  UNCHANGED [u \in Tasks |-> Status(u)]
OBVIOUS

(* Who holds what after a step of one thread. *)
LEMMA HeldStep ==
    ASSUME TypeInv, NEW th \in Threads, NEW to, pc' = [pc EXCEPT ![th] = to],
           \A th2 \in Threads \ {th} : held'[th2] = held[th2],
           NEW t, NEW l
    PROVE  HeldAt(t, l)' <=> \/ \E th2 \in Threads \ {th} : held[th2] = t /\ pc[th2] = l
                             \/ held'[th] = t /\ to = l
<1>1. pc'[th] = to /\ \A th2 \in Threads \ {th} : pc'[th2] = pc[th2]
  BY DEF TypeInv, TypeOK
<1> QED BY <1>1 DEF HeldAt

Refined == Abstract!Next \/ UNCHANGED [u \in Tasks |-> Status(u)]

(* A thread moves on with nothing in its hands. *)
LEMMA RefineEmptyHanded ==
    ASSUME TypeInv, PlaceInv, NEW th \in Threads, NEW from, NEW to, Step(th, from, to),
           from \notin {"run", "append", "dead"},
           UNCHANGED <<active, queue, main, call, done, batch, held>>
    PROVE  UNCHANGED [u \in Tasks |-> Status(u)]
<1> SUFFICES ASSUME NEW t \in Tasks PROVE Status(t)' = Status(t)
  OBVIOUS
<1>1. held[th] = None /\ t # None
  BY PoolAssumption DEF PoolAssumption, PlaceInv, HoldInv, Step
<1>2. \A l : HeldAt(t, l)' <=> HeldAt(t, l)
  BY <1>1, HeldStep DEF Step, HeldAt
<1>3. Accepted(t)' <=> Accepted(t)
  BY DEF Accepted, Queued, task
<1>4. Returned(t)' <=> Returned(t)
  BY <1>2 DEF Returned
<1> QED BY <1>2, <1>3, <1>4, StatusFrame

LEMMA RefineRun ==
    ASSUME TypeInv, PlaceInv, TypeInv', PlaceInv', NEW th \in Threads, Run(th)
    PROVE  Refined
<1> DEFINE h == held[th]
<1>1. /\ h \in Tasks /\ h # None /\ pc[th] = "run" /\ pc' = [pc EXCEPT ![th] = "append"]
      /\ UNCHANGED <<active, queue, main, call, done, batch, held>>
  BY PoolAssumption DEF PoolAssumption, TypeInv, Run, Step, Alone
<1>2. Status(h) = "running"
  BY <1>1, StatusIs DEF StatusRule, HeldAt
<1>3. Status(h)' = "finished"
  <2>1. Returned(h)'
    BY <1>1 DEF Returned, HeldAt, TypeInv, TypeOK
  <2> QED BY <1>1, <2>1, StatusIsNext DEF StatusRule
<1>4. ASSUME NEW t \in Tasks \ {h} PROVE Status(t)' = Status(t)
  <2>1. \A l : HeldAt(t, l)' <=> HeldAt(t, l)
    BY <1>1, HeldStep DEF HeldAt
  <2>2. Accepted(t)' <=> Accepted(t)
    BY <1>1 DEF Accepted, Queued, task
  <2>3. Returned(t)' <=> Returned(t)
    BY <1>1, <2>1 DEF Returned
  <2> QED BY <1>1, <2>1, <2>2, <2>3, StatusFrame
<1> QED BY <1>1, <1>2, <1>3, <1>4, OneMove DEF Refined

LEMMA RefineExit ==
    ASSUME TypeInv, PlaceInv, NEW th \in Threads, ngx_thread_pool_exit_handler(th)
    PROVE  Refined
<1>1. /\ held[th] = Exit /\ pc' = [pc EXCEPT ![th] = "exited"]
      /\ held' = [held EXCEPT ![th] = None]
      /\ UNCHANGED <<active, queue, main, call, done, batch>>
  BY DEF ngx_thread_pool_exit_handler, RunExit, Step
<1>2. ASSUME NEW t \in Tasks PROVE Status(t)' = Status(t)
  <2>0. t # Exit /\ t # None /\ held'[th] = None
        /\ \A th2 \in Threads \ {th} : held'[th2] = held[th2]
    BY <1>1, PoolAssumption DEF PoolAssumption, TypeInv, TypeOK
  <2>1. \A l : HeldAt(t, l)' <=> HeldAt(t, l)
    BY <1>1, <2>0, HeldStep DEF HeldAt
  <2>2. Accepted(t)' <=> Accepted(t)
    BY <1>1 DEF Accepted, Queued, task
  <2>3. Returned(t)' <=> Returned(t)
    BY <1>1, <2>1 DEF Returned
  <2> QED BY <1>1, <2>1, <2>2, <2>3, StatusFrame
<1> QED BY <1>2, NoMove DEF Refined

LEMMA RefineAppendDone ==
    ASSUME TypeInv, PlaceInv, NEW th \in Threads, AppendDone(th)
    PROVE  Refined
<1> DEFINE h == held[th]
<1>1. /\ h \in Tasks /\ pc[th] = "append" /\ pc' = [pc EXCEPT ![th] = "notify"]
      /\ held' = [held EXCEPT ![th] = None] /\ done' = Append(done, h)
      /\ UNCHANGED <<active, queue, main, call, batch>>
  BY DEF TypeInv, AppendDone, Step
<1>2. Range(done') = Range(done) \cup {h}
  <2>1. done \in Seq(Tasks)
    BY DEF TypeInv, TypeOK
  <2> HIDE DEF h
  <2>2. Range(Append(done, h)) = Range(done) \cup {h}
    BY <1>1, <2>1, Appended
  <2> QED BY <1>1, <2>2
<1>3. held'[th] = None /\ \A th2 \in Threads \ {th} : held'[th2] = held[th2]
  BY <1>1 DEF TypeInv, TypeOK
<1>4. ASSUME NEW t \in Tasks PROVE Status(t)' = Status(t)
  <2>1. t # None
    BY PoolAssumption DEF PoolAssumption
  <2>2. HeldAt(t, "run")' <=> HeldAt(t, "run")
    BY <1>1, <1>3, <2>1, HeldStep DEF HeldAt
  <2>3. HeldAt(t, "append") <=> HeldAt(t, "append")' \/ t = h
    BY <1>1, <1>3, <2>1, HeldStep DEF HeldAt
  <2>4. Returned(t)' <=> Returned(t)
    BY <1>1, <1>2, <2>3 DEF Returned
  <2>5. Accepted(t)' <=> Accepted(t)
    BY <1>1 DEF Accepted, Queued, task
  <2> QED BY <1>1, <2>2, <2>4, <2>5, StatusFrame
<1> QED BY <1>4, NoMove DEF Refined

LEMMA RefineDequeue ==
    ASSUME TypeInv, PlaceInv, TypeInv', PlaceInv', NEW th \in Threads,
           Dequeue(th) \/ UnlockFails(th)
    PROVE  Refined
<1>1. /\ pc[th] = "test" /\ TakeFirst(th) /\ UNCHANGED <<mainVars, done>>
      /\ pc' = [pc EXCEPT ![th] = "run"] \/ pc' = [pc EXCEPT ![th] = "dead"]
  BY DEF Dequeue, UnlockFails, Step
<1>2. PICK h \in Queued :
             /\ h \in AllTasks /\ h \notin Held
             /\ held'[th] = h /\ held[th] = None
             /\ \A th2 \in Threads \ {th} : held'[th2] = held[th2]
             /\ Queued' = Queued \ {h} /\ Held' = Held \cup {h}
             /\ \A p \in Pools : /\ Injective(queue[p])'
                                /\ Range(queue[p])' \subseteq Range(queue[p])
  BY <1>1, Dequeued
<1>3. PICK to \in {"run", "dead"} : pc' = [pc EXCEPT ![th] = to]
  BY <1>1
<1>4. ASSUME NEW t \in Tasks, t # h PROVE Status(t)' = Status(t)
  <2>0. t # None
    BY PoolAssumption DEF PoolAssumption
  <2>1. \A l : HeldAt(t, l)' <=> HeldAt(t, l)
    BY <1>2, <1>3, <1>4, <2>0, HeldStep DEF HeldAt
  <2>2. Accepted(t)' <=> Accepted(t)
    BY <1>1, <1>2, <1>4 DEF Accepted, task
  <2>3. Returned(t)' <=> Returned(t)
    BY <1>1, <2>1 DEF Returned
  <2> QED BY <1>1, <2>1, <2>2, <2>3, StatusFrame
<1>5. CASE h = Exit
  <2>1. \A t \in Tasks : Status(t)' = Status(t)
    BY <1>4, <1>5, PoolAssumption DEF PoolAssumption
  <2> QED BY <2>1, NoMove DEF Refined
<1>6. CASE h \in Tasks
  <2>1. Status(h) = "posted"
    BY <1>2, <1>6, StatusIs DEF StatusRule, Accepted
  <2>2. h \in active' /\ h \notin Range(done) /\ h \notin Range(batch) /\ h \in Placed
    BY <1>1, <1>2 DEF PlaceInv, Apart, Placed
  <2>3. ~Accepted(h)'
    BY <1>1, <1>2, <2>2 DEF Accepted, task, PlaceInv, PostInv
  <2>4. h # None /\ \A th2 \in Threads : held[th2] # h
    BY <1>2, PoolAssumption DEF Held, PoolAssumption
  <2>5. ASSUME NEW l, l # to PROVE ~HeldAt(h, l)'
    <3>1. pc'[th] = to
      BY <1>3 DEF TypeInv, TypeOK
    <3> QED BY <1>2, <2>4, <2>5, <3>1 DEF HeldAt
  <2>6. ~Returned(h)'
    BY <1>1, <1>3, <2>2, <2>5 DEF Returned
  <2>7. Status(h)' \in {"running", "stranded"}
    BY <1>6, <2>2, <2>3, <2>6, StatusIsNext DEF StatusRule
  <2> QED BY <1>4, <1>6, <2>1, <2>7, OneMove DEF Refined
<1> QED BY <1>2, <1>5, <1>6

(* A step of the event loop that neither accepts nor completes a task.     *)
LEMMA RefineLoop ==
    ASSUME TypeInv, PlaceInv, UNCHANGED <<queue, pc, held>>,
           main # "append", main' # "append",
           Range(done') \cup Range(batch') = Range(done) \cup Range(batch),
           \A t \in Tasks : t \in active' <=> t \in active
    PROVE  Refined
<1>1. ASSUME NEW t \in Tasks PROVE Status(t)' = Status(t)
  <2>1. \A l : HeldAt(t, l)' <=> HeldAt(t, l)
    BY DEF HeldAt
  <2>2. Accepted(t)' <=> Accepted(t)
    BY DEF Accepted, Queued
  <2>3. Returned(t)' <=> Returned(t)
    BY <2>1 DEF Returned
  <2> QED BY <2>1, <2>2, <2>3, StatusFrame
<1> QED BY <1>1, NoMove DEF Refined

LEMMA RefineSignal ==
    ASSUME TypeInv, PlaceInv, TypeInv', PlaceInv', PostSignal \/ PostSignalFails
    PROVE  Refined
<1>1. /\ main = "post" /\ active' = active \cup {task} /\ task \notin active
      /\ UNCHANGED <<call, queue, done, batch, held>>
      /\ \/ UNCHANGED pc
         \/ \E th \in Threads : pc[th] = "sleep" /\ pc' = [pc EXCEPT ![th] = "woken"]
  BY DEF PostSignal, PostSignalFails, Signal, Wake, Sleeping, ThreadsOf,
         Step, PlaceInv, PostInv
<1>2. \A t \in Tasks : \A l : HeldAt(t, l)' <=> HeldAt(t, l)
  <2>1. CASE UNCHANGED pc
    BY <1>1, <2>1 DEF HeldAt
  <2>2. ASSUME NEW th \in Threads, pc[th] = "sleep", pc' = [pc EXCEPT ![th] = "woken"]
        PROVE  \A t \in Tasks : \A l : HeldAt(t, l)' <=> HeldAt(t, l)
    <3>1. held[th] = None /\ \A t \in Tasks : t # None
      BY <2>2, PoolAssumption DEF PoolAssumption, PlaceInv, HoldInv
    <3>2. \A th2 \in Threads \ {th} : pc'[th2] = pc[th2]
      BY <2>2 DEF TypeInv, TypeOK
    <3> QED BY <1>1, <3>1, <3>2 DEF HeldAt
  <2> QED BY <1>1, <2>1, <2>2
<1>3. \A t \in Tasks : Returned(t)' <=> Returned(t)
  BY <1>1, <1>2 DEF Returned
<1>4. Queued' = Queued /\ task' = task
  BY <1>1 DEF Queued, task
<1>5. ASSUME NEW t \in Tasks \ {task} PROVE Status(t)' = Status(t)
  <2>1. Accepted(t)' <=> Accepted(t)
    BY <1>4 DEF Accepted
  <2> QED BY <1>1, <1>2, <1>3, <2>1, StatusFrame
<1>6. CASE task \in Tasks
  <2>1. PICK k \in Tasks : k = task
    BY <1>6
  <2>2. Status(k) = "idle"
    BY <1>1, <2>1, StatusIs DEF StatusRule
  <2>3. k \notin Queued /\ k \notin Range(done) /\ k \notin Range(batch) /\ k \notin Held
    BY <1>1, <2>1 DEF PlaceInv, Apart, Placed
  <2>4. ~HeldAt(k, "run") /\ ~HeldAt(k, "append")
    BY <2>3, PoolAssumption DEF HeldAt, Held, PoolAssumption
  <2>5. k \in active' /\ ~HeldAt(k, "run")' /\ ~Returned(k)'
    BY <1>1, <1>2, <1>3, <2>1, <2>3, <2>4 DEF Returned
  <2>6. StatusRule(k)'
    BY StatusIsNext
  <2>7. Status(k)' \in {"posted", "stranded"}
    BY <2>5, <2>6 DEF StatusRule
  <2> QED BY <1>5, <2>1, <2>2, <2>7, OneMove DEF Refined
<1>7. CASE task \notin Tasks
  BY <1>5, <1>7, NoMove DEF Refined
<1> QED BY <1>6, <1>7

LEMMA RefineAppend == ASSUME TypeInv, PlaceInv, PostAppend PROVE Refined
<1>1. /\ main = "append" /\ main' # "append"
      /\ UNCHANGED <<call, active, done, batch, held, pc>>
  BY DEF PostAppend, AfterOK
<1>2. Queued' = Queued \cup {task}
  BY Enqueued
<1>3. ASSUME NEW t \in Tasks PROVE Status(t)' = Status(t)
  <2>1. \A l : HeldAt(t, l)' <=> HeldAt(t, l)
    BY <1>1 DEF HeldAt
  <2>2. Accepted(t)' <=> Accepted(t)
    BY <1>1, <1>2 DEF Accepted
  <2>3. Returned(t)' <=> Returned(t)
    BY <1>1, <2>1 DEF Returned
  <2> QED BY <1>1, <2>1, <2>2, <2>3, StatusFrame
<1> QED BY <1>3, NoMove DEF Refined

LEMMA RefineComplete ==
    ASSUME TypeInv, PlaceInv, TypeInv', PlaceInv', HandlerComplete PROVE Refined
<1>0. batch # <<>> /\ batch \in Seq(Tasks)
  BY DEF HandlerComplete, CompleteTask, TypeInv, TypeOK
<1>1. PICK h \in Tasks : h = Head(batch)
  BY <1>0, Taken
<1>2. /\ main = "user" /\ batch' = Tail(batch) /\ active' = active \ {h}
      /\ UNCHANGED <<main, call, pc, held, done, queue>>
  BY <1>1 DEF HandlerComplete, CompleteTask
<1>3. Range(batch) = Range(batch') \cup {h}
  BY <1>0, <1>1, <1>2, Taken
<1>4. Status(h) = "finished"
  BY <1>3, StatusIs DEF StatusRule, Returned
<1>5. Status(h)' = "idle"
  <2>1. StatusRule(h)'
    BY StatusIsNext
  <2> QED BY <1>2, <2>1 DEF StatusRule
<1>6. ASSUME NEW t \in Tasks \ {h} PROVE Status(t)' = Status(t)
  <2>1. \A l : HeldAt(t, l)' <=> HeldAt(t, l)
    BY <1>2 DEF HeldAt
  <2>2. Accepted(t)' <=> Accepted(t)
    BY <1>2 DEF Accepted, Queued
  <2>3. Returned(t)' <=> Returned(t)
    BY <1>2, <1>3, <2>1 DEF Returned
  <2> QED BY <1>2, <2>1, <2>2, <2>3, StatusFrame
<1> QED BY <1>4, <1>5, <1>6, OneMove DEF Refined

LEMMA RefineNext ==
    TypeInv /\ PlaceInv /\ TypeInv' /\ PlaceInv' /\ [Next]_vars => Refined
<1> SUFFICES ASSUME TypeInv, PlaceInv, TypeInv', PlaceInv', [Next]_vars PROVE Refined
  OBVIOUS
<1>1. ASSUME NEW th \in Threads, CreateThread(th) \/ ngx_thread_pool_cycle(th)
      PROVE  Refined
  <2>1. CASE Dequeue(th) \/ UnlockFails(th)
    BY <2>1, RefineDequeue
  <2>2. CASE ngx_thread_pool_exit_handler(th) \/ AppendDone(th) \/ Run(th)
    BY <2>2, RefineExit, RefineAppendDone, RefineRun
  <2>3. CASE ~(Dequeue(th) \/ UnlockFails(th) \/ ngx_thread_pool_exit_handler(th)
               \/ AppendDone(th) \/ Run(th))
    <3>1. /\ UNCHANGED <<main, call, batch, held, active, done, queue>>
          /\ \E from, to : Step(th, from, to) /\ from \notin {"run", "append", "dead"}
      BY <1>1, <2>3
      DEF CreateThread, ngx_thread_pool_cycle, Start, StartFails, Enter, EnterFails,
          CondWait, CondWaitFails, SpuriousWakeup, Reacquire, Notify, NotifyFails, Alone
    <3> QED BY <3>1, RefineEmptyHanded DEF Refined
  <2> QED BY <2>1, <2>2, <2>3
<1>2. CASE \/ InitFails \/ Initialised \/ ngx_thread_pool_exit_worker \/ ProcessExit
           \/ PostOverflow \/ PostLockFails
           \/ (\E p \in Pools, t \in Tasks : ngx_thread_task_post(p, t))
           \/ HandlerReturn \/ (\E p \in Pools : DestroyBegin(p))
           \/ DestroyPost \/ DestroySpin \/ DestroyEnd
  <2>1. /\ UNCHANGED <<queue, pc, held, done, batch>> /\ main # "append" /\ main' # "append"
        /\ active' \in {active, active \ {Exit}}
    BY <1>2 DEF InitFails, Initialised, ngx_thread_pool_exit_worker, ProcessExit, Goto,
       PostOverflow, PostLockFails, AfterError, ngx_thread_task_post, HandlerReturn,
       DestroyBegin, DestroyPost, DestroySpin, DestroyEnd
  <2>2. \A t \in Tasks : t \in active' <=> t \in active
    BY <2>1, PoolAssumption DEF PoolAssumption
  <2> QED BY <2>1, <2>2, RefineLoop
<1>3. CASE HandlerTake
  <2>1. /\ UNCHANGED <<queue, pc, held, active>> /\ main = "user" /\ main' = "user"
        /\ batch = <<>> /\ batch' = done /\ done' = <<>>
    BY <1>3 DEF HandlerTake, Take, PlaceInv, HoldInv
  <2>2. Range(done') \cup Range(batch') = Range(done) \cup Range(batch)
    BY <2>1
  <2> QED BY <2>1, <2>2, RefineLoop
<1>4. CASE UNCHANGED vars
  <2>1. \A t \in Tasks : Status(t)' = Status(t)
    BY <1>4, Zenon DEF vars, Status, HeldAt, Queued, task
  <2> QED BY <2>1, NoMove DEF Refined
<1> QED
  BY <1>1, <1>2, <1>3, <1>4, RefineSignal, RefineAppend, RefineComplete
  DEF Next, Terminated

(* The pools implement TaskPool: a task that ngx_thread_task_post accepts  *)
(* is run at most once and completed at most once, in this order, before   *)
(* it is accepted again.                                                   *)
THEOREM TasksCorrect == Spec => ImplementsTaskPool
<1>1. Init => Abstract!Init
  BY DEF Init, Abstract!Init, Status
<1>2. TypeInv /\ PlaceInv /\ TypeInv' /\ PlaceInv' /\ [Next]_vars
        => [Abstract!Next]_([t \in Tasks |-> Status(t)])
  BY RefineNext DEF Refined
<1> QED BY <1>1, <1>2, PlaceCorrect, PTL DEF Spec, ImplementsTaskPool, Abstract!Spec
-----------------------------------------------------------------------------
(***************************************************************************)
(* A pool's mutex belongs to the event loop exactly while it appends to    *)
(* that pool, and to a thread only while it looks at the queue, or for     *)
(* ever after its unlock failed.                                           *)
(***************************************************************************)
MutexInv ==
    /\ main = "append" => mtx[tp] = Main
    /\ \A p \in Pools : mtx[p] = Main => main = "append" /\ p = tp
    /\ \A th \in Threads : pc[th] = "test" => mtx[PoolOf[th]] = th
    /\ \A th \in Threads, p \in Pools :
            mtx[p] = th => p = PoolOf[th] /\ pc[th] \in {"test", "dead"}

LEMMA MutexInit == Init => MutexInv
BY PoolAssumption DEF PoolAssumption, Init, MutexInv

(* The event loop's steps outside the critical section of a post. *)
OtherLoopStep ==
    \/ InitFails \/ Initialised \/ ngx_thread_pool_exit_worker \/ ProcessExit
    \/ (\E p \in Pools, t \in Tasks : ngx_thread_task_post(p, t))
    \/ PostOverflow \/ PostLockFails \/ PostSignalFails
    \/ HandlerTake \/ HandlerComplete \/ HandlerReturn
    \/ (\E p \in Pools : DestroyBegin(p)) \/ DestroyPost \/ DestroySpin \/ DestroyEnd

LEMMA OtherLoopFrame ==
    ASSUME OtherLoopStep
    PROVE  /\ UNCHANGED <<pc, held, mtx, queue, waiting>>
           /\ main # "append" /\ main' # "append"
BY DEF OtherLoopStep, InitFails, Initialised, ngx_thread_pool_exit_worker, ProcessExit,
       Goto, PostOverflow, PostLockFails, PostSignalFails, AfterError,
       ngx_thread_task_post, HandlerTake, Take, HandlerComplete, CompleteTask,
       HandlerReturn, DestroyBegin, DestroyPost, DestroySpin, DestroyEnd

LEMMA Signalled ==
    ASSUME TypeInv, PostSignal
    PROVE  \/ UNCHANGED pc /\ Sleeping(tp) = {}
           \/ \E th \in Threads : /\ PoolOf[th] = tp /\ pc[th] = "sleep" /\ pc'[th] = "woken"
                                   /\ \A th2 \in Threads \ {th} : pc'[th2] = pc[th2]
<1>1. CASE Sleeping(tp) = {}
  BY <1>1 DEF PostSignal, Signal, Wake
<1>2. ASSUME NEW th \in Sleeping(tp), Step(th, "sleep", "woken")
      PROVE  /\ PoolOf[th] = tp /\ pc[th] = "sleep" /\ pc'[th] = "woken"
             /\ \A th2 \in Threads \ {th} : pc'[th2] = pc[th2]
  BY <1>2 DEF Sleeping, ThreadsOf, Step, TypeInv, TypeOK
<1> QED BY <1>1, <1>2 DEF PostSignal, Signal, Wake, Sleeping, ThreadsOf

LEMMA MutexThread ==
    ASSUME TypeInv, MutexInv, NEW th \in Threads,
           CreateThread(th) \/ ngx_thread_pool_cycle(th)
    PROVE  MutexInv'
<1> USE PoolAssumption DEF PoolAssumption
<1>0. PoolOf[th] \in Pools /\ UNCHANGED <<main, call>>
  BY DEF CreateThread, ngx_thread_pool_cycle, Start, StartFails, Enter, EnterFails,
         CondWait, CondWaitFails, SpuriousWakeup, Reacquire, Dequeue, UnlockFails, Run,
         ngx_thread_pool_exit_handler, RunExit, AppendDone, Notify, NotifyFails, Alone
<1>1. CASE Enter(th) \/ Reacquire(th)
  <2>1. /\ mtx[PoolOf[th]] = None /\ mtx' = [mtx EXCEPT ![PoolOf[th]] = th]
        /\ pc[th] # "test" /\ pc' = [pc EXCEPT ![th] = "test"]
    BY <1>1 DEF Enter, Reacquire, Lock, Step
  <2> QED BY <1>0, <2>1 DEF MutexInv, TypeInv, TypeOK, tp
<1>2. CASE CondWait(th) \/ CondWaitFails(th) \/ Dequeue(th)
  <2>1. /\ pc[th] = "test" /\ mtx' = [mtx EXCEPT ![PoolOf[th]] = None]
        /\ \E to \in {"sleep", "lost", "run"} : pc' = [pc EXCEPT ![th] = to]
    BY <1>2 DEF CondWait, CondWaitFails, Dequeue, Unlock, Step
  <2>2. mtx[PoolOf[th]] = th
    BY <2>1 DEF MutexInv
  <2> QED BY <1>0, <2>1, <2>2 DEF MutexInv, TypeInv, TypeOK, tp
<1>3. CASE UnlockFails(th)
  BY <1>0, <1>3 DEF UnlockFails, Step, MutexInv, TypeInv, TypeOK, tp
<1>4. CASE ~(Enter(th) \/ Reacquire(th) \/ CondWait(th) \/ CondWaitFails(th)
             \/ Dequeue(th) \/ UnlockFails(th))
  <2>1. /\ UNCHANGED mtx
        /\ \E from, to : Step(th, from, to) /\ from \notin {"test", "dead"} /\ to # "test"
    BY <1>4
    DEF CreateThread, ngx_thread_pool_cycle, Start, StartFails, EnterFails,
        SpuriousWakeup, Run, ngx_thread_pool_exit_handler, RunExit, AppendDone,
        Notify, NotifyFails, Alone
  <2> QED BY <1>0, <2>1 DEF Step, MutexInv, TypeInv, TypeOK, tp
<1> QED BY <1>1, <1>2, <1>3, <1>4

LEMMA MutexNext == TypeInv /\ MutexInv /\ [Next]_vars => MutexInv'
<1> SUFFICES ASSUME TypeInv, MutexInv, [Next]_vars PROVE MutexInv'
  OBVIOUS
<1> USE PoolAssumption DEF PoolAssumption
<1>1. CASE OtherLoopStep
  BY <1>1, OtherLoopFrame DEF MutexInv
<1>2. CASE PostSignal
  <2>1. /\ main = "post" /\ main' = "append" /\ call' = call /\ tp \in Pools
        /\ mtx[tp] = None /\ mtx' = [mtx EXCEPT ![tp] = Main]
    BY <1>2 DEF PostSignal, TypeInv, TypeOK, tp
  <2>2. \A th \in Threads : pc'[th] = pc[th] \/ (pc[th] = "sleep" /\ pc'[th] = "woken")
    BY <1>2, Signalled
  <2>3. \A p \in Pools : mtx'[p] = IF p = tp THEN Main ELSE mtx[p]
    BY <2>1 DEF TypeInv, TypeOK
  <2> QED BY <2>1, <2>2, <2>3 DEF MutexInv, tp
<1>3. CASE PostAppend
  <2>1. /\ main = "append" /\ main' # "append" /\ call' = call /\ tp \in Pools
        /\ mtx' = [mtx EXCEPT ![tp] = None] /\ pc' = pc
    BY <1>3 DEF PostAppend, AfterOK, TypeInv, TypeOK, tp
  <2> QED BY <2>1 DEF MutexInv, TypeInv, TypeOK, tp
<1>4. CASE UNCHANGED vars
  BY <1>4 DEF vars, MutexInv, tp
<1> QED
  BY <1>1, <1>2, <1>3, <1>4, MutexThread DEF Next, Terminated, OtherLoopStep
-----------------------------------------------------------------------------
(***************************************************************************)
(* DoneIsAnnounced is inductive: a thread that appends to the done list is *)
(* about to notify, and a notification is consumed with the whole list.    *)
(***************************************************************************)
LEMMA AnnouncedNext == TypeInv /\ DoneIsAnnounced /\ [Next]_vars => DoneIsAnnounced'
<1> SUFFICES ASSUME TypeInv, DoneIsAnnounced, [Next]_vars, done' # <<>>
             PROVE  notified' \/ (\E th \in Threads : pc'[th] = "notify") \/ faults' > 0
  BY DEF DoneIsAnnounced
<1>1. CASE PostAppend \/ (OtherLoopStep /\ ~HandlerTake)
  <2>1. UNCHANGED <<done, notified, pc>> /\ (faults > 0 => faults' > 0)
    BY <1>1 DEF OtherLoopStep, InitFails, Initialised, ngx_thread_pool_exit_worker,
       ProcessExit, Goto, PostOverflow, PostLockFails, PostSignalFails, PostAppend,
       ngx_thread_task_post, HandlerComplete, CompleteTask, HandlerReturn, DestroyBegin,
       DestroyPost, DestroySpin, DestroyEnd, TypeInv, TypeOK
  <2> QED BY <2>1 DEF DoneIsAnnounced
<1>2. CASE HandlerTake
  BY <1>2 DEF HandlerTake, Take
<1>3. CASE PostSignal
  <2>1. UNCHANGED <<done, notified, faults>>
    BY <1>3 DEF PostSignal
  <2>2. \A th \in Threads : pc[th] = "notify" => pc'[th] = "notify"
    BY <1>3, Signalled
  <2> QED BY <2>1, <2>2 DEF DoneIsAnnounced
<1>4. ASSUME NEW th \in Threads, CreateThread(th) \/ ngx_thread_pool_cycle(th)
      PROVE  notified' \/ (\E th2 \in Threads : pc'[th2] = "notify") \/ faults' > 0
  <2>1. CASE AppendDone(th)
    BY <2>1 DEF AppendDone, Step, TypeInv, TypeOK
  <2>2. CASE Notify(th)
    BY <2>2 DEF Notify
  <2>3. CASE StartFails(th) \/ EnterFails(th) \/ CondWaitFails(th) \/ UnlockFails(th)
             \/ NotifyFails(th)
    BY <2>3 DEF StartFails, EnterFails, CondWaitFails, UnlockFails, NotifyFails,
                TypeInv, TypeOK
  <2>4. CASE ~(AppendDone(th) \/ Notify(th) \/ StartFails(th) \/ EnterFails(th)
               \/ CondWaitFails(th) \/ UnlockFails(th) \/ NotifyFails(th))
    <3>1. /\ UNCHANGED <<done, notified, faults>>
          /\ \E from, to : Step(th, from, to) /\ from # "notify"
      BY <1>4, <2>4
      DEF CreateThread, ngx_thread_pool_cycle, Start, Enter, CondWait, SpuriousWakeup,
          Reacquire, Dequeue, Run, ngx_thread_pool_exit_handler, RunExit, Alone
    <3> QED BY <3>1 DEF DoneIsAnnounced, Step, TypeInv, TypeOK
  <2> QED BY <2>1, <2>2, <2>3, <2>4
<1>5. CASE UNCHANGED vars
  BY <1>5 DEF vars, DoneIsAnnounced
<1> QED
  BY <1>1, <1>2, <1>3, <1>4, <1>5 DEF Next, Terminated, OtherLoopStep

(* A task on the done list is always about to be noticed by the event      *)
(* loop, as long as no call has failed.                                    *)
THEOREM AnnouncedCorrect == Spec => []DoneIsAnnounced
<1>1. Init => DoneIsAnnounced
  BY DEF Init, DoneIsAnnounced
<1> QED BY <1>1, TypeInit, TypeNext, AnnouncedNext, PTL DEF Spec
-----------------------------------------------------------------------------
(***************************************************************************)
(* NoLostWakeup is inductive with the mutex and with what threads hold: a  *)
(* thread goes to sleep with the mutex, when nothing is queued and nothing *)
(* is about to be.                                                         *)
(***************************************************************************)
LEMMA AwakeFinite ==
    ASSUME NEW p
    PROVE  IsFiniteSet(Awake(p)) /\ Cardinality(Awake(p)) \in Nat
<1>1. Awake(p) \in SUBSET Threads
  BY DEF Awake, ThreadsOf
<1>2. IsFiniteSet(Awake(p))
  BY <1>1, FS_Subset, PoolAssumption DEF PoolAssumption
<1> QED BY <1>2, FS_CardinalityType

LEMMA AwakeFiniteNext ==
    ASSUME NEW p
    PROVE  IsFiniteSet(Awake(p)') /\ Cardinality(Awake(p)') \in Nat
<1>1. Awake(p)' \in SUBSET Threads
  BY DEF Awake, ThreadsOf
<1>2. IsFiniteSet(Awake(p)')
  BY <1>1, FS_Subset, PoolAssumption DEF PoolAssumption
<1> QED BY <1>2, FS_CardinalityType

LEMMA AwakeGrows ==
    ASSUME NEW p, Awake(p) \subseteq Awake(p)'
    PROVE  Cardinality(Awake(p)) <= Cardinality(Awake(p)')
<1> DEFINE S == Awake(p)
           T == Awake(p)'
<1>1. IsFiniteSet(T) /\ S \subseteq T
  BY AwakeFiniteNext
<1> HIDE DEF S, T
<1> QED BY <1>1, FS_Subset DEF S, T

(* What the pool's threads have to do, and a bound by those awake. *)
Need(p) == Len(queue[p]) + Appending(p)
Served(p) == Sleeping(p) # {} => Need(p) <= Cardinality(Awake(p))

(* Steps of a pool that need no more threads, and lose none. *)
LEMMA ServedFrame ==
    ASSUME TypeInv, TypeInv', NEW p \in Pools, Served(p), Sleeping(p)' \subseteq Sleeping(p),
           Need(p)' <= Need(p), Awake(p) \subseteq Awake(p)'
    PROVE  Served(p)'
<1>1. /\ Need(p) \in Nat /\ Need(p)' \in Nat /\ Cardinality(Awake(p)) \in Nat
      /\ Cardinality(Awake(p)') \in Nat
  BY AwakeFinite, AwakeFiniteNext DEF Need, Appending, TypeInv, TypeOK
<1>2. Cardinality(Awake(p)) <= Cardinality(Awake(p)')
  BY AwakeGrows
<1>3. ASSUME Sleeping(p)' # {} PROVE Need(p)' <= Cardinality(Awake(p)')
  <2>1. Need(p) <= Cardinality(Awake(p))
    BY <1>3 DEF Served
  <2> QED BY <1>1, <1>2, <2>1
<1> QED BY <1>3 DEF Served

LEMMA ServedSignal ==
    ASSUME TypeInv, TypeInv', HoldInv, PostSignal, NEW p \in Pools, Served(p)
    PROVE  Served(p)'
<1>1. /\ main = "post" /\ main' = "append" /\ UNCHANGED <<call, queue, held>>
  BY DEF PostSignal
<1>2. CASE p # tp
  <2>1. Need(p)' = Need(p)
    BY <1>1, <1>2 DEF Need, Appending, tp
  <2>2. Sleeping(p)' \subseteq Sleeping(p) /\ Awake(p) \subseteq Awake(p)'
    BY <1>1, <1>2, Signalled DEF Sleeping, Awake, ThreadsOf
  <2>3. Need(p) \in Nat
    BY DEF Need, Appending, TypeInv, TypeOK
  <2> QED BY <2>1, <2>2, <2>3, ServedFrame
<1>3. CASE p = tp /\ UNCHANGED pc /\ Sleeping(tp) = {}
  <2>1. Sleeping(p)' = {}
    BY <1>3 DEF Sleeping, ThreadsOf
  <2> QED BY <2>1 DEF Served
<1>4. CASE /\ p = tp
           /\ \E th \in Threads : /\ PoolOf[th] = tp /\ pc[th] = "sleep" /\ pc'[th] = "woken"
                                   /\ \A th2 \in Threads \ {th} : pc'[th2] = pc[th2]
  <2>1. PICK th \in Threads : /\ PoolOf[th] = p /\ pc[th] = "sleep" /\ pc'[th] = "woken"
                              /\ \A th2 \in Threads \ {th} : pc'[th2] = pc[th2]
    BY <1>4
  <2>2. held[th] # Exit
    BY <2>1, PoolAssumption DEF HoldInv, PoolAssumption
  <2>3. Awake(p)' = Awake(p) \cup {th} /\ th \notin Awake(p) /\ Sleeping(p) # {}
    BY <1>1, <2>1, <2>2 DEF Awake, Sleeping, ThreadsOf
  <2>4. Cardinality(Awake(p)') = Cardinality(Awake(p)) + 1
    BY <2>3, AwakeFinite, FS_AddElement
  <2>5. /\ Need(p)' = Need(p) + 1
        /\ Need(p) \in Nat /\ Cardinality(Awake(p)) \in Nat
    BY <1>1, <1>4, AwakeFinite DEF Need, Appending, TypeInv, TypeOK, tp
  <2> QED BY <2>3, <2>4, <2>5 DEF Served
<1> QED BY <1>2, <1>3, <1>4, Signalled

LEMMA ServedThread ==
    ASSUME TypeInv, TypeInv', HoldInv, MutexInv, NEW p \in Pools, Served(p),
           NEW th \in Threads, CreateThread(th) \/ ngx_thread_pool_cycle(th), faults' = 0
    PROVE  Served(p)'
<1>0. /\ UNCHANGED <<main, call>>
      /\ ~(StartFails(th) \/ EnterFails(th) \/ CondWaitFails(th) \/ UnlockFails(th)
           \/ NotifyFails(th))
  BY DEF CreateThread, ngx_thread_pool_cycle, Start, StartFails, Enter, EnterFails,
         CondWait, CondWaitFails, SpuriousWakeup, Reacquire, Dequeue, UnlockFails, Run,
         ngx_thread_pool_exit_handler, RunExit, AppendDone, Notify, NotifyFails, Alone,
         TypeInv, TypeOK
<1>1. Need(p) \in Nat
  BY DEF Need, Appending, TypeInv, TypeOK
<1>2. CASE CondWait(th)
  <2>1. /\ queue[PoolOf[th]] = <<>> /\ mtx[PoolOf[th]] = th /\ queue' = queue /\ held' = held
        /\ pc' = [pc EXCEPT ![th] = "sleep"] /\ pc[th] = "test" /\ PoolOf[th] \in Pools
    BY <1>2, PoolAssumption DEF PoolAssumption, CondWait, Step, MutexInv
  <2>2. CASE p = PoolOf[th]
    <3>1. Need(p)' = 0
      <4>1. ~(main = "append" /\ tp = p)
        BY <2>1, <2>2, PoolAssumption DEF PoolAssumption, MutexInv
      <4>2. Appending(p)' = 0
        BY <1>0, <4>1 DEF Appending, tp
      <4>3. queue'[p] = <<>>
        BY <2>1, <2>2
      <4> QED BY <4>2, <4>3 DEF Need
    <3>2. Cardinality(Awake(p)') \in Nat
      BY AwakeFiniteNext
    <3> QED BY <3>1, <3>2 DEF Served
  <2>3. CASE p # PoolOf[th]
    <3>1. Need(p)' = Need(p)
      BY <1>0, <2>1 DEF Need, Appending, tp
    <3>2. Sleeping(p)' \subseteq Sleeping(p) /\ Awake(p) \subseteq Awake(p)'
      BY <2>1, <2>3 DEF Sleeping, Awake, ThreadsOf, TypeInv, TypeOK
    <3> QED BY <1>1, <3>1, <3>2, ServedFrame
  <2> QED BY <2>2, <2>3
<1>3. CASE Dequeue(th)
  <2>1. /\ queue[PoolOf[th]] # <<>>
        /\ queue' = [queue EXCEPT ![PoolOf[th]] = Tail(queue[PoolOf[th]])]
        /\ pc' = [pc EXCEPT ![th] = "run"] /\ pc[th] = "test" /\ PoolOf[th] \in Pools
        /\ \A th2 \in Threads \ {th} : held'[th2] = held[th2]
    BY <1>3, PoolAssumption DEF PoolAssumption, Dequeue, TakeFirst, Step, TypeInv, TypeOK
  <2>2. Sleeping(p)' = Sleeping(p)
    BY <2>1 DEF Sleeping, ThreadsOf, TypeInv, TypeOK
  <2>3. CASE p = PoolOf[th]
    <3> DEFINE A == Awake(p)
               B == Awake(p)'
    <3>1. Len(queue'[p]) = Len(queue[p]) - 1
      <4>1. queue[p] \in Seq(AllTasks) /\ queue[p] # <<>> /\ queue'[p] = Tail(queue[p])
        BY <2>1, <2>3 DEF TypeInv, TypeOK
      <4> QED BY <4>1
    <3>2. Need(p)' = Need(p) - 1
      <4>1. Appending(p)' = Appending(p) /\ Appending(p) \in Nat
        BY <1>0 DEF Appending, tp
      <4>2. Len(queue[p]) \in Nat
        BY DEF TypeInv, TypeOK
      <4> QED BY <3>1, <4>1, <4>2 DEF Need
    <3>3. A \ {th} \subseteq B
      BY <2>1 DEF Awake, ThreadsOf, TypeInv, TypeOK
    <3>4. IsFiniteSet(A) /\ IsFiniteSet(B) /\ Cardinality(A) \in Nat /\ Cardinality(B) \in Nat
      BY AwakeFinite, AwakeFiniteNext
    <3> HIDE DEF A, B
    <3>5. Cardinality(A \ {th}) <= Cardinality(B)
      BY <3>3, <3>4, FS_Subset
    <3>6. Cardinality(A \ {th}) \in {Cardinality(A), Cardinality(A) - 1}
      BY <3>4, FS_RemoveElement
    <3>7. Cardinality(A) - 1 <= Cardinality(B)
      BY <3>4, <3>5, <3>6
    <3>8. ASSUME Sleeping(p)' # {} PROVE Need(p)' <= Cardinality(B)
      <4>1. Need(p) <= Cardinality(A)
        BY <2>2, <3>8 DEF Served, A
      <4> QED BY <1>1, <3>2, <3>4, <3>7, <4>1
    <3> QED BY <3>8 DEF Served, B
  <2>4. CASE p # PoolOf[th]
    <3>1. Need(p)' = Need(p)
      BY <1>0, <2>1, <2>4 DEF Need, Appending, tp, TypeInv, TypeOK
    <3>2. Awake(p) \subseteq Awake(p)'
      BY <2>1, <2>4 DEF Awake, ThreadsOf, TypeInv, TypeOK
    <3> QED BY <1>1, <2>2, <3>1, <3>2, ServedFrame
  <2> QED BY <2>3, <2>4
<1>4. CASE ngx_thread_pool_exit_handler(th) \/ AppendDone(th)
  <2>1. /\ queue' = queue /\ held' = [held EXCEPT ![th] = None]
        /\ \/ pc' = [pc EXCEPT ![th] = "exited"] /\ held[th] = Exit
           \/ pc' = [pc EXCEPT ![th] = "notify"]
    BY <1>4 DEF ngx_thread_pool_exit_handler, RunExit, AppendDone, Step
  <2>2. Need(p)' = Need(p)
    BY <1>0, <2>1 DEF Need, Appending, tp
  <2>3. Sleeping(p)' \subseteq Sleeping(p)
    BY <2>1 DEF Sleeping, ThreadsOf, TypeInv, TypeOK
  <2>4. ASSUME NEW th2 \in Awake(p) PROVE th2 \in Awake(p)'
    <3>1. th2 \in Threads /\ PoolOf[th2] = p /\ held[th2] # Exit
      BY DEF Awake, ThreadsOf
    <3>2. CASE th2 = th
      <4>1. pc'[th] = "notify" /\ held'[th] = None
        BY <2>1, <3>1, <3>2 DEF TypeInv, TypeOK
      <4> QED BY <3>1, <3>2, <4>1, PoolAssumption DEF PoolAssumption, Awake, ThreadsOf
    <3>3. CASE th2 # th
      <4>1. pc'[th2] = pc[th2] /\ held'[th2] = held[th2]
        BY <2>1, <3>1, <3>3 DEF TypeInv, TypeOK
      <4> QED BY <4>1 DEF Awake, ThreadsOf
    <3> QED BY <3>2, <3>3
  <2> QED BY <1>1, <2>2, <2>3, <2>4, ServedFrame
<1>5. CASE ~(CondWait(th) \/ Dequeue(th) \/ ngx_thread_pool_exit_handler(th)
             \/ AppendDone(th))
  <2>1. /\ queue' = queue /\ held' = held
        /\ \E to \in {"start", "enter", "test", "woken", "append"} :
               pc' = [pc EXCEPT ![th] = to]
    BY <1>0, <1>5
    DEF CreateThread, ngx_thread_pool_cycle, Start, Enter, SpuriousWakeup, Reacquire,
        Run, Notify, Step, Alone
  <2>2. Need(p)' = Need(p)
    BY <1>0, <2>1 DEF Need, Appending, tp
  <2>3. Sleeping(p)' \subseteq Sleeping(p)
    BY <2>1 DEF Sleeping, ThreadsOf, TypeInv, TypeOK
  <2>4. ASSUME NEW th2 \in Awake(p) PROVE th2 \in Awake(p)'
    <3>1. pc'[th2] \in {pc[th2], "start", "enter", "test", "woken", "append"}
      BY <2>1 DEF Awake, ThreadsOf, TypeInv, TypeOK
    <3> QED BY <2>1, <3>1 DEF Awake, ThreadsOf
  <2> QED BY <1>1, <2>2, <2>3, <2>4, ServedFrame
<1> QED BY <1>2, <1>3, <1>4, <1>5

LEMMA WakeupNext ==
    /\ TypeInv /\ TypeInv' /\ HoldInv /\ MutexInv /\ NoLostWakeup /\ [Next]_vars
    => NoLostWakeup'
<1> SUFFICES ASSUME TypeInv, TypeInv', HoldInv, MutexInv, NoLostWakeup, [Next]_vars,
                    faults' = 0, NEW p \in Pools
             PROVE  Served(p)'
  BY DEF NoLostWakeup, Served, Need
<1>1. faults = 0
  BY DEF Next, vars, TypeInv, TypeOK, CreateThread, InitFails, Initialised,
     ngx_thread_task_post, PostOverflow, PostLockFails, PostSignal, PostSignalFails,
     PostAppend, HandlerTake, Take, HandlerComplete, CompleteTask, HandlerReturn,
     ngx_thread_pool_exit_worker, DestroyBegin, DestroyPost, DestroySpin, DestroyEnd,
     ProcessExit, ngx_thread_pool_cycle, Terminated, Start, StartFails, Enter,
     EnterFails, CondWait, CondWaitFails, SpuriousWakeup, Reacquire, Dequeue,
     UnlockFails, Run, ngx_thread_pool_exit_handler, RunExit, AppendDone, Notify,
     NotifyFails
<1>2. Served(p)
  BY <1>1 DEF NoLostWakeup, Served, Need
<1>3. Need(p) \in Nat
  BY DEF Need, Appending, TypeInv, TypeOK
<1>4. CASE OtherLoopStep \/ UNCHANGED vars
  <2>1. UNCHANGED <<pc, held, queue>> /\ Appending(p)' = Appending(p)
    BY <1>4, OtherLoopFrame DEF vars, Appending, tp
  <2>2. /\ Need(p)' = Need(p) /\ Sleeping(p)' = Sleeping(p) /\ Awake(p)' = Awake(p)
    BY <2>1 DEF Need, Sleeping, Awake, ThreadsOf
  <2> QED BY <1>2, <1>3, <2>2, ServedFrame
<1>5. CASE PostAppend
  <2>1. /\ UNCHANGED <<pc, held, call>> /\ main = "append" /\ main' # "append"
        /\ queue' = [queue EXCEPT ![tp] = Append(queue[tp], task)]
        /\ tp \in Pools /\ task \in AllTasks
    BY <1>5 DEF PostAppend, AfterOK, TypeInv, TypeOK, tp, task
  <2>2. Sleeping(p)' = Sleeping(p) /\ Awake(p)' = Awake(p)
    BY <2>1 DEF Sleeping, Awake, ThreadsOf
  <2>3. Len(queue'[p]) = IF p = tp THEN Len(queue[p]) + 1 ELSE Len(queue[p])
    <3>1. queue[p] \in Seq(AllTasks)
      BY DEF TypeInv, TypeOK
    <3> QED BY <2>1, <3>1 DEF TypeInv, TypeOK
  <2>4. Need(p)' = Need(p)
    BY <2>1, <2>3 DEF Need, Appending, tp, TypeInv, TypeOK
  <2> QED BY <1>2, <1>3, <2>2, <2>4, ServedFrame
<1> QED
  BY <1>2, <1>4, <1>5, ServedSignal, ServedThread DEF Next, Terminated, OtherLoopStep

(* A thread sleeps only while the threads awake are enough for what is     *)
(* queued or about to be.                                                  *)
THEOREM WakeupCorrect == Spec => []NoLostWakeup
<1>1. Init => NoLostWakeup
  BY DEF Init, NoLostWakeup, Sleeping, ThreadsOf
<1>2. PlaceInv => HoldInv
  BY DEF PlaceInv
<1> QED
  BY <1>1, <1>2, PlaceCorrect, MutexInit, MutexNext, WakeupNext, PTL DEF Spec
-----------------------------------------------------------------------------
(***************************************************************************)
(* How the pools are destroyed, one after the other.  LeaveOrder: nothing  *)
(* is posted to a pool that was destroyed, and none is destroyed before    *)
(* the worker leaves its event loop.  ExitPlace: the exit task is the last *)
(* in the queue of the pool being destroyed, so that the queue is empty    *)
(* when a thread has taken it.  ExitCount: as many threads of that pool    *)
(* have exited as exit tasks were waited for.                              *)
(***************************************************************************)
BeforeExit == main \in {"init", "user"} \/ (main \in {"post", "append"} /\ task # Exit)
ExitPhase == main \in {"destroy", "spin"} \/ (main \in {"post", "append"} /\ task = Exit)
ExitedOf(p) == {th \in ThreadsOf(p) : pc[th] = "exited"}
JustReleased == IF main = "spin" /\ lock = 0 THEN 1 ELSE 0

LeaveOrder ==
    /\ BeforeExit => destroyed = {} /\ leaving = Pools
    /\ destroyed \cap leaving = {}
    /\ ExitPhase => tp \notin leaving \cup destroyed
ExitPlace ==
    /\ \A th \in Threads : held[th] = Exit => PoolOf[th] = tp
    /\ \A p \in Pools : Exit \in Range(queue[p]) => p = tp
    /\ Exit \in Queued => queue[tp][Len(queue[tp])] = Exit
    /\ ExitPhase /\ Exit \notin Queued /\ (posted > 0 \/ main = "spin") => queue[tp] = <<>>
ExitCount ==
    /\ \A p \in leaving : ExitedOf(p) = {}
    /\ ExitPhase => Cardinality(ExitedOf(tp)) = posted + JustReleased

LeaveInv == LeaveOrder /\ ExitPlace /\ ExitCount /\ DestroyedIsQuiet

LEMMA ExitedFinite ==
    ASSUME NEW p
    PROVE  /\ IsFiniteSet(ExitedOf(p)) /\ Cardinality(ExitedOf(p)) \in Nat
           /\ IsFiniteSet(ThreadsOf(p)) /\ Cardinality(ThreadsOf(p)) \in Nat
<1>1. ExitedOf(p) \in SUBSET Threads /\ ThreadsOf(p) \in SUBSET Threads
  BY DEF ExitedOf, ThreadsOf
<1>2. IsFiniteSet(ExitedOf(p)) /\ IsFiniteSet(ThreadsOf(p))
  BY <1>1, FS_Subset, PoolAssumption DEF PoolAssumption
<1> QED BY <1>2, FS_CardinalityType

LEMMA LeaveInit == Init => LeaveInv
<1> SUFFICES ASSUME Init PROVE LeaveInv
  OBVIOUS
<1>1. /\ main = "init" /\ leaving = Pools /\ destroyed = {}
      /\ \A th \in Threads : pc[th] = "none" /\ held[th] = None
      /\ \A p \in Pools : queue[p] = <<>>
  BY DEF Init
<1>2. \A p \in Pools : ExitedOf(p) = {}
  BY <1>1 DEF ExitedOf, ThreadsOf
<1>3. LeaveOrder
  BY <1>1 DEF LeaveOrder, BeforeExit, ExitPhase
<1>4. ExitPlace
  BY <1>1, EmptyList, PoolAssumption DEF PoolAssumption, ExitPlace, ExitPhase, Queued
<1>5. ExitCount
  BY <1>1, <1>2 DEF ExitCount, ExitPhase
<1> QED BY <1>1, <1>3, <1>4, <1>5 DEF LeaveInv, DestroyedIsQuiet

(* The steps of the thread that leaves.                                    *)
LEMMA LeaveBegin ==
    ASSUME TypeInv, PlaceInv, LeaveInv, NEW p \in Pools, DestroyBegin(p)
    PROVE  LeaveInv'
<1>1. /\ main = "next" /\ p \in leaving /\ leaving' = leaving \ {p}
      /\ call' = [pool |-> p, task |-> Exit] /\ posted' = 0 /\ main' = "destroy"
      /\ UNCHANGED <<destroyed, lock, mtx, queue, pc, held>>
  BY DEF DestroyBegin
<1>2. Exit \notin Queued /\ Exit \notin Held /\ Queued' = Queued
  BY <1>1 DEF PlaceInv, PostInv, Queued
<1>3. LeaveOrder'
  BY <1>1 DEF LeaveInv, LeaveOrder, BeforeExit, ExitPhase, tp
<1>4. ExitPlace'
  <2>1. \A th \in Threads : held[th] # Exit
    BY <1>2, PoolAssumption DEF Held, PoolAssumption
  <2>2. \A p2 \in Pools : Exit \notin Range(queue[p2])
    BY <1>2 DEF Queued
  <2> QED BY <1>1, <1>2, <2>1, <2>2 DEF ExitPlace
<1>5. \A p2 : ExitedOf(p2)' = ExitedOf(p2)
  BY <1>1 DEF ExitedOf, ThreadsOf
<1>6. ExitCount'
  <2>1. Cardinality(ExitedOf(p)) = 0
    BY <1>1, FS_EmptySet DEF LeaveInv, ExitCount
  <2> QED BY <1>1, <1>5, <2>1 DEF LeaveInv, ExitCount, JustReleased, tp
<1>7. DestroyedIsQuiet'
  BY <1>1 DEF LeaveInv, DestroyedIsQuiet, ThreadsOf
<1> QED BY <1>3, <1>4, <1>6, <1>7 DEF LeaveInv

LEMMA LeavePostSpin ==
    ASSUME TypeInv, PlaceInv, LeaveInv, DestroyPost \/ DestroySpin
    PROVE  LeaveInv'
<1>1. /\ UNCHANGED <<call, leaving, destroyed, mtx, queue, pc, held>>
      /\ \/ main = "destroy" /\ main' = "post" /\ posted' = posted
         \/ main = "spin" /\ lock = 0 /\ main' = "destroy" /\ posted' = posted + 1
  BY DEF DestroyPost, DestroySpin, Released
<1>2. ExitPhase /\ ExitPhase' /\ ~BeforeExit'
  BY <1>1 DEF ExitPhase, BeforeExit, PlaceInv, PostInv, task
<1>3. LeaveOrder'
  BY <1>1, <1>2 DEF LeaveInv, LeaveOrder, tp
<1>4. ExitPlace'
  <2>1. Queued' = Queued
    BY <1>1 DEF Queued
  <2>2. posted \in Nat
    BY DEF TypeInv, TypeOK
  <2>3. ExitPhase' /\ Exit \notin Queued' /\ (posted' > 0 \/ main' = "spin")
           => queue[tp] = <<>>
    BY <1>1, <1>2, <2>1, <2>2 DEF LeaveInv, ExitPlace
  <2> QED BY <1>1, <2>1, <2>3 DEF LeaveInv, ExitPlace, tp
<1>5. \A p2 : ExitedOf(p2)' = ExitedOf(p2)
  BY <1>1 DEF ExitedOf, ThreadsOf
<1>6. ExitCount'
  <2>1. posted \in Nat
    BY DEF TypeInv, TypeOK
  <2>2. posted' + JustReleased' = posted + JustReleased
    BY <1>1, <2>1 DEF JustReleased
  <2> QED BY <1>1, <1>2, <1>5, <2>2 DEF LeaveInv, ExitCount, tp
<1>7. DestroyedIsQuiet'
  BY <1>1 DEF LeaveInv, DestroyedIsQuiet, ThreadsOf
<1> QED BY <1>3, <1>4, <1>6, <1>7 DEF LeaveInv

LEMMA LeaveEnd ==
    ASSUME TypeInv, PlaceInv, MutexInv, LeaveInv, DestroyEnd
    PROVE  LeaveInv'
<1>1. /\ UNCHANGED <<call, leaving, posted, lock, mtx, queue, pc, held>>
      /\ main = "destroy" /\ main' = "next" /\ posted >= ThreadsToStop
      /\ destroyed' = destroyed \cup {tp} /\ tp \in Pools
  BY DEF DestroyEnd, TypeInv, TypeOK, tp
<1>2. ExitPhase /\ ~ExitPhase' /\ ~BeforeExit'
  BY <1>1 DEF ExitPhase, BeforeExit
<1>3. LeaveOrder'
  BY <1>1, <1>2 DEF LeaveInv, LeaveOrder
<1>4. ExitPlace'
  <2>1. Queued' = Queued
    BY <1>1 DEF Queued
  <2> QED BY <1>1, <1>2, <2>1 DEF LeaveInv, ExitPlace, tp
<1>5. \A p2 : ExitedOf(p2)' = ExitedOf(p2)
  BY <1>1 DEF ExitedOf, ThreadsOf
<1>6. ExitCount'
  BY <1>1, <1>2, <1>5 DEF LeaveInv, ExitCount
<1>7. Cardinality(ExitedOf(tp)) = posted
  <2>1. posted \in Nat
    BY DEF TypeInv, TypeOK
  <2> QED BY <1>1, <1>2, <2>1 DEF LeaveInv, ExitCount, JustReleased
<1>8. ExitedOf(tp) = ThreadsOf(tp)
  <2> DEFINE E == ExitedOf(tp)
             T == ThreadsOf(tp)
  <2>1. E \in SUBSET T
    BY DEF ExitedOf
  <2>2. /\ IsFiniteSet(T) /\ Cardinality(T) \in Nat /\ Cardinality(E) \in Nat
        /\ Cardinality(E) >= Cardinality(T)
    BY <1>1, <1>7, ExitedFinite DEF ThreadsToStop
  <2> HIDE DEF E, T
  <2>3. Cardinality(E) <= Cardinality(T)
    BY <2>1, <2>2, FS_Subset
  <2>4. Cardinality(E) = Cardinality(T)
    BY <2>2, <2>3
  <2>5. E = T
    BY <2>1, <2>2, <2>4, FS_Subset
  <2> QED BY <2>5 DEF E, T
<1>9. posted > 0
  <2>1. PICK th \in Threads : PoolOf[th] = tp
    BY <1>1, PoolAssumption DEF PoolAssumption
  <2>2. ThreadsOf(tp) # {}
    BY <2>1 DEF ThreadsOf
  <2>3. Cardinality(ExitedOf(tp)) # 0
    BY <1>8, <2>2, ExitedFinite, FS_EmptySet
  <2> QED BY <1>7, <2>3, ExitedFinite
<1>10. queue[tp] = <<>>
  <2>1. Exit \notin Queued
    BY <1>1 DEF PlaceInv, PostInv
  <2> QED BY <1>2, <1>9, <2>1 DEF LeaveInv, ExitPlace
<1>11. mtx[tp] = None
  <2>1. mtx[tp] \in Threads \cup {Main, None}
    BY <1>1 DEF TypeInv, TypeOK
  <2>2. mtx[tp] # Main
    BY <1>1 DEF MutexInv
  <2>3. \A th \in Threads : mtx[tp] # th
    BY <1>1, <1>8 DEF MutexInv, ExitedOf, ThreadsOf
  <2> QED BY <2>1, <2>2, <2>3
<1>12. \A th \in ThreadsOf(tp) : pc[th] = "exited"
  BY <1>8 DEF ExitedOf
<1>13. DestroyedIsQuiet'
  BY <1>1, <1>10, <1>11, <1>12 DEF LeaveInv, DestroyedIsQuiet, ThreadsOf
<1> QED BY <1>3, <1>4, <1>6, <1>13 DEF LeaveInv

(* The other steps of the event loop before the critical section.          *)
LEMMA LeaveLoop ==
    ASSUME TypeInv, PlaceInv, LeaveInv, OtherLoopStep,
           ~((\E p \in Pools : DestroyBegin(p)) \/ DestroyPost \/ DestroySpin \/ DestroyEnd)
    PROVE  LeaveInv'
<1>1. /\ UNCHANGED <<leaving, destroyed, posted, lock, mtx, queue, pc, held>>
      /\ \/ main = "init" /\ main' \in {"user", "exited"} /\ call' = call
         \/ /\ main = "user" /\ main' = "post"
            /\ \E p \in Pools, t \in Tasks : call' = [pool |-> p, task |-> t]
         \/ main = "post" /\ main' = AfterError /\ call' = call
         \/ main = "user" /\ main' \in {"user", "next"} /\ call' = call
         \/ main = "next" /\ main' = "exited" /\ call' = call
  BY DEF OtherLoopStep, InitFails, Initialised, ngx_thread_pool_exit_worker, ProcessExit,
         Goto, PostOverflow, PostLockFails, PostSignalFails, ngx_thread_task_post,
         HandlerTake, Take, HandlerComplete, CompleteTask, HandlerReturn
<1>2. ~ExitPhase' /\ (BeforeExit' => BeforeExit) /\ main # "spin"
  BY <1>1, PoolAssumption
  DEF PoolAssumption, ExitPhase, BeforeExit, AfterError, task
<1>3. LeaveOrder'
  BY <1>1, <1>2 DEF LeaveInv, LeaveOrder
<1>4. Exit \notin Queued /\ Exit \notin Held /\ Queued' = Queued
  BY <1>1, <1>2 DEF PlaceInv, PostInv, Queued
<1>5. ExitPlace'
  <2>1. \A th \in Threads : held[th] # Exit
    BY <1>4, PoolAssumption DEF Held, PoolAssumption
  <2>2. \A p2 \in Pools : Exit \notin Range(queue[p2])
    BY <1>4 DEF Queued
  <2> QED BY <1>1, <1>2, <1>4, <2>1, <2>2 DEF ExitPlace
<1>6. \A p2 : ExitedOf(p2)' = ExitedOf(p2)
  BY <1>1 DEF ExitedOf, ThreadsOf
<1>7. ExitCount'
  BY <1>1, <1>2, <1>6 DEF LeaveInv, ExitCount
<1>8. DestroyedIsQuiet'
  BY <1>1 DEF LeaveInv, DestroyedIsQuiet, ThreadsOf
<1> QED BY <1>3, <1>5, <1>7, <1>8 DEF LeaveInv

LEMMA LeaveSignal ==
    ASSUME TypeInv, PlaceInv, LeaveInv, PostSignal
    PROVE  LeaveInv'
<1>1. /\ UNCHANGED <<leaving, destroyed, posted, lock, call, queue, held>>
      /\ main = "post" /\ main' = "append" /\ mtx' = [mtx EXCEPT ![tp] = Main]
      /\ tp \in Pools
  BY DEF PostSignal, TypeInv, TypeOK, tp
<1>2. (ExitPhase' <=> ExitPhase) /\ (BeforeExit' <=> BeforeExit)
  BY <1>1 DEF ExitPhase, BeforeExit, task
<1>3. LeaveOrder'
  BY <1>1, <1>2 DEF LeaveInv, LeaveOrder, tp
<1>4. ExitPlace'
  <2>1. Queued' = Queued
    BY <1>1 DEF Queued
  <2> QED BY <1>1, <1>2, <2>1 DEF LeaveInv, ExitPlace, tp
<1>5. \A th \in Threads : pc'[th] = "exited" <=> pc[th] = "exited"
  BY Signalled
<1>6. \A p2 : ExitedOf(p2)' = ExitedOf(p2)
  BY <1>5 DEF ExitedOf, ThreadsOf
<1>7. ExitCount'
  BY <1>1, <1>2, <1>6 DEF LeaveInv, ExitCount, JustReleased, tp
<1>8. DestroyedIsQuiet'
  <2>1. tp \notin destroyed
    BY <1>1 DEF LeaveInv, LeaveOrder, BeforeExit, ExitPhase
  <2>2. \A p \in destroyed : mtx'[p] = mtx[p]
    BY <1>1, <2>1 DEF TypeInv, TypeOK
  <2> QED BY <1>1, <1>5, <2>2 DEF LeaveInv, DestroyedIsQuiet, ThreadsOf
<1> QED BY <1>3, <1>4, <1>7, <1>8 DEF LeaveInv

LEMMA LeaveAppend ==
    ASSUME TypeInv, PlaceInv, LeaveInv, PostAppend
    PROVE  LeaveInv'
<1>1. /\ UNCHANGED <<leaving, destroyed, posted, lock, call, pc, held>>
      /\ main = "append" /\ main' = AfterOK /\ mtx' = [mtx EXCEPT ![tp] = None]
      /\ queue' = [queue EXCEPT ![tp] = Append(queue[tp], task)]
      /\ tp \in Pools /\ task \in AllTasks
  BY DEF PostAppend, TypeInv, TypeOK, tp, task
<1>2. (ExitPhase' <=> ExitPhase) /\ (BeforeExit' <=> BeforeExit)
  BY <1>1 DEF ExitPhase, BeforeExit, AfterOK, task
<1>3. LeaveOrder'
  BY <1>1, <1>2 DEF LeaveInv, LeaveOrder, tp
<1>4. ExitPlace'
  <2>1. Exit \notin Queued /\ Exit \notin Held
    BY <1>1 DEF PlaceInv, PostInv
  <2>2. \A th \in Threads : held[th] # Exit
    BY <2>1, PoolAssumption DEF Held, PoolAssumption
  <2>3. \A p \in Pools : Exit \in Range(queue'[p]) => p = tp /\ task = Exit
    BY <2>1, Enqueued DEF Queued
  <2>4. Queued' = Queued \cup {task}
    BY Enqueued
  <2>5. queue'[tp][Len(queue'[tp])] = task
    <3>1. queue[tp] \in Seq(AllTasks) /\ queue'[tp] = Append(queue[tp], task)
      BY <1>1 DEF TypeInv, TypeOK
    <3> QED BY <1>1, <3>1, AppendProperties
  <2>6. ExitPhase => task = Exit
    BY <1>1 DEF ExitPhase
  <2> QED BY <1>1, <1>2, <2>1, <2>2, <2>3, <2>4, <2>5, <2>6 DEF ExitPlace, tp
<1>5. \A p2 : ExitedOf(p2)' = ExitedOf(p2)
  BY <1>1 DEF ExitedOf, ThreadsOf
<1>6. ExitCount'
  <2>1. task = Exit => lock = 1
    BY <1>1 DEF PlaceInv, PostInv
  <2>2. ExitPhase => JustReleased' = 0 /\ JustReleased = 0
    BY <1>1, <2>1 DEF ExitPhase, JustReleased
  <2> QED BY <1>1, <1>2, <1>5, <2>2 DEF LeaveInv, ExitCount, tp
<1>7. DestroyedIsQuiet'
  <2>1. tp \notin destroyed
    BY <1>1 DEF LeaveInv, LeaveOrder, BeforeExit, ExitPhase
  <2>2. \A p \in destroyed : mtx'[p] = mtx[p] /\ queue'[p] = queue[p]
    BY <1>1, <2>1 DEF TypeInv, TypeOK
  <2> QED BY <1>1, <2>2 DEF LeaveInv, DestroyedIsQuiet, ThreadsOf
<1> QED BY <1>3, <1>4, <1>6, <1>7 DEF LeaveInv

(* The steps of the pool threads.                                          *)
LEMMA LeaveTaken ==
    ASSUME TypeInv, PlaceInv, LeaveInv, NEW th \in Threads, Dequeue(th) \/ UnlockFails(th)
    PROVE  LeaveInv'
<1> DEFINE p0 == PoolOf[th]
<1>1. /\ pc[th] = "test" /\ TakeFirst(th)
      /\ UNCHANGED <<main, call, leaving, destroyed, posted, lock>>
      /\ \E to \in {"run", "dead"} : pc' = [pc EXCEPT ![th] = to]
      /\ \A p \in Pools \ {p0} : mtx'[p] = mtx[p]
  BY DEF Dequeue, UnlockFails, Step, Unlock, TypeInv, TypeOK
<1>2. PICK h \in Queued :
             /\ h \in AllTasks /\ h \notin Held
             /\ held'[th] = h /\ held[th] = None
             /\ \A th2 \in Threads \ {th} : held'[th2] = held[th2]
             /\ Queued' = Queued \ {h} /\ Held' = Held \cup {h}
             /\ \A p \in Pools : /\ Injective(queue[p])'
                                /\ Range(queue[p])' \subseteq Range(queue[p])
  BY <1>1, Dequeued
<1>3. /\ p0 \in Pools /\ queue[p0] # <<>> /\ queue[p0] \in Seq(AllTasks)
      /\ held'[th] = Head(queue[p0]) /\ queue'[p0] = Tail(queue[p0])
      /\ \A p \in Pools \ {p0} : queue'[p] = queue[p]
  <2>1. /\ queue[p0] # <<>> /\ held' = [held EXCEPT ![th] = Head(queue[p0])]
        /\ queue' = [queue EXCEPT ![p0] = Tail(queue[p0])]
    BY <1>1 DEF TakeFirst
  <2>2. p0 \in Pools /\ queue[p0] \in Seq(AllTasks)
    BY PoolAssumption DEF PoolAssumption, TypeInv, TypeOK
  <2> QED BY <2>1, <2>2 DEF TypeInv, TypeOK
<1>4. \A th2 \in Threads : pc'[th2] = "exited" <=> pc[th2] = "exited"
  BY <1>1 DEF TypeInv, TypeOK
<1>5. LeaveOrder'
  BY <1>1 DEF LeaveInv, LeaveOrder, BeforeExit, ExitPhase, tp, task
<1>6. h \in Range(queue[p0])
  BY <1>2, <1>3, Taken
<1>7. ExitPlace'
  <2>1. ASSUME NEW th2 \in Threads, held'[th2] = Exit PROVE PoolOf[th2] = tp
    BY <1>2, <1>3, <1>6, <2>1 DEF LeaveInv, ExitPlace
  <2>2. ASSUME NEW p \in Pools, Exit \in Range(queue'[p]) PROVE p = tp
    BY <1>2, <2>2 DEF LeaveInv, ExitPlace
  <2>3. ASSUME Exit \in Queued' PROVE queue'[tp][Len(queue'[tp])] = Exit
    <3>1. Exit \in Queued /\ h # Exit
      BY <1>2, <2>3
    <3>2. queue[tp][Len(queue[tp])] = Exit
      BY <3>1 DEF LeaveInv, ExitPlace
    <3>3. CASE p0 = tp
      <4> DEFINE q == queue[p0]
      <4>1. q \in Seq(AllTasks) /\ q # <<>> /\ q[Len(q)] = Exit /\ Head(q) # Exit
            /\ queue'[tp] = Tail(q)
        BY <1>2, <1>3, <3>1, <3>2, <3>3
      <4> HIDE DEF q
      <4>2. Len(q) \in Nat /\ Len(q) > 1
        BY <4>1
      <4>3. Tail(q)[Len(Tail(q))] = q[Len(q)]
        BY <4>1, <4>2
      <4> QED BY <4>1, <4>3
    <3>4. CASE p0 # tp
      <4>1. tp \in Pools
        BY DEF TypeInv, TypeOK, tp
      <4> QED BY <1>3, <3>2, <3>4, <4>1
    <3> QED BY <3>3, <3>4
  <2>4. ASSUME ExitPhase, Exit \notin Queued', posted > 0 \/ main = "spin"
        PROVE  queue'[tp] = <<>>
    <3>0. tp \in Pools
      BY DEF TypeInv, TypeOK, tp
    <3>1. CASE Exit \notin Queued
      <4>1. queue[tp] = <<>>
        BY <2>4, <3>1 DEF LeaveInv, ExitPlace
      <4>2. p0 # tp
        BY <1>3, <4>1
      <4> QED BY <1>3, <3>0, <4>1, <4>2
    <3>2. CASE Exit \in Queued
      <4>1. h = Exit
        BY <1>2, <2>4, <3>2
      <4>2. p0 = tp /\ queue[tp][Len(queue[tp])] = Exit
        BY <1>3, <1>6, <3>2, <4>1 DEF LeaveInv, ExitPlace
      <4> DEFINE q == queue[p0]
      <4>3. /\ q \in Seq(AllTasks) /\ q # <<>> /\ q[Len(q)] = Exit /\ Head(q) = Exit
            /\ queue'[tp] = Tail(q) /\ Injective(q)
        BY <1>2, <1>3, <4>1, <4>2 DEF PlaceInv, Apart
      <4> HIDE DEF q
      <4>4. 1 \in DOMAIN q /\ Len(q) \in DOMAIN q /\ q[1] = Exit
        BY <4>3
      <4>5. Len(q) = 1
        BY <4>3, <4>4 DEF Injective
      <4>6. Tail(q) = <<>>
        BY <4>3, <4>5
      <4> QED BY <4>3, <4>6
    <3> QED BY <3>1, <3>2
  <2>5. tp' = tp /\ (ExitPhase' <=> ExitPhase)
    BY <1>1 DEF tp, ExitPhase, task
  <2> QED BY <1>1, <2>1, <2>2, <2>3, <2>4, <2>5 DEF ExitPlace
<1>8. \A p2 : ExitedOf(p2)' = ExitedOf(p2)
  BY <1>4 DEF ExitedOf, ThreadsOf
<1>9. ExitCount'
  BY <1>1, <1>8 DEF LeaveInv, ExitCount, ExitPhase, JustReleased, tp, task
<1>10. DestroyedIsQuiet'
  <2>1. p0 \notin destroyed
    BY <1>3 DEF LeaveInv, DestroyedIsQuiet
  <2>2. destroyed \subseteq Pools
    BY DEF TypeInv, TypeOK
  <2> QED BY <1>1, <1>3, <1>4, <2>1, <2>2 DEF LeaveInv, DestroyedIsQuiet, ThreadsOf
<1> QED BY <1>5, <1>7, <1>9, <1>10 DEF LeaveInv

LEMMA LeaveExit ==
    ASSUME TypeInv, PlaceInv, LeaveInv, NEW th \in Threads, ngx_thread_pool_exit_handler(th)
    PROVE  LeaveInv'
<1>1. /\ pc[th] = "run" /\ held[th] = Exit /\ held' = [held EXCEPT ![th] = None]
      /\ lock' = 0 /\ pc' = [pc EXCEPT ![th] = "exited"]
      /\ UNCHANGED <<main, call, leaving, posted, destroyed, mtx, queue>>
  BY DEF ngx_thread_pool_exit_handler, RunExit, Step
<1>2. main = "spin" /\ lock = 1 /\ Queued' = Queued
  <2>1. Exit \in Held
    BY <1>1, PoolAssumption DEF PoolAssumption, Held
  <2> QED BY <1>1, <2>1 DEF PlaceInv, PostInv, Queued
<1>3. PoolOf[th] = tp /\ ExitPhase /\ ExitPhase'
  BY <1>1, <1>2 DEF LeaveInv, ExitPlace, ExitPhase
<1>4. LeaveOrder'
  BY <1>1 DEF LeaveInv, LeaveOrder, BeforeExit, ExitPhase, tp, task
<1>5. ExitPlace'
  <2>1. \A th2 \in Threads : held'[th2] = Exit => held[th2] = Exit
    BY <1>1, PoolAssumption DEF PoolAssumption, TypeInv, TypeOK
  <2> QED BY <1>1, <1>2, <1>3, <2>1 DEF LeaveInv, ExitPlace, tp
<1>6. \A th2 \in Threads : pc'[th2] = "exited" <=> pc[th2] = "exited" \/ th2 = th
  BY <1>1 DEF TypeInv, TypeOK
<1>7. ExitCount'
  <2>1. \A p2 : p2 # tp => ExitedOf(p2)' = ExitedOf(p2)
    BY <1>3, <1>6 DEF ExitedOf, ThreadsOf
  <2>2. tp \notin leaving
    BY <1>3 DEF LeaveInv, LeaveOrder
  <2>3. ExitedOf(tp)' = ExitedOf(tp) \cup {th} /\ th \notin ExitedOf(tp)
    BY <1>1, <1>3, <1>6 DEF ExitedOf, ThreadsOf, tp
  <2>4. Cardinality(ExitedOf(tp)') = Cardinality(ExitedOf(tp)) + 1
    BY <2>3, ExitedFinite, FS_AddElement
  <2>5. JustReleased = 0 /\ JustReleased' = 1 /\ posted \in Nat
    BY <1>1, <1>2 DEF JustReleased, TypeInv, TypeOK
  <2>6. Cardinality(ExitedOf(tp)) = posted + 0
    BY <1>3, <2>5 DEF LeaveInv, ExitCount
  <2>7. Cardinality(ExitedOf(tp)') = posted' + JustReleased'
    BY <1>1, <2>4, <2>5, <2>6
  <2> QED BY <1>1, <2>1, <2>2, <2>7 DEF LeaveInv, ExitCount
<1>8. DestroyedIsQuiet'
  BY <1>1, <1>6 DEF LeaveInv, DestroyedIsQuiet, ThreadsOf
<1> QED BY <1>4, <1>5, <1>7, <1>8 DEF LeaveInv

LEMMA LeaveThread ==
    ASSUME TypeInv, PlaceInv, LeaveInv, NEW th \in Threads,
           CreateThread(th) \/ ngx_thread_pool_cycle(th),
           ~(Dequeue(th) \/ UnlockFails(th) \/ ngx_thread_pool_exit_handler(th))
    PROVE  LeaveInv'
<1> USE DEF CreateThread, ngx_thread_pool_cycle, Start, StartFails, Enter, EnterFails,
        CondWait, CondWaitFails, SpuriousWakeup, Reacquire, Run, AppendDone, Notify,
        NotifyFails, Alone
<1>a. UNCHANGED <<main, call, leaving, posted, destroyed, lock, queue>>
  OBVIOUS
<1>b. held' \in {held, [held EXCEPT ![th] = None]}
  OBVIOUS
<1>c. \E from, to : Step(th, from, to) /\ from # "exited" /\ to # "exited"
  OBVIOUS
<1>d. \E x : mtx' \in {mtx, [mtx EXCEPT ![PoolOf[th]] = x]}
  BY DEF Lock, Unlock
<1> HIDE DEF CreateThread, ngx_thread_pool_cycle, Start, StartFails, Enter, EnterFails,
        CondWait, CondWaitFails, SpuriousWakeup, Reacquire, Run, AppendDone, Notify,
        NotifyFails, Alone
<1>1. /\ UNCHANGED <<main, call, leaving, posted, destroyed, lock, queue>>
      /\ \A th2 \in Threads : held'[th2] = Exit => held[th2] = Exit
      /\ \E from, to : Step(th, from, to) /\ from # "exited" /\ to # "exited"
      /\ \A p \in Pools \ {PoolOf[th]} : mtx'[p] = mtx[p]
  BY <1>a, <1>b, <1>c, <1>d, PoolAssumption DEF PoolAssumption, TypeInv, TypeOK
<1>2. pc[th] # "exited"
  BY <1>1 DEF Step
<1>3. \A th2 \in Threads : pc'[th2] = "exited" <=> pc[th2] = "exited"
  BY <1>1 DEF Step, TypeInv, TypeOK
<1>4. LeaveOrder'
  BY <1>1 DEF LeaveInv, LeaveOrder, BeforeExit, ExitPhase, tp, task
<1>5. ExitPlace'
  <2>1. Queued' = Queued
    BY <1>1 DEF Queued
  <2> QED BY <1>1, <2>1 DEF LeaveInv, ExitPlace, ExitPhase, tp, task
<1>6. \A p2 : ExitedOf(p2)' = ExitedOf(p2)
  BY <1>3 DEF ExitedOf, ThreadsOf
<1>7. ExitCount'
  BY <1>1, <1>6 DEF LeaveInv, ExitCount, ExitPhase, JustReleased, tp, task
<1>8. DestroyedIsQuiet'
  <2>1. PoolOf[th] \notin destroyed
    BY <1>2 DEF LeaveInv, DestroyedIsQuiet, ThreadsOf
  <2>2. destroyed \subseteq Pools
    BY DEF TypeInv, TypeOK
  <2> QED BY <1>1, <1>3, <2>1, <2>2 DEF LeaveInv, DestroyedIsQuiet, ThreadsOf
<1> QED BY <1>4, <1>5, <1>7, <1>8 DEF LeaveInv

LEMMA LeaveNext ==
    TypeInv /\ PlaceInv /\ MutexInv /\ LeaveInv /\ [Next]_vars => LeaveInv'
<1> SUFFICES ASSUME TypeInv, PlaceInv, MutexInv, LeaveInv, [Next]_vars PROVE LeaveInv'
  OBVIOUS
<1>1. CASE OtherLoopStep
  BY <1>1, LeaveLoop, LeaveBegin, LeavePostSpin, LeaveEnd
<1>2. ASSUME NEW th \in Threads, CreateThread(th) \/ ngx_thread_pool_cycle(th)
      PROVE  LeaveInv'
  BY <1>2, LeaveTaken, LeaveExit, LeaveThread
<1>3. CASE UNCHANGED vars
  BY <1>3 DEF vars, LeaveInv, LeaveOrder, ExitPlace, ExitCount, DestroyedIsQuiet, BeforeExit,
              ExitPhase, ExitedOf, ThreadsOf, JustReleased, Queued, tp, task
<1> QED
  BY <1>1, <1>2, <1>3, LeaveSignal, LeaveAppend DEF Next, Terminated, OtherLoopStep

(* A pool is destroyed only when its threads have left and its tasks have  *)
(* been run.                                                               *)
THEOREM DestroyedCorrect == Spec => []DestroyedIsQuiet
<1>1. LeaveInv => DestroyedIsQuiet
  BY DEF LeaveInv
<1> QED
  BY <1>1, PlaceCorrect, MutexInit, MutexNext, LeaveInit, LeaveNext, PTL DEF Spec
=============================================================================
