------------------------------- MODULE Timers -------------------------------
(***************************************************************************)
(* The timers of a process (ngx_event_timer.h, ngx_event_timer.c) and the  *)
(* loops that live by them: a worker until its graceful exit               *)
(* (ngx_worker_process_cycle, ngx_set_shutdown_timer) and the cache        *)
(* manager.  Time is ngx_current_msec, which wraps around and changes only *)
(* where the code lets it.                                                 *)
(*                                                                         *)
(* The red-black tree is the sequence of its nodes from left to right,     *)
(* which rebalancing does not change.                                      *)
(***************************************************************************)
EXTENDS Integers, FiniteSets, Sequences, SequencesExt

CONSTANTS
    Conns,            \* connections a worker may have
    Msecs,            \* number of values of ngx_msec_t
    LazyDelay,        \* NGX_TIMER_LAZY_DELAY
    Delays,           \* delays that handlers ask for
    MaxLag,           \* bound on the time the loop comes late
    ShutdownTimeout   \* worker_shutdown_timeout, not 0

(* Timers "are spread in small range": the keys lie within half of the      *)
(* values of ngx_msec_t.  A handler never asks for a delay of 0, except the *)
(* start of the cache manager.                                              *)
ASSUME TimersAssumption ==
    /\ Msecs \in Nat /\ Msecs % 2 = 0 /\ LazyDelay \in Nat \ {0} /\ MaxLag \in Nat
    /\ Delays \subseteq Nat \ {0} /\ IsFiniteSet(Delays) /\ ShutdownTimeout \in Delays
    /\ \A d \in Delays : 2 * (d + MaxLag) < Msecs
    /\ IsFiniteSet(Conns) /\ Conns \cap {"shutdown", "resolver", "manager"} = {}

VARIABLES
    process,        \* "worker" or "manager"
    at,             \* place in its loop
    now,            \* ngx_current_msec
    timers,         \* ngx_event_timer_rbtree, the events with timer_set, and left
    moved,          \* has time passed in this round of the loop?
    quit, exiting   \* ngx_quit, ngx_exiting

timersVars == <<process, at, now, timers, moved, quit, exiting>>

Cancelable == {"shutdown", "resolver"}
Events == Conns \cup Cancelable \cup {"manager"}

MaxDelay == Max(Delays)

(* (ngx_msec_int_t) of a difference of two times.                           *)
Signed(x) == ((x + Msecs \div 2) % Msecs) - Msecs \div 2

(* Mutant of Before: without regard to the overflow.                        *)
BeforeUnsigned(k, l) == k < l

(* The comparison of ngx_rbtree_insert_timer_value.                         *)
Before(k, l) == Signed(k - l) < 0

(* A new node goes to the right of equal ones.                              *)
ngx_rbtree_insert(tree, n) ==
    InsertAt(tree, 1 + Cardinality({k \in DOMAIN tree : ~Before(n.key, tree[k].key)}), n)

-----------------------------------------------------------------------------
(* timers.left is history: how far off the time is that was asked for.      *)
Without(f, e) == [x \in DOMAIN f \ {e} |-> f[x]]
Off(t, d) == [t EXCEPT !.left = [e \in DOMAIN @ |-> @[e] - d]]
NodeOf(t, e) == CHOOSE k \in DOMAIN t.tree : t.tree[k].ev = e

ngx_event_del_timer(t, e) ==
    [tree |-> RemoveAt(t.tree, NodeOf(t, e)),
     set |-> t.set \ {e}, left |-> Without(t.left, e)]
del(t, e) == IF e \in t.set THEN ngx_event_del_timer(t, e) ELSE t

Put(t, e, key, d) ==
    [tree |-> ngx_rbtree_insert(t.tree, [ev |-> e, key |-> key]),
     set |-> t.set \cup {e},
     left |-> [x \in DOMAIN t.left \cup {e} |-> IF x = e THEN d ELSE t.left[x]]]

(* Mutant of Lazily: an old timer is kept also when it comes much later.    *)
LazilyLater(old, key) == Signed(key - old) < LazyDelay

(* "use a previous timer value if difference ... is less than               *)
(* NGX_TIMER_LAZY_DELAY".                                                   *)
Lazily(old, key) == Signed(key - old) \in 1 - LazyDelay .. LazyDelay - 1

ngx_event_add_timer(t, e, time, d) ==
    LET key == (time + d) % Msecs
    IN  IF e \in t.set /\ Lazily(t.tree[NodeOf(t, e)].key, key)
        THEN [t EXCEPT !.left[e] = d]
        ELSE Put(del(t, e), e, key, d)

(* What the loop may wait for; without a timer it is NGX_TIMER_INFINITE.    *)
ngx_event_find_timer ==
    LET timer == Signed(timers.tree[1].key - now)
    IN  IF timer > 0 THEN timer ELSE 0

(* Mutant of ngx_event_no_timers_left: cancelable timers count.             *)
TreeIsEmpty == timers.tree = <<>>

(* No timer keeps the worker from its exit.                                 *)
ngx_event_no_timers_left == \A n \in Range(timers.tree) : n.ev \in Cancelable

-----------------------------------------------------------------------------
(* What handlers do: set or delete the timer of their own or of another     *)
(* connection, which may be a new one or be closed thereby; or nothing.     *)
Handles(t) ==
    \/ timers' = t
    \/ \E c \in Conns, d \in Delays : timers' = ngx_event_add_timer(t, c, now, d)
    \/ \E c \in Conns \cap t.set : timers' = ngx_event_del_timer(t, c)

(* Connections are closed, their timers deleted.                            *)
CloseAll(t, S) == FoldSet(LAMBDA c, u : ngx_event_del_timer(u, c), t, S \cap t.set)

(* ngx_shutdown_timer_handler: every connection is marked and its handler   *)
(* called, which closes it.                                                 *)
ngx_shutdown_timer_handler(t) == timers' = CloseAll(t, Conns)

(* ngx_cache_manager_process_handler: the shortest delay of the managers,   *)
(* at least 1, from a time that goes on while they work.                    *)
AtLeastOne(n) == IF n = 0 THEN 1 ELSE n
ngx_cache_manager_process_handler(t) ==
    \E n \in {0} \cup Delays, lag \in 0 .. MaxLag :
        /\ now' = (now + lag) % Msecs
        /\ timers' = ngx_event_add_timer(Off(t, lag), "manager", now', AtLeastOne(n))

-----------------------------------------------------------------------------
(* The loop of a worker begins with the test for its exit.                  *)
Top ==
    /\ at = "top"
    /\ at' = IF exiting /\ ngx_event_no_timers_left THEN "exited" ELSE "wait"
    /\ UNCHANGED <<process, now, timers, moved, quit, exiting>>

(* ngx_process_events_and_timers waits until the first timer, at most; a    *)
(* signal or an event ends it at once, and it may be late.                  *)
Wait(d) ==
    /\ at = "wait"
    /\ d <= IF timers.tree = <<>> THEN MaxDelay ELSE ngx_event_find_timer + MaxLag
    /\ at' = "events" /\ now' = (now + d) % Msecs /\ moved' = (d # 0)
    /\ timers' = Off(timers, d)
    /\ UNCHANGED <<process, quit, exiting>>

(* An event of a connection, or a new connection while listening; then the  *)
(* timers, if time has passed.                                              *)
HandleEvents ==
    /\ at = "events"
    /\ at' = (IF moved THEN "expire" ELSE "flags") /\ moved' = FALSE
    /\ IF process = "worker" /\ ~(exiting /\ Conns \cap timers.set = {})
       THEN Handles(timers)
       ELSE UNCHANGED timers
    /\ UNCHANGED <<process, now, quit, exiting>>

(* ngx_event_expire_timers, one round of its loop: the first timer is taken *)
(* out and its handler called, which may set and delete others, or itself.  *)
Expired == timers.tree # <<>> /\ Signed(timers.tree[1].key - now) <= 0
ngx_event_expire_timers ==
    /\ at = "expire" /\ Expired
    /\ LET ev == timers.tree[1].ev
           t == [tree |-> Tail(timers.tree), set |-> timers.set \ {ev},
                 left |-> Without(timers.left, ev)]
       IN  \/ ev \in Conns /\ Handles(t) /\ UNCHANGED now
           \/ ev = "shutdown" /\ ngx_shutdown_timer_handler(t) /\ UNCHANGED now
           \/ /\ ev = "resolver" /\ UNCHANGED now
              /\ timers' = ngx_event_add_timer(t, ev, now, MaxDelay)
           \/ ev = "manager" /\ ngx_cache_manager_process_handler(t)
    /\ UNCHANGED <<process, at, moved, quit, exiting>>

AllExpired ==
    /\ at = "expire" /\ ~Expired
    /\ at' = "flags"
    /\ UNCHANGED <<process, now, timers, moved, quit, exiting>>

(* The flags.  The first quit sets the shutdown timer, closes the listening *)
(* sockets and idle connections.                                            *)
ngx_set_shutdown_timer(t) == ngx_event_add_timer(t, "shutdown", now, ShutdownTimeout)
WorkerFlags ==
    /\ at = "flags" /\ process = "worker"
    /\ at' = "top"
    /\ IF quit
       THEN /\ quit' = FALSE /\ exiting' = TRUE
            /\ IF exiting THEN UNCHANGED timers
               ELSE \E idle \in SUBSET Conns :
                       timers' = CloseAll(ngx_set_shutdown_timer(timers), idle)
       ELSE UNCHANGED <<timers, quit, exiting>>
    /\ UNCHANGED <<process, now, moved>>

ManagerFlags ==
    /\ at = "flags" /\ process = "manager"
    /\ at' = IF quit THEN "exited" ELSE "wait"
    /\ UNCHANGED <<process, now, timers, moved, quit, exiting>>

(* The signal handler or a message of the channel.  ngx_terminate is looked *)
(* at only among the flags.                                                 *)
Quit ==
    /\ at # "exited" /\ quit' = TRUE
    /\ UNCHANGED <<process, at, now, timers, moved, exiting>>
Terminate ==
    /\ at = "flags" /\ at' = "exited"
    /\ UNCHANGED <<process, now, timers, moved, quit, exiting>>

-----------------------------------------------------------------------------
Empty == [tree |-> <<>>, set |-> {}, left |-> [e \in {} |-> 0]]
TimersInit ==
    /\ now = 0 /\ moved = FALSE
    /\ quit = FALSE /\ exiting = FALSE
    /\ \/ /\ process = "worker" /\ at = "top"
          /\ timers \in {Empty, ngx_event_add_timer(Empty, "resolver", now, MaxDelay)}
       \/ /\ process = "manager" /\ at = "flags"
          /\ timers = ngx_event_add_timer(Empty, "manager", now, 0)

Loop ==
    \/ Top \/ HandleEvents \/ ngx_event_expire_timers \/ AllExpired
    \/ WorkerFlags \/ ManagerFlags
TimersNext == Loop \/ (\E d \in 0 .. MaxDelay + MaxLag : Wait(d)) \/ Quit \/ Terminate

TimersSpec == TimersInit /\ [][TimersNext]_timersVars
=============================================================================
