-------------------------- MODULE TimersProperties --------------------------
(***************************************************************************)
(* What makes the timers of Timers correct.                                *)
(***************************************************************************)
EXTENDS Timers

(* The tree is in the order of time though the keys wrap around, so its     *)
(* leftmost node is the next one; each event has one node if timer_set says *)
(* so, whatever handlers did while timers expired.                          *)
TimersOrdered ==
    /\ \A j, k \in DOMAIN timers.tree : j < k =>
          Signed(timers.tree[k].key - timers.tree[j].key) >= 0
    /\ \A j, k \in DOMAIN timers.tree : timers.tree[j].ev = timers.tree[k].ev => j = k
    /\ {n.ev : n \in Range(timers.tree)} = timers.set
    /\ timers.set = DOMAIN timers.left

(* A timer is less than NGX_TIMER_LAZY_DELAY from the time that was asked   *)
(* for last, however often it was asked for; when the loop waits for events *)
(* none is overdue by more.                                                 *)
InTime ==
    \A n \in Range(timers.tree) :
        /\ Signed(n.key - now) - timers.left[n.ev] \in 1 - LazyDelay .. LazyDelay - 1
        /\ at \notin {"events", "expire"} => timers.left[n.ev] > -LazyDelay

(* The loop goes on; epoll returns when the time is over or at a signal,    *)
(* and time passes.                                                         *)
Returns(d) == (timers.tree # <<>> \/ quit) /\ Wait(d)
TimersFairness ==
    /\ WF_timersVars(Loop)
    /\ WF_timersVars(\E d \in 0 .. MaxDelay + MaxLag : Returns(d))
    /\ SF_timersVars(\E d \in 1 .. MaxDelay + MaxLag : Returns(d))

(* A process that is told to leave does, whatever timers its connections    *)
(* set again and again and however often it is told ("worker                *)
(* worker_shutdown_timeout"), and no timer keeps it in the loop that runs   *)
(* them.                                                                    *)
ShutdownEnds == quit \/ exiting ~> at = "exited"
=============================================================================
