------------------------------ MODULE TaskPool ------------------------------
(***************************************************************************)
(* What the thread pools promise the modules that post tasks, without      *)
(* threads, queues or locks: a task that was accepted is run once, then    *)
(* completed once in the event loop, and only then may be posted again.  A *)
(* failure of the system may strand it before it is run, but never runs or *)
(* completes it twice.                                                     *)
(***************************************************************************)
CONSTANT Tasks

VARIABLE status

Init == status = [t \in Tasks |-> "idle"]

Move(t, from, to) == status[t] = from /\ status' = [status EXCEPT ![t] = to]

Post(t) == Move(t, "idle", "posted")
Begin(t) == Move(t, "posted", "running")
Finish(t) == Move(t, "running", "finished")
Complete(t) == Move(t, "finished", "idle")
Strand(t) == Move(t, "idle", "stranded") \/ Move(t, "posted", "stranded")

Next == \E t \in Tasks :
            Post(t) \/ Begin(t) \/ Finish(t) \/ Complete(t) \/ Strand(t)

Spec == Init /\ [][Next]_status
=============================================================================
