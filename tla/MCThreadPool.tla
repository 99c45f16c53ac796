---------------------------- MODULE MCThreadPool ----------------------------
(* Instances of ThreadPool for TLC. *)
EXTENDS ThreadPoolProperties, TLC

CONSTANTS p1, p2, a, b, c, t1, t2

(* Two threads share one pool, a third has a pool of its own. *)
TwoPoolsThreads == a :> p1 @@ b :> p1 @@ c :> p2
OnePoolThreads == a :> p1 @@ b :> p1
MaxQueue1 == p1 :> 1 @@ p2 :> 0
MaxQueueOne == p1 :> 1

TaskSymmetry == Permutations({t1, t2})
=============================================================================
