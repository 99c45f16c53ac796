----------------------------- MODULE MCStructures -----------------------------
(***************************************************************************)
(* Instances of Timers, RadixTree and Pool for TLC.  They share nothing: a *)
(* behaviour exercises one of them and leaves the others as they began.    *)
(***************************************************************************)
EXTENDS TimersProperties, RadixTree, Pool

VARIABLE what

Init ==
    /\ what \in {"timers", "radix", "pool"}
    /\ TimersInit /\ RadixInit /\ PoolInit
    /\ what # "timers" => process = "manager"
    /\ what # "radix" => tree = ngx_radix_tree_create(0)

Next ==
    \/ what = "timers" /\ TimersNext /\ UNCHANGED <<what, radixVars, poolVars>>
    \/ what = "radix" /\ RadixNext /\ UNCHANGED <<what, timersVars, poolVars>>
    \/ what = "pool" /\ PoolNext /\ UNCHANGED <<what, timersVars, radixVars>>

Spec == Init /\ [][Next]_<<what, timersVars, radixVars, poolVars>> /\ TimersFairness
=============================================================================
