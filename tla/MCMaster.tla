------------------------------- MODULE MCMaster -------------------------------
(* Instances of Master for TLC. *)
EXTENDS MasterProperties

OneWorker == <<"worker">>
TwoWorkers == <<"worker", "worker">>
WorkerAndManager == <<"worker", "manager">>
WorkerAndCache == <<"worker", "manager", "loader">>
=============================================================================
