---------------------------- MODULE MCWorkerProcess ----------------------------
(* A worker with two possible descendants on both platforms.                *)
EXTENDS WorkerProcess

MCAnywhereElse == Phase \ Terminating

(* The calls whose worker has passed its gate when it is terminated.        *)
MCPastGateSpec == Init /\ [][Next /\ (terminated' => leader # "gate")]_vars

================================================================================
