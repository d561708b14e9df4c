---------------------------- MODULE MCWorkerRun ----------------------------
(* An instance of WorkerRun: more leases than a worker may run at once.    *)
EXTENDS WorkerRun

CONSTANTS l1, l2, l3
=============================================================================
