---------------------------- MODULE MCWorkerPool ----------------------------
(* A pool with one thread and one queue slot, and three tasks: one runs,   *)
(* one is queued, one is refused or arrives during the shutdown.           *)
EXTENDS WorkerPool

CONSTANTS t1, t2, t3
=============================================================================
