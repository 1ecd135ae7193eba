---------------------------- MODULE MCWorkerPool ----------------------------
(* Instances of WorkerPool for TLC; the constants are numbers. *)
EXTENDS WorkerPool
=============================================================================
