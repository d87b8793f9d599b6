---------------------------- MODULE MCWorkerPool ----------------------------
(* WorkerPool on a small instance. *)
EXTENDS WorkerPool
=============================================================================
