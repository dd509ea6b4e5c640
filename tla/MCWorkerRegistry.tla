-------------------------- MODULE MCWorkerRegistry --------------------------
(* WorkerRegistry on a small instance. *)
EXTENDS WorkerRegistry
=============================================================================
