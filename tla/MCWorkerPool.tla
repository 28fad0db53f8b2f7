------------------------------- MODULE MCWorkerPool ------------------------------
(* WorkerPool for TLC: enough identities for the workers that linger when done. *)
EXTENDS WorkerPool

================================================================================
