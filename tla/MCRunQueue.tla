------------------------------- MODULE MCRunQueue -------------------------------
(* RunQueue for TLC: as many thread identities as threads, at least. *)
EXTENDS RunQueue

================================================================================
