----------------------------- MODULE MCMaintengine -----------------------------
(* Maintengine for TLC: two tasks that share a subject. *)
EXTENDS Maintengine

MCSubjects == [t \in Task |-> IF t = "upgrade" THEN Subject ELSE {"a"}]

================================================================================
