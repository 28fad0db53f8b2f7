------------------------------ MODULE MCJobSchedule ------------------------------
(* JobSchedule for TLC: one job that may run once at a time, and one without limit. *)
EXTENDS JobSchedule

MCIntensity == [j \in Job |-> IF j = "inventory" THEN 1 ELSE 0]

================================================================================
