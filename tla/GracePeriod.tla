------------------------------ MODULE GracePeriod ------------------------------
(***************************************************************************)
(* What the event engine promises about one device that pping watches, as  *)
(* its users see it: a failure first enters a grace period, "before the    *)
(* Event Engine actually posts the alert that declares the IP device as    *)
(* down" (doc/reference/backend-processes.rst).  Warnings belong to the    *)
(* grace period, a declaration follows one, and only a declared outage is  *)
(* ever announced as over.                                                 *)
(***************************************************************************)
EXTENDS Sequences

VARIABLES
  phase,   \* "up", "grace" or "down"
  log      \* what was announced, in order: "warning", "down", "up"

vars == <<phase, log>>

Init == phase = "up" /\ log = <<>>

Fail == phase = "up" /\ phase' = "grace" /\ UNCHANGED log

Warn == phase = "grace" /\ UNCHANGED phase /\ log' = Append(log, "warning")

\* The end came in time; or it came and the next outage already began.
Transient == phase = "grace" /\ phase' = "up" /\ UNCHANGED log

\* Whether a declaration is announced depends on the maintenance schedule, and
\* on the process living long enough.
Declare == /\ phase = "grace" /\ phase' = "down"
           /\ log' \in {log, Append(log, "down")}

Recover == /\ phase = "down" /\ phase' \in {"up", "grace"}
           /\ log' \in {log, Append(log, "up")}

Next == Fail \/ Warn \/ Transient \/ Declare \/ Recover

Spec == Init /\ [][Next]_vars
================================================================================
