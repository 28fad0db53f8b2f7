---------------------------- MODULE MCEventEngine ----------------------------
(* Instances of EventEngine for TLC. *)
EXTENDS EventEngine

\* One box with its maintenance state.
BoxTypes == [t \in Target |-> IF t = "box" THEN "boxState"
                              ELSE IF t = "maint" THEN "maintenanceState"
                              ELSE IF t = "agent" THEN "snmpAgentState"
                              ELSE IF t = "module" THEN "moduleState"
                              ELSE IF t = "bgp" THEN "bgpState"
                              ELSE IF t = "service" THEN "serviceState"
                              ELSE IF t = "threshold" THEN "thresholdState"
                              ELSE "other"]
OneNetbox == [t \in Target |-> "n1"]
==============================================================================
