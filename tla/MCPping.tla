-------------------------------- MODULE MCPping --------------------------------
(* Pping for TLC: one or two boxes, NrPing at least 2 so that a single loss is *)
(* not an outage.                                                              *)
EXTENDS Pping
================================================================================
