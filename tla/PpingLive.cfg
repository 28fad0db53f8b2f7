\* Two boxes, and a list of hosts that cannot be read once: what pping, the poster and the engine agree on and report.
SPECIFICATION FairSpec
CONSTANTS
  Box = {"a", "b"}
  NrPing = 2
  MaxQueue = 2
  MaxFailures = 1
  MaxRestarts = 0
  Faults = {"query"}
INVARIANTS
  Agreement
PROPERTIES
  RecoveryReported
  OutageReported
