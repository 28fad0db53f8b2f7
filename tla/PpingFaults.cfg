\* Statements fail, commits are lost, the daemon is restarted, boxes come back.
SPECIFICATION Spec
CONSTANTS
  Box = {"a"}
  NrPing = 3
  MaxQueue = 2
  MaxFailures = 2
  MaxRestarts = 1
  Faults = {"query", "commit", "silent", "restart", "return"}
INVARIANT FrozenIsKnownDown
PROPERTY DownNeedsLosses
