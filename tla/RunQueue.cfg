\* Three threads, a runnable in each queue; recycled after the second check.
SPECIFICATION FairSpec
CONSTANTS
  Worker = {w1, w2, w3}
  NoWorker = none
  MaxThreads = 3
  MaxRunCount = 1
  MaxQueue = 1
  SignalInside = TRUE
INVARIANTS
  WorkersAreAlive
  NoWakeupLost
PROPERTIES
  ImplementsWorkPool
  RetriesAreRun
  TerminationEnds
\* The process hangs for good when the signal comes inside enq.
CHECK_DEADLOCK FALSE
