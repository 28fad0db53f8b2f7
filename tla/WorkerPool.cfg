\* Two workers that take two jobs each, one of which fails.
SPECIFICATION FairSpec
CONSTANTS
  MaxWorkers = 4
  TargetCount = 2
  MaxJobs = 2
  MaxSerial = 3
  MaxFaults = 1
CHECK_DEADLOCK FALSE
INVARIANTS
  TargetKept
  ActiveAgrees
  NoJobLost
PROPERTIES
  EveryJobEnds
