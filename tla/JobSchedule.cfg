\* Two jobs, one of them limited, for two netboxes, two of which may run at a time.
SPECIFICATION FairSpec
CONSTANTS
  Job = {"inventory", "topo"}
  Netbox = {n1, n2}
  Intensity <- MCIntensity
  MaxConcurrent = 2
  MaxChanges = 1
INVARIANTS
  InOnePlace
  OnePerNetbox
  LimitsKept
CHECK_DEADLOCK FALSE
PROPERTIES
  PolledForEver
