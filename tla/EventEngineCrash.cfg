\* A box, its SNMP agent and the maintenance state of their device, under the fairness
\* of the scheduler; the process may die once.
SPECIFICATION FairSpec
CONSTANTS
  Target = {"box", "agent", "maint"}
  Netbox = {"n1"}
  TypeOf <- BoxTypes
  NetboxOf <- OneNetbox
  MaxEvents = 3
  MaxCrashes = 1
  Faults = {"crash"}
INVARIANTS
  TypeOK
  OneOpenState
  WaitingAgrees
  DownIsAccounted
  OpenIsMarkedDown
PROPERTIES
  StartNeverLost
  EndDeschedules
  ImplementsGracePeriod
  EveryEventDisposed
  OutageIsDeclared
\* Events stop at MaxEvents.
CHECK_DEADLOCK FALSE
