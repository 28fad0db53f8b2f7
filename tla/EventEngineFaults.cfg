\* Handlers and callbacks that raise, and queue checks that are rolled back:
\* a box and a service on it.
SPECIFICATION Spec
CONSTANTS
  Target = {"box", "service"}
  Netbox = {"n1"}
  TypeOf <- BoxTypes
  NetboxOf <- OneNetbox
  MaxEvents = 3
  MaxCrashes = 0
  Faults = {"exception", "rollback"}
INVARIANT DownIsAccounted
\* Events stop at MaxEvents.
CHECK_DEADLOCK FALSE
