\* A service, two threads, one retry, and a change of the service's arguments.
SPECIFICATION FairSpec
CONSTANTS
  Service = {s1}
  Thread = {t1, t2}
  NoJob = none
  MaxRetry = 1
  MaxEdits = 1
INVARIANTS
  StatusIsReported
PROPERTIES
  ChangeIsConfirmed
  
  ReportsSettle
