\* An alert and the text of an earlier one, two phones, one of them with two
\* subscriptions, two dispatchers; the daemons may stop.
SPECIFICATION FairSpec
CONSTANTS
  Alert = {"down", "up"}
  Subscription = {1, 2, 3}
  TypeOf <- MCType
  PhoneOf <- MCPhone
  AccountOf <- MCAccount
  Matches <- MCMatches
  Patient = {3}
  Earlier <- MCEarlier
  Phone = {10, 20}
  LengthOf <- MCLength
  SeverityOf <- MCSeverity
  Dispatchers <- MCDispatchers
  RetryLimit = 1
  RetryLimitAction = "ignore"
  Cull = TRUE
  MaxFaults = 1
CHECK_DEADLOCK FALSE
INVARIANTS
  NotifiedOnce
  LostOnlyWithItsRow
  StatusIsTrue
PROPERTIES
  EveryAlertIsSettled
