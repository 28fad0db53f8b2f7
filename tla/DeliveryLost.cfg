\* Two alerts, two phones, one of them with two subscriptions: what the users keep
\* subscribed to reaches them.
SPECIFICATION Spec
CONSTANTS
  Alert = {"down", "up"}
  Subscription = {1, 2, 3}
  TypeOf <- MCType
  PhoneOf <- MCPhone
  AccountOf <- MCAccount
  Matches <- MCMatches
  Patient = {3}
  Earlier <- MCEarlier
  Phone = {10, 20}
  LengthOf <- MCLength
  SeverityOf <- MCSeverity
  Dispatchers <- MCDispatchers
  RetryLimit = 1
  RetryLimitAction = "ignore"
  Cull = TRUE
  MaxFaults = 1
INVARIANT NoneLost
CHECK_DEADLOCK FALSE
