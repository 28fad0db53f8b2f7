\* Two texts for a phone, both as long as the table allows.
SPECIFICATION Spec
CONSTANTS
  Alert = {"down", "up"}
  Subscription = {1, 2, 3}
  TypeOf <- MCType
  PhoneOf <- MCPhone
  AccountOf <- MCAccount
  Matches <- MCMatches
  Patient = {3}
  Earlier <- MCEarlier
  Phone = {10, 20}
  LengthOf <- MCCutOff
  SeverityOf <- MCSeverity
  Dispatchers <- MCDispatchers
  RetryLimit = 1
  RetryLimitAction = "ignore"
  Cull = TRUE
  MaxFaults = 1
INVARIANT NoHollowSms
CHECK_DEADLOCK FALSE
