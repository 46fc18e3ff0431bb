CONSTANTS
  alert1 = alert1
  alert2 = alert2
  alertKey = alertKey
  Events = {alert1, alert2}
  Keys = {alertKey}
  Workers = {w1, w2, w3}
  KeyOf <- MCKey
  Unrenderable = {alert2}
  MaxAttempts = 3
  Rebalances = TRUE
  StepsMayFail = TRUE
  MayCrash = TRUE
  MaxTries = 2
  DefaultLimit = 2
  AuthLimit = 1
SPECIFICATION MCSpec
CHECK_DEADLOCK FALSE
INVARIANT Typed
INVARIANT MailedOnce
INVARIANT LogTellsMail
INVARIANT RefusalsFinal
PROPERTY EverythingServed
