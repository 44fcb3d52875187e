SPECIFICATION Spec
CONSTANTS
  e1 = e1
  e2 = e2
  Items = {e1}
  MaxItems = 1
  MaxAttempts = 2
  MaxAge = 2
  MaxDelay = 1
  BatchSize = 1
  MaxCrashes = 0
  MaxAlarms = 1
  MaxLosses = 0
PROPERTY EventuallySettled
CHECK_DEADLOCK FALSE
