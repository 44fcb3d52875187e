SPECIFICATION Spec
CONSTANTS
  e1 = e1
  e2 = e2
  Items = {e1, e2}
  MaxItems = 2
  MaxAttempts = 2
  MaxAge = 3
  MaxDelay = 2
  BatchSize = 2
  MaxCrashes = 1
  MaxAlarms = 1
  MaxLosses = 1
INVARIANT SettledOnce
INVARIANT EvaluationsCounted
INVARIANT NoLostWakeup
INVARIANT IInv
PROPERTY DrainedUnlessStopped
CHECK_DEADLOCK FALSE
