SPECIFICATION Spec
CONSTANTS
  daemon = daemon
  cli = cli
  t1 = t1
  t2 = t2
  t3 = t3
  None = None
  Procs = {daemon}
  Tasks = {t1, t2}
  ProcOf <- OneProc
  Batches <- QuietBatches
  ExclusiveOwner = TRUE
  MaxEvents = 3
  MaxStops = 0
  MaxFaults = 1
  MaxInterrupts = 0
INVARIANT OrphanNeverBlessed
CHECK_DEADLOCK FALSE
