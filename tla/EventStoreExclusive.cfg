SPECIFICATION Spec
CONSTANTS
  daemon = daemon
  cli = cli
  t1 = t1
  t2 = t2
  t3 = t3
  None = None
  Procs = {daemon, cli}
  Tasks = {t1, t2, t3}
  ProcOf <- TwoProcs
  Batches <- AllBatches
  ExclusiveOwner = TRUE
  MaxEvents = 3
  MaxStops = 2
  MaxFaults = 1
  MaxInterrupts = 1
INVARIANT IInv
INVARIANT HealthyMeansAnchored
INVARIANT StrandedNeverBlessed
INVARIANT ConcurrentAppendsVerifiable
INVARIANT AckedStaysAnchored
PROPERTY ImplementsAnchoredLog
PROPERTY QueueFailureSurvivesRestart
CHECK_DEADLOCK FALSE
