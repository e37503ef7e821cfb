SPECIFICATION Spec
CONSTANTS
  MaxBatch = 2
  MaxQueue = 4
  MaxAttempts = 2
  MaxItems = 4
  Callers = {c1}
INVARIANTS
  BackoffHonoured
  RemovedOnlyWhenSettled
  PunctualFlushPendingDrains
  NoStrandedBatchUnlessMissed
PROPERTIES
  ImplementsReliableQueue
CHECK_DEADLOCK FALSE
