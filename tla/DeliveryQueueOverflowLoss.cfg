SPECIFICATION Spec
CONSTANTS
  MaxBatch = 2
  MaxQueue = 3
  MaxAttempts = 2
  MaxItems = 5
  Callers = {}
INVARIANTS
  RemovedOnlyWhenSettled
CHECK_DEADLOCK FALSE
