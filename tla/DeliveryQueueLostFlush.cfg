SPECIFICATION Spec
CONSTANTS
  MaxBatch = 2
  MaxQueue = 4
  MaxAttempts = 2
  MaxItems = 4
  Callers = {c1}
INVARIANTS
  FlushPendingDrains
CHECK_DEADLOCK FALSE
