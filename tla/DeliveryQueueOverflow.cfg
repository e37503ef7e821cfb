SPECIFICATION FairSpec
CONSTANTS
  MaxBatch = 2
  MaxQueue = 3
  MaxAttempts = 2
  MaxItems = 5
  Callers = {}
PROPERTIES
  EveryItemLeaves
INVARIANTS
  TypeOK
  AttemptsBounded
  DeliversForward
CHECK_DEADLOCK FALSE
