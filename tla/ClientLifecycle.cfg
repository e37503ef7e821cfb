SPECIFICATION FairSpec
CONSTANTS
  MaxClients = 2
  MaxItems = 2
  Calls = {c1, c2}
INVARIANTS
  FlushDrains
  PreviousClientStoppedUnlessOverlap
PROPERTIES
  CallsEnd
CHECK_DEADLOCK FALSE
