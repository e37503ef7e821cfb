SPECIFICATION FairSpec
CONSTANTS
  MaxInFlight = 2
  Slots = {s1, s2, s3}
  Flushers = {f1, f2}
INVARIANTS
  TypeOK
  EveryPlaceCounted
  FlushAwaitsSends
PROPERTIES
  FlushEnds
