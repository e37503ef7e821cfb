SPECIFICATION RuntimeSpec
CONSTANTS
  Refresh = 60
  MaxBackoff = 300
  RetryAfterMax = 3600
  RetryAfters = {0, 30, 86400}
  MaxFailures = 10
  Threshold = 3
  Window = 2
  ReportInterval = 2
  Labels = {l1}
  MaxTime = 7
  MaxBurst = 6
INVARIANTS
  TypeOK
  NeverStalls
  StoppedForGood
  BackoffSlowsPolling
  FuseSparesTrickle
  FuseCatchesDoubleBurst
CHECK_DEADLOCK FALSE
