SPECIFICATION Spec
CONSTANTS
  None = None
  Tasks = {k1, k2}
  Errors = {e1, e2}
  Enabled = TRUE
  MaxPendingRoots = 1
  MaxClosedRoots = 1
  MaxActs = 4
SYMMETRY Symmetry
INVARIANTS TypeOK OneEventPerError FailedTraceReports
PROPERTIES TopmostErrorWins ParentEncloses
CHECK_DEADLOCK FALSE
