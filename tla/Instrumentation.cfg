SPECIFICATION Spec
CONSTANTS
  Names = {1, 2}
  Lucid = 2
  Loops = {l, m, n}
  MaxVersions = 2
  MaxPending = 2
  MaxQueries = 3
  MaxPatches = 3
  MaxCalls = 1
SYMMETRY Symmetry
INVARIANTS InitOnce InitedIsCurrent QueriesHaveSpans OneSpanPerCall Transparent
PROPERTY OthersStay
CHECK_DEADLOCK FALSE
