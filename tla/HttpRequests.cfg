SPECIFICATION Spec
CONSTANTS
  None = None
  Boot = Boot
  Requests = {a, b}
  Kinds = {"fastify", "express", "adonis", "bare", "generic"}
  Enabled = TRUE
  MaxPendingRoots = 1
  MaxClosedRoots = 1
  MaxActs = 2
SYMMETRY Symmetry
INVARIANTS OneRootSpan SpanAndEventAgree EventsNameOwnUser
CHECK_DEADLOCK FALSE
