\* The scheduler may stop for good (see MCThreadScheduler_start.cfg).
CONSTANTS
  Tasks = {a, b, c, d}
  Main = main
  None = None
SPECIFICATION Spec
INVARIANTS
  OneHandle
  ReturnsLast
PROPERTIES
  RemovalEnds
CHECK_DEADLOCK FALSE
