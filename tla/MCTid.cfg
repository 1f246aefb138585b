\* Fewer workers than tasks, functions that may throw.  They may stop for good
\* (MCTid_throw.cfg), so deadlock is not an error.
CONSTANTS
  Tasks = {a, b, c}
  Main = a
  Workers = 2
  Outcomes = {"return", "throw"}
  None = None
SPECIFICATION Spec
INVARIANTS
  NoLostResult
PROPERTIES
  ResultIsSeen
CHECK_DEADLOCK FALSE
