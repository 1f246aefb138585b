\* exec may hang (MCMake_hang.cfg): deadlock is no error here.
CONSTANTS
  r = r
  x = x
  y = y
  z = z
  Targets = {r, x, y, z}
  Root = r
  Deps <- Tree
  Jobs <- OneOrTwo
  None = None
SPECIFICATION Spec
INVARIANTS
  BodyAfterDeps
  TasksKept
PROPERTIES
  ReturnsUnlessUsedUp
CHECK_DEADLOCK FALSE
