CONSTANTS
  Size = 3
  Clients = {c1}
  Jobs = {j1, j2, j3}
SPECIFICATION Spec
INVARIANTS
  RunsOnce
  DestroyDrains
PROPERTIES
  AcceptedJobsRun
  DestroyReturns
