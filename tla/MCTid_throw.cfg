\* The 1:1 scheduler, functions that may throw.  The tasks stop in the end.
CONSTANTS
  Tasks = {a, b}
  Main = a
  Workers = 2
  Outcomes = {"return", "throw"}
  None = None
SPECIFICATION Spec
PROPERTIES
  AskingEnds
CHECK_DEADLOCK FALSE
