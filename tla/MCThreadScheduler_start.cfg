\* One task is enough for start() to block for good on it.
CONSTANTS
  Tasks = {a, b}
  Main = main
  None = None
SPECIFICATION Spec
PROPERTIES
  StartReturns
CHECK_DEADLOCK FALSE
