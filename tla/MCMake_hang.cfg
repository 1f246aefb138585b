CONSTANTS
  r = r
  x = x
  y = y
  z = z
  Targets = {r, x, y, z}
  Root = r
  Deps <- Tree
  Jobs <- OneOrTwo
  None = None
SPECIFICATION Spec
PROPERTIES
  ExecReturns
CHECK_DEADLOCK FALSE
