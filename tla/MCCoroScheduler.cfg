CONSTANTS
  Threads = {w1, w2}
  Tasks = {a, b, c}
  Main = a
  Conds = {k1}
  Notifies = {"notify_one", "notify_all"}
  MaxCalls = 2
  Free = Free
SPECIFICATION Spec
INVARIANTS
  TypeOK
  OnePlace
  WorkConserving
  ExitsWhenDone
PROPERTIES
  ImplementsCondvar
  NoStarvation
  AllExit
