\* Liveness needs the full state graph: no symmetry.  Three tasks: two that
\* sleep and one that puts, or two that put and one that sleeps.
CONSTANTS
  Threads = {t1, t2, t3}
  Msgs = {m1, m2}
  MaxLen = 2
SPECIFICATION Spec
INVARIANTS
  TypeOK
  NoLostWakeup
PROPERTIES
  ImplementsFifo
