CONSTANTS
  Coros = {a, b, g}
  Generators = {g}
  Main = main
  Null = null
  Pools = {p}
  Chunks = {k, l}
  ChunkSize = 2
  MaxReserve = 0
SPECIFICATION Spec
INVARIANTS JumpsBack CurrentIsExecuting OwnStack
CHECK_DEADLOCK FALSE
