CONSTANTS
  Pools = {p, q}
  Chunks = {k, l, m}
  ChunkSize = 2
  MaxReserve = 4
  Handlers = {f, g, h}
  MaxDepth = 2
  MaxSlots = 3
  Objects = {o, r}
  Pids = {c, d}
  Caller = self
  Streams = {"in", "out"}
  FileStreams = {s, t, u}
  MaxFiles = 3
  Creators = {"x", "y", "z"}
  Target <- Targets
  NoHandler = nohandler
  Nobody = nobody
INIT Init
NEXT Next
INVARIANTS
  
  
  
  ClosedOnce
  CreatorsAgree
  PathsComeApart
  
  WordsAreGiven
  
  
  
  RangesMean
  RulesAreFollowed
CHECK_DEADLOCK FALSE
