SPECIFICATION FairSpec
CONSTANTS
  Env = Env
  NoThread = NoThread
  Threads = {a, b}
  Known = {a, b}
  Sources = {a, b}
  Window = 9
  Overlaps = {}
  MaxEvents = 4
  MaxChunks = 0
  MaxDrops = 2
  MaxOpens = 2
INVARIANT Current
PROPERTY CatchesUp
CHECK_DEADLOCK FALSE
