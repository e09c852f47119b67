SPECIFICATION Spec
CONSTANTS
  Env = Env
  NoThread = NoThread
  Threads = {a}
  Known = {a}
  Sources = {a, Env}
  Window = 9
  Overlaps = {}
  MaxEvents = 4
  MaxChunks = 0
  MaxDrops = 2
  MaxOpens = 1
INVARIANT Current
CHECK_DEADLOCK FALSE
