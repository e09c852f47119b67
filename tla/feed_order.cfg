SPECIFICATION Spec
CONSTANTS
  Env = Env
  NoThread = NoThread
  Threads = {a, b}
  Known = {}
  Sources = {a, b}
  Window = 1
  Overlaps = {"open"}
  MaxEvents = 4
  MaxChunks = 1
  MaxDrops = 2
  MaxOpens = 2
SYMMETRY ThreadSymmetry
INVARIANTS
  TypeOK
  InOrderOnce
  OrderInv
CHECK_DEADLOCK FALSE
