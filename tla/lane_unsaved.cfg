SPECIFICATION Spec
CONSTANTS
  t1 = t1
  t2 = t2
  NoTurn = NoTurn
  Turns <- Two
  Kinds = {"lanes"}
  ErrorTurns <- One
  RefuseTurns <- Two
  AskTurns <- One
  MayExit = TRUE
  SlowCli = TRUE
  MaxSpawns = 2
  Modes = {"supervised"}
  Models = {"m1"}
  MaxCalls = 3
  PoolCommands = 2
  LaneIds = {"l1", "l2"}
  MaxActive = 1
  MaxCrashes = 1
  LaneCommands = 4
  Ports = {1}
  Entries <- CarryOver
  SetupChanges = 1
  Notes = {"h1", "h2"}
  Pieces = 2
  PerItem = 2
  Approvals = {"a1", "a2"}
  MaxExits = 1
  Devices = {"here", "phone", "tab"}
  Windows = {"phone"}
  Local = "here"
  Links = {"k"}
  Shells = {"s1", "s2"}
  NoShell = "none"
  NoLink = "nolink"
  MaxDrops = 1
  MaxPanes = 2
  EndpointIds = {"e", "f"}
  EndpointThreads = {"a"}
  EndpointHome <- AllOnE
  MaxEdits = 2
  MaxTurns = 2
  MaxDetects = 3
  MaxRestores = 1
  MaxClicks = 1
PROPERTIES
  DestroyedIsSaved
CHECK_DEADLOCK FALSE
