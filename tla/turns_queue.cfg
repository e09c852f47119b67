SPECIFICATION Spec
CONSTANTS
  t1 = t1
  t2 = t2
  t3 = t3
  s1 = s1
  s2 = s2
  NoTurn = NoTurn
  NoSession = NoSession
  Turns <- ThreeTurns
  Sessions <- OneSession
  ImageTurns <- None
  LostTurns <- None
  BadTurns <- ThreeTurns
  StopTurns <- ThreeTurns
  Mortal <- OneSession
  MaxErrors = 1
SYMMETRY AnySymmetry
INVARIANTS
  TypeOK
  ActiveIsOpen
  BusyHasWork
  StoppingMatches
  QueuedInOnePlace
PROPERTIES
  StopIsNotAFailure
  StartsOnce
  KeepsPromise
CHECK_DEADLOCK FALSE
