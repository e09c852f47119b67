SPECIFICATION Spec
CONSTANTS
  t1 = t1
  t2 = t2
  t3 = t3
  s1 = s1
  s2 = s2
  NoTurn = NoTurn
  NoSession = NoSession
  Turns <- TwoTurns
  Sessions <- OneSession
  ImageTurns <- None
  LostTurns <- None
  BadTurns <- None
  StopTurns <- TwoTurns
  Mortal <- None
  MaxErrors = 0
PROPERTY StoppedNeverDispatched
CHECK_DEADLOCK FALSE
