SPECIFICATION FairSpec
CONSTANTS
  t1 = t1
  t2 = t2
  t3 = t3
  s1 = s1
  s2 = s2
  NoTurn = NoTurn
  NoSession = NoSession
  Turns <- ThreeTurns
  Sessions <- OneSession
  ImageTurns <- OneTurn
  LostTurns <- None
  BadTurns <- TwoTurns
  StopTurns <- SecondTurn
  Mortal <- None
  MaxErrors = 1
PROPERTIES
  EveryStartedTurnEnds
  QueueKeepsMoving
CHECK_DEADLOCK FALSE
