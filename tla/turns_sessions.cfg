SPECIFICATION Spec
CONSTANTS
  t1 = t1
  t2 = t2
  t3 = t3
  s1 = s1
  s2 = s2
  NoTurn = NoTurn
  NoSession = NoSession
  Turns <- TwoTurns
  Sessions <- TwoSessions
  ImageTurns <- OneTurn
  LostTurns <- TwoTurns
  BadTurns <- TwoTurns
  StopTurns <- TwoTurns
  Mortal <- TwoSessions
  MaxErrors = 1
SYMMETRY SessionSymmetry
INVARIANT StopInv
CHECK_DEADLOCK FALSE
