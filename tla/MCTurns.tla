------------------------------- MODULE MCTurns -------------------------------
(* Turns on small sets.  Turn ids and session objects are interchangeable   *)
(* within a class, so the safety runs use their permutations as symmetry.   *)
EXTENDS Turns

CONSTANTS t1, t2, t3, s1, s2

TwoTurns    == {t1, t2}
ThreeTurns  == {t1, t2, t3}
OneTurn     == {t1}
SecondTurn  == {t2}
OneSession  == {s1}
TwoSessions == {s1, s2}
None        == {}

AnySymmetry   == Permutations(ThreeTurns) \cup Permutations(TwoSessions)
OneTurnSymmetry == Permutations({t2, t3}) \cup Permutations(TwoSessions)
SessionSymmetry == Permutations(TwoSessions)
=============================================================================
