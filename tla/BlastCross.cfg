\* The rule of the README, refuted off the diagonal.
SPECIFICATION Spec
CONSTANTS
  SizeX = 2
  SizeY = 3
  BombTimer = 1
  U16 = 2
  ExplosionRadius = 1
  PlayersCount = 1
  Names = {n1}
INVARIANT BlastIsCross
CHECK_DEADLOCK FALSE
