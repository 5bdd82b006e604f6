\* What the README says, refuted by the code: see the definition.
SPECIFICATION Spec
CONSTANTS
  SizeX = 2
  SizeY = 2
  ExplosionRadius = 1
  PlayersCount = 1
  Names = {n1}
  SessionsCount = 2
  GameLength = 3
  BombTimer = 1
  InitialBlocks = 1
  Seed = 14
  Multiplier = 5
  Modulus = 17
  U16 = 4
INVARIANT PlayersAreHeard
CHECK_DEADLOCK FALSE
