\* What the README says, refuted by the code: see the definition. The players come back as
\* observers and lay two bombs in the corner, where the seed puts a block.
SPECIFICATION Spec
CONSTANTS
  SizeX = 2
  SizeY = 3
  ExplosionRadius = 1
  PlayersCount = 2
  Names = {n1}
  SessionsCount = 2
  GameLength = 4
  BombTimer = 2
  InitialBlocks = 2
  Seed = 14
  Multiplier = 5
  Modulus = 17
  U16 = 5
INVARIANT ARuleOfBombsHolds
CHECK_DEADLOCK FALSE
