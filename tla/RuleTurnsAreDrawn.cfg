\* As in Robots.cfg.
SPECIFICATION RobotsSpec
CONSTANTS
  SizeX = 2
  SizeY = 2
  ExplosionRadius = 1
  PlayersCount = 1
  Names = {n1}
  SessionsCount = 2
  GameLength = 2
  BombTimer = 2
  InitialBlocks = 1
  Seed = 14
  Multiplier = 5
  Modulus = 17
  U16 = 3
  PlayerName = n1
  OutboxBound = 1
  Mine = 1
  InboxBound = 4
PROPERTY TurnsAreDrawn
CHECK_DEADLOCK FALSE
