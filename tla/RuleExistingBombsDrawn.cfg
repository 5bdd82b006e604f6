\* Two games, as in ClientPlay.cfg.
SPECIFICATION PlaySpec
CONSTANTS
  SizeX = 3
  SizeY = 1
  BombTimer = 2
  U16 = 4
  ExplosionRadius = 2
  PlayersCount = 2
  Names = {n1}
  PlayerName = n1
  OutboxBound = 1
  GamesBound = 2
  TurnsBound = 4
  BombsBound = 2
INVARIANT ExistingBombsDrawn
CHECK_DEADLOCK FALSE
