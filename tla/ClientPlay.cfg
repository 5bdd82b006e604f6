\* Two games of four turns between two players on a row of three fields, where
\* blocks shield fields from a bomb: two bombs can be laid in turn 1 or 2 and
\* explode two turns later, one by one or at once; those of turns 3 and 4 do not
\* explode.
\* Deadlock is not an error: the server stops after GamesBound games.
SPECIFICATION PlaySpec
CONSTANTS
  SizeX = 3
  SizeY = 1
  BombTimer = 2
  U16 = 4
  ExplosionRadius = 2
  PlayersCount = 2
  Names = {n1}
  PlayerName = n1
  OutboxBound = 1
  GamesBound = 2
  TurnsBound = 4
  BombsBound = 2
INVARIANTS
  ClientTypeOK
  BoardDrawn
  FusesDrawn
  ExplosionsDrawn
  ScoresDrawn
  NobodyLeftOut
PROPERTIES
  NothingUnknown
CHECK_DEADLOCK FALSE
