\* One player and two connections: this client plays or watches, another one
\* plays, watches, leaves and comes back. A bomb laid in turn 1 explodes in turn
\* 2, one laid in turn 2 does not. The server runs at most a catch-up ahead of the client.
\* Fairness is that of the timer and of the coroutine that reads.
\* Deadlock is not an error: see RoomFeed.cfg.
SPECIFICATION FairRobots
CONSTANTS
  SizeX = 2
  SizeY = 2
  ExplosionRadius = 1
  PlayersCount = 1
  Names = {n1}
  SessionsCount = 2
  GameLength = 2
  BombTimer = 2
  InitialBlocks = 1
  Seed = 14
  Multiplier = 5
  Modulus = 17
  U16 = 3
  PlayerName = n1
  OutboxBound = 1
  Mine = 1
  InboxBound = 4
INVARIANTS
  PhaseKnown
  GameKnown
PROPERTIES
  OnlyPhantomsKill
  BackToLobby
CHECK_DEADLOCK FALSE
