\* The room and the feeds of two connections, over the lobbies, which fill, empty and
\* fill again, and the games. Both players, of one name (the ids tell them apart), may go
\* and come back as observers, so that up to two of them lay bombs and blocks in one
\* turn, in the games after the first too. A bomb laid in turn 1 explodes in turn 2 and
\* wraps around in turn 3. The seed puts one robot off the diagonal and the other on a
\* block in the corner. The board is not square, so that the bounds of x and y differ,
\* with room for an arm of two fields, and a block in a row of two.
\* Fairness is the timer's alone. Deadlock is not an error: the addresses run out when
\* every session has died with a message left in the lobby.
SPECIFICATION FairFeed
CONSTANTS
  SizeX = 2
  SizeY = 4
  ExplosionRadius = 2
  PlayersCount = 2
  Names = {n1}
  SessionsCount = 2
  GameLength = 4
  BombTimer = 2
  InitialBlocks = 2
  Seed = 1
  Multiplier = 6
  Modulus = 17
  U16 = 5
INVARIANTS
  TypeOK
  OneTimer
  TurnsNumbered
  EventsTellStatus
  BlastsAreCrosses
  ExplodesOnce
  BlastErrsOneWay
  ClientDrawsCross
  CaughtUp
  ProtocolOrder
  GameIsFull
PROPERTIES
  RoomBroadcasts
  GameTerminates
CHECK_DEADLOCK FALSE
