-------------------------------- MODULE GameRoom -------------------------------
(***************************************************************************)
(* The server's game: class GameRoom, with the part of GameSession it sees *)
(* (the id of a session and whether its one pending receive is still       *)
(* open).  The server runs on a single thread, so each completion handler  *)
(* of boost::asio is one action: a new connection, a received message, a   *)
(* failed read or write, the turn timer.                                   *)
(*                                                                         *)
(* Sessions are numbered by the address of their object, the order in      *)
(* which std::map<std::shared_ptr<GameSession>, ...> walks the moves.      *)
(***************************************************************************)
EXTENDS Explosion, FiniteSets

CONSTANTS SessionsCount, \* the addresses sessions are created at
          GameLength,    \* game_length
          InitialBlocks, \* initial_blocks
          Seed,          \* seed
          Multiplier,    \* Q of GameRoom.h
          Modulus        \* MOD of GameRoom.h

ASSUME SessionsAssumption == SessionsCount \in Nat
ASSUME LengthAssumption == GameLength \in Nat \ {0} /\ GameLength < U16
ASSUME BlocksAssumption == InitialBlocks \in Nat
ASSUME RandomAssumption ==
  Seed \in Nat /\ Multiplier \in Nat /\ Modulus \in Nat \ {0}

Session == 1 .. SessionsCount

(***************************************************************************)
(* ClientMessage.  message_id tells place bomb, place block and move       *)
(* apart; NoMove is a session with no entry in _moves.                     *)
(***************************************************************************)
ClientMessage(m, d) == [message |-> m, direction |-> d]
PlaceBomb == ClientMessage("PlaceBomb", "Up")
PlaceBlock == ClientMessage("PlaceBlock", "Up")
NoMove == ClientMessage("None", "Up")
Move == [message : {"None", "PlaceBomb", "PlaceBlock", "Move"},
         direction : Direction]

VARIABLES
  players,          \* _players: the sessions attached to the room
  reading,          \* the sessions whose async_receive is pending
  id,               \* _id of each session
  moves,            \* _moves, NoMove where there is no entry
  in_progress,      \* _game_in_progress
  next_id,          \* _next_id
  next_bomb,        \* _next_bomb
  rng,              \* _next_random_num
  turn,             \* _game_status.turn
  turns,            \* _game_status.turns: turns[k + 1] is the events of turn k
  blocks,           \* _game_status.blocks, as a set
  bombs,            \* _game_status.bombs
  game_players,     \* _game_status.players
  player_positions, \* _game_status.player_positions
  timer,            \* whether _timer has an async_wait pending
  sent              \* the messages the current handler wrote, by session

sessionVars == <<players, reading, id>>
statusVars == <<turn, turns, blocks, bombs, game_players, player_positions>>
roomVars == <<in_progress, next_id, next_bomb, rng, timer>>
vars == <<sessionVars, moves, statusVars, roomVars, sent>>

(***************************************************************************)
(* map::operator[] creates the value of a key that is not there.           *)
(***************************************************************************)
Touch(positions, i) == Insert(positions, i, Origin)

--------------------------------------------------------------------------------
(***************************************************************************)
(* GameRoom::random, and the positions drawn with it.  Number k is the     *)
(* k-th number drawn from the current state of the generator; a position   *)
(* takes two.                                                              *)
(***************************************************************************)
Draws == 2 * (PlayersCount + InitialBlocks)

random[k \in 0 .. Draws] ==
  IF k = 0 THEN rng ELSE (random[k - 1] * Multiplier) % Modulus

\* Mutant: the remainders taken by one more than the size.
DrawnPosition_OffByOne(k) ==
  [x |-> random[2 * k + 1] % (SizeX + 1), y |-> random[2 * k + 2] % (SizeY + 1)]

DrawnPosition(k) ==
  [x |-> random[2 * k + 1] % SizeX, y |-> random[2 * k + 2] % SizeY]

(***************************************************************************)
(* GameRoom::init_game: a position for every player in id order, then the  *)
(* initial blocks, a field that has one already being skipped.  Positions  *)
(* are inserted: a key that is there keeps its value.                      *)
(***************************************************************************)
StartPositions ==
  [i \in PlayerId \cup DOMAIN player_positions |->
     IF i \in DOMAIN player_positions THEN player_positions[i] ELSE DrawnPosition(i)]

StartMoves == [k \in 1 .. PlayersCount |-> PlayerMoved(k - 1, DrawnPosition(k - 1))]

DrawnBlock(k) == DrawnPosition(PlayersCount + k - 1)

BlocksDrawn(k) == blocks \cup {DrawnBlock(j) : j \in 1 .. k}

BlockEvents[k \in 0 .. InitialBlocks] ==
  IF k = 0 THEN <<>>
  ELSE IF DrawnBlock(k) \in BlocksDrawn(k - 1)
       THEN BlockEvents[k - 1]
       ELSE Append(BlockEvents[k - 1], BlockPlaced(DrawnBlock(k)))

StartEvents == StartMoves \o BlockEvents[InitialBlocks]

--------------------------------------------------------------------------------
(***************************************************************************)
(* The three resolve functions, on the status st as it stands and for the  *)
(* session s whose message is m.                                           *)
(***************************************************************************)
ResolvePlaceBomb(st, s) ==
  LET positions == Touch(st.positions, id[s])
      position == positions[id[s]]
  IN  [st EXCEPT
         !.positions = positions,
         !.bombs = Insert(@, next_bomb, [position |-> position, timer |-> BombTimer]),
         !.events = Append(@, BombPlaced(next_bomb, position))]

ResolvePlaceBlock(st, s) ==
  LET positions == Touch(st.positions, id[s])
      position == positions[id[s]]
  IN  IF position \in st.blocks
      THEN [st EXCEPT !.positions = positions,
                      !.blocks = @ \cup {position},
                      !.events = Append(@, BlockPlaced(position))]
      ELSE [st EXCEPT !.positions = positions]

ResolveMove(st, s, direction) ==
  LET positions == Touch(st.positions, id[s])
      position == Step(positions[id[s]], direction, 1)
  IN  IF position \in Position \ st.blocks
      THEN [st EXCEPT !.positions = [positions EXCEPT ![id[s]] = position],
                      !.events = Append(@, PlayerMoved(id[s], position))]
      ELSE [st EXCEPT !.positions = positions]

Resolve(st, s) ==
  CASE moves[s].message = "None"       -> st
    [] moves[s].message = "PlaceBomb"  -> ResolvePlaceBomb(st, s)
    [] moves[s].message = "PlaceBlock" -> ResolvePlaceBlock(st, s)
    [] moves[s].message = "Move"       -> ResolveMove(st, s, moves[s].direction)

(***************************************************************************)
(* The loop over _moves, in the order of the addresses.                    *)
(***************************************************************************)
CurrentStatus ==
  [bombs |-> bombs, blocks |-> blocks,
   positions |-> player_positions, events |-> <<>>]

Resolved[s \in 0 .. SessionsCount] ==
  IF s = 0 THEN CurrentStatus ELSE Resolve(Resolved[s - 1], s)

(***************************************************************************)
(* The timers of all bombs count down by one, modulo 2^16, and the bombs   *)
(* that reach 0 explode in the order of their ids.  Nothing is removed.    *)
(***************************************************************************)
\* Mutant: a timer that stops at 0.
Tick_Saturates(bs) ==
  [b \in DOMAIN bs |-> [bs[b] EXCEPT !.timer = IF @ = 0 THEN 0 ELSE @ - 1]]

Tick(bs) == [b \in DOMAIN bs |-> [bs[b] EXCEPT !.timer = (@ - 1) % U16]]

Exploding(bs) == {b \in DOMAIN bs : bs[b].timer = 0}

ExplodeBomb(st, b) ==
  LET p == st.bombs[b].position
  IN  BombExploded(b, RobotsDestroyed(p, st.blocks, st.positions),
                   BlocksDestroyed(p, st.blocks))

PlayedStatus == Resolved[SessionsCount]

TickedBombs == Tick(PlayedStatus.bombs)

Explosions[k \in 0 .. (next_bomb + 1)] ==
  IF k = 0 THEN <<>>
  ELSE IF k - 1 \in Exploding(TickedBombs)
       THEN Append(Explosions[k - 1], ExplodeBomb(PlayedStatus, k - 1))
       ELSE Explosions[k - 1]

TurnEvents == PlayedStatus.events \o Explosions[next_bomb + 1]

--------------------------------------------------------------------------------
(***************************************************************************)
(* What a handler writes.  A session that attaches is brought up to date:  *)
(* Catchup is everything the room tells it after Hello, and everything the *)
(* room has told the sessions that were there.                             *)
(***************************************************************************)
Quiet == [s \in Session |-> <<>>]

SendTo(s, messages) == [Quiet EXCEPT ![s] = messages]

\* Mutant: only the sessions that have joined are told.
SendAll_PlayersOnly(messages) ==
  [s \in Session |-> IF s \in players /\ id[s] # NoPlayer THEN messages ELSE <<>>]

SendAll(messages) ==
  [s \in Session |-> IF s \in players THEN messages ELSE <<>>]

AcceptedPlayers ==
  [k \in 1 .. next_id |-> AcceptedPlayer(k - 1, game_players[k - 1])]

\* Mutant: the first turn is missing.
TurnMessages_FromOne == [k \in 1 .. (Len(turns) - 1) |-> Turn(k, turns[k + 1])]

TurnMessages == [k \in 1 .. Len(turns) |-> Turn(k - 1, turns[k])]

\* Mutant: a late session is not told that the game has started.
Catchup_TurnsOnly == IF in_progress THEN TurnMessages ELSE AcceptedPlayers

Catchup == IF in_progress
           THEN <<GameStarted(game_players)>> \o TurnMessages
           ELSE AcceptedPlayers

--------------------------------------------------------------------------------

(***************************************************************************)
(* _game_status.turn has no value until init_game gives it one, and        *)
(* nothing reads it before.                                                *)
(***************************************************************************)
Init ==
  /\ players = {} /\ reading = {}
  /\ id = [s \in Session |-> NoPlayer]
  /\ moves = [s \in Session |-> NoMove]
  /\ in_progress = FALSE /\ timer = FALSE
  /\ next_id = 0 /\ next_bomb = 0 /\ rng = Seed
  /\ turn = 0 /\ turns = <<>>
  /\ blocks = {} /\ bombs = <<>>
  /\ game_players = <<>> /\ player_positions = <<>>
  /\ sent = Quiet

(***************************************************************************)
(* GameRoom::handle_turn arms the timer; what the timer does is TurnTimer. *)
(***************************************************************************)
\* Mutant: the timer is not armed again.
HandleTurn_NotArmed == timer' = FALSE

HandleTurn == timer' = TRUE

\* Mutants: reset_state leaves out the turns, the blocks, the bombs, the next id.
ResetState_KeepsTurns ==
  /\ in_progress' = FALSE
  /\ next_id' = 0 /\ next_bomb' = 0 /\ rng' = Seed
  /\ blocks' = {} /\ bombs' = <<>>
  /\ game_players' = <<>> /\ player_positions' = <<>>
  /\ UNCHANGED turns

ResetState_KeepsBlocks ==
  /\ in_progress' = FALSE
  /\ next_id' = 0 /\ next_bomb' = 0 /\ rng' = Seed
  /\ turns' = <<>> /\ bombs' = <<>>
  /\ game_players' = <<>> /\ player_positions' = <<>>
  /\ UNCHANGED blocks

ResetState_KeepsBombs ==
  /\ in_progress' = FALSE
  /\ next_id' = 0 /\ next_bomb' = 0 /\ rng' = Seed
  /\ turns' = <<>> /\ blocks' = {}
  /\ game_players' = <<>> /\ player_positions' = <<>>
  /\ bombs' = TickedBombs

ResetState_KeepsNextId ==
  /\ in_progress' = FALSE
  /\ next_bomb' = 0 /\ rng' = Seed
  /\ turns' = <<>> /\ blocks' = {} /\ bombs' = <<>>
  /\ game_players' = <<>> /\ player_positions' = <<>>
  /\ UNCHANGED next_id

ResetState ==
  /\ in_progress' = FALSE
  /\ next_id' = 0 /\ next_bomb' = 0 /\ rng' = Seed
  /\ turns' = <<>> /\ blocks' = {} /\ bombs' = <<>>
  /\ game_players' = <<>> /\ player_positions' = <<>>

(***************************************************************************)
(* A connection is accepted and its session started.  The session is a new *)
(* object: its address is free, so no session lives there, attached to the *)
(* room or kept alive by its entry in _moves.                              *)
(***************************************************************************)
Connect(s) ==
  /\ s \notin players /\ moves[s] = NoMove
  /\ players' = players \cup {s}
  /\ reading' = reading \cup {s}
  /\ id' = [id EXCEPT ![s] = NoPlayer]
  /\ sent' = SendTo(s, <<Hello>> \o Catchup)
  /\ UNCHANGED <<moves, statusVars, roomVars>>

(***************************************************************************)
(* The session's receive or one of its writes completes with an error.     *)
(***************************************************************************)
Disconnect(s) ==
  /\ s \in players
  /\ players' = players \ {s}
  /\ reading' = reading \ {s}
  /\ sent' = Quiet
  /\ UNCHANGED <<id, moves, statusVars, roomVars>>

(***************************************************************************)
(* The session's receive completes with a message.  read_message posts one *)
(* receive when the session starts and the handler posts no other.         *)
(***************************************************************************)
Receive(s) ==
  /\ s \in reading
  /\ reading' = reading \ {s}
  /\ UNCHANGED players

(***************************************************************************)
(* GameRoom::resolve_join in its three cases: a game is on, the lobby      *)
(* still has a place left after this player, or this player fills it.      *)
(***************************************************************************)
JoinIgnored(s) ==
  /\ in_progress
  /\ Receive(s)
  /\ sent' = Quiet
  /\ UNCHANGED <<id, moves, statusVars, roomVars>>

Accept(s, name) ==
  /\ ~ in_progress
  /\ Receive(s)
  /\ id' = [id EXCEPT ![s] = next_id]
  /\ game_players' = Insert(game_players, next_id, name)
  /\ next_id' = next_id + 1

JoinLobby(s, name) ==
  /\ Accept(s, name)
  /\ Cardinality(DOMAIN game_players') # PlayersCount
  /\ sent' = SendAll(<<AcceptedPlayer(next_id, name)>>)
  /\ UNCHANGED <<moves, turn, turns, blocks, bombs, player_positions,
                 in_progress, next_bomb, rng, timer>>

JoinStart(s, name) ==
  /\ Accept(s, name)
  /\ Cardinality(DOMAIN game_players') = PlayersCount
  /\ in_progress' = TRUE
  /\ rng' = random[Draws]
  /\ player_positions' = StartPositions
  /\ blocks' = BlocksDrawn(InitialBlocks)
  /\ turns' = <<StartEvents>> \o SubSeq(turns, 2, Len(turns))
  /\ turn' = 1
  /\ HandleTurn
  /\ sent' = SendAll(<<AcceptedPlayer(next_id, name), GameStarted(game_players'),
                       Turn(0, StartEvents)>>)
  /\ UNCHANGED <<moves, bombs, next_bomb>>

(***************************************************************************)
(* GameSession::receive_place_bomb, receive_place_block and receive_move:  *)
(* the room keeps the message for the next turn, whatever its state.  The  *)
(* message receive_move passes on has the message_id of a bomb.            *)
(***************************************************************************)
AddMessage(s, m) ==
  /\ Receive(s)
  /\ moves' = [moves EXCEPT ![s] = IF @ = NoMove THEN m ELSE @]
  /\ sent' = Quiet
  /\ UNCHANGED <<id, statusVars, roomVars>>

ReceivePlaceBomb(s) == AddMessage(s, PlaceBomb)

ReceivePlaceBlock(s) == AddMessage(s, PlaceBlock)

ReceiveMove(s, d) == AddMessage(s, ClientMessage("PlaceBomb", d))

(***************************************************************************)
(* A message whose first byte is none of the four.                         *)
(***************************************************************************)
ReceiveUnknown(s) ==
  /\ Receive(s)
  /\ sent' = Quiet
  /\ UNCHANGED <<id, moves, statusVars, roomVars>>

(***************************************************************************)
(* The turn timer expires: the moves, the bombs, the Turn message, and     *)
(* then either the next turn or the end of the game.                       *)
(***************************************************************************)
NextTurn ==
  /\ timer /\ turn # GameLength
  /\ turn' = (turn + 1) % U16
  /\ turns' = Append(turns, TurnEvents)
  /\ bombs' = TickedBombs
  /\ blocks' = PlayedStatus.blocks
  /\ player_positions' = PlayedStatus.positions
  /\ moves' = [s \in Session |-> NoMove]
  /\ HandleTurn
  /\ sent' = SendAll(<<Turn(turn, TurnEvents)>>)
  /\ UNCHANGED <<sessionVars, game_players, in_progress, next_id, next_bomb, rng>>

(***************************************************************************)
(* The last turn: no timer is armed again, and nothing has written         *)
(* _game_status.scores, so that GameEnded carries no score.                *)
(***************************************************************************)
LastTurn ==
  /\ timer /\ turn = GameLength
  /\ timer' = FALSE
  /\ moves' = [s \in Session |-> NoMove]
  /\ sent' = SendAll(<<Turn(turn, TurnEvents), GameEnded(<<>>)>>)
  /\ ResetState
  /\ UNCHANGED <<sessionVars, turn>>

TurnTimer == NextTurn \/ LastTurn

SessionStep(s) ==
  \/ Connect(s) \/ Disconnect(s)
  \/ JoinIgnored(s)
  \/ \E n \in Names : JoinLobby(s, n) \/ JoinStart(s, n)
  \/ ReceivePlaceBomb(s) \/ ReceivePlaceBlock(s)
  \/ \E d \in Direction : ReceiveMove(s, d)
  \/ ReceiveUnknown(s)

Next ==
  \/ \E s \in Session : SessionStep(s)
  \/ TurnTimer

Spec == Init /\ [][Next]_vars

(***************************************************************************)
(* The timer of a turn expires in the end: it is a steady_timer of the     *)
(* event loop, and no handler blocks the loop.  Clients owe nothing.       *)
(* TurnTimer is enabled while the timer is armed, so that this is weak     *)
(* fairness of TurnTimer, spelled out.                                     *)
(***************************************************************************)
TimerFires == <>[]timer => []<><<TurnTimer>>_vars

--------------------------------------------------------------------------------

(***************************************************************************)
(* The type of every variable.  Bomb ids stay below the counter's next     *)
(* value, timers within sixteen bits and positions on the board, also for  *)
(* the robot that operator[] makes up for a session without a player.      *)
(***************************************************************************)
TypeOK ==
  /\ players \in SUBSET Session /\ reading \in SUBSET players
  /\ id \in [Session -> AnyId]
  /\ moves \in [Session -> Move]
  /\ in_progress \in BOOLEAN /\ timer \in BOOLEAN
  /\ next_id \in 0 .. PlayersCount /\ next_bomb \in Nat /\ rng \in Nat
  /\ turn \in 0 .. (U16 - 1)
  /\ turns \in Seq(Seq(Event))
  /\ blocks \in SUBSET Position
  /\ DOMAIN bombs \subseteq 0 .. next_bomb
  /\ bombs \in [DOMAIN bombs -> Bomb]
  /\ game_players \in [0 .. (next_id - 1) -> Names]
  /\ DOMAIN player_positions \subseteq AnyId
  /\ player_positions \in [DOMAIN player_positions -> Position]
  /\ sent \in [Session -> Seq(Message)]

(***************************************************************************)
(* The timer is armed exactly while a game is on.  handle_turn moves the   *)
(* expiry of the one timer of the room, which aborts a wait that is        *)
(* pending, and an aborted wait makes the server exit (GameRoom.cpp, the   *)
(* branch on ec): no game may start while the timer of another runs, and   *)
(* no game may run without one.                                            *)
(***************************************************************************)
OneTimer == timer <=> in_progress

(***************************************************************************)
(* A lobby never holds the players of a whole game, a game always holds    *)
(* exactly players_count, and their ids are 0, 1, ... without a gap, also  *)
(* in the games after the first (resolve_join, reset_state).               *)
(***************************************************************************)
GameIsFull ==
  /\ DOMAIN game_players = 0 .. (next_id - 1)
  /\ in_progress <=> next_id = PlayersCount

(***************************************************************************)
(* While a game is on, the turns the room keeps for late observers are     *)
(* those from 0 to the last one it has sent, and the game never passes     *)
(* game_length (handle_turn, reset_state).                                 *)
(***************************************************************************)
TurnsNumbered ==
  IF in_progress THEN turn = Len(turns) /\ turn \in 1 .. GameLength
                 ELSE turns = <<>>

(***************************************************************************)
(* The events of the kept turns tell the room's own status.  A robot is    *)
(* where its last PlayerMoved put it.  A block or a bomb that was placed   *)
(* and that no later BombExploded takes away is in the status, and the     *)
(* status holds nothing that was not placed in this game: the room forgets *)
(* nothing that a client which replays the turns still has, and what it    *)
(* has beyond that are things an explosion took away (init_game, the       *)
(* resolve functions, explode_bombs, reset_state).                         *)
(***************************************************************************)
EventAt(e, k) == \E i \in 1 .. Len(turns[k]) : turns[k][i] = e

LastMove(i, p) ==
  \E k \in 1 .. Len(turns) :
    /\ EventAt(PlayerMoved(i, p), k)
    /\ \A j \in (k + 1) .. Len(turns), q \in Position :
         ~ EventAt(PlayerMoved(i, q), j)

Placed(e) == \E k \in 1 .. Len(turns) : EventAt(e, k)

Takes(explosion, e) ==
  /\ explosion.type = "BombExploded"
  /\ \/ e.type = "BlockPlaced" /\ e.position \in explosion.blocks
     \/ e.type = "BombPlaced" /\ e.bomb = explosion.bomb

\* e was placed, and no event after that, of its turn or of a later one, takes it away.
Remains(e) ==
  \E k \in 1 .. Len(turns) : \E i \in 1 .. Len(turns[k]) :
    /\ turns[k][i] = e
    /\ \A m \in k .. Len(turns) : \A j \in 1 .. Len(turns[m]) :
         m > k \/ j > i => ~ Takes(turns[m][j], e)

EventsTellStatus ==
  in_progress =>
    /\ \A i \in PlayerId : LastMove(i, player_positions[i])
    /\ \A p \in Position :
         /\ Remains(BlockPlaced(p)) => p \in blocks
         /\ p \in blocks => Placed(BlockPlaced(p))
    /\ \A b \in 0 .. next_bomb :
         /\ (\E p \in Position : Remains(BombPlaced(b, p))) => b \in DOMAIN bombs
         /\ b \in DOMAIN bombs => \E p \in Position : Placed(BombPlaced(b, p))

(***************************************************************************)
(* Every bomb on the board would explode in the cross of the rules, among  *)
(* all the blocks or any of them.  The loop of explode_bombs that goes up  *)
(* has the wrong bound (Explosion.tla); no bomb stands where it matters,   *)
(* for bombs are laid by sessions without a robot and these all stand in   *)
(* the corner.                                                             *)
(***************************************************************************)
BlastsAreCrosses ==
  \A b \in DOMAIN bombs : \A bs \in SUBSET blocks :
    ServerBlast(bombs[b].position, bs) = Cross(bombs[b].position, bs)

(***************************************************************************)
(* The error of explode_bombs has one sign on each side of the diagonal.   *)
(* Wherever a bomb stood on the board as it is, left of the diagonal its   *)
(* blast would only miss fields of the cross, right of it only add fields, *)
(* and on it the mixed-up bound of the upward loop would not show.         *)
(***************************************************************************)
BlastErrsOneWay ==
  /\ \A p \in BlastTooSmall(blocks) : p.x < p.y
  /\ \A p \in BlastTooLarge(blocks) : p.x > p.y

(***************************************************************************)
(* The client would draw no less than the fields the rules kill on,        *)
(* although all it knows of the board's blocks is the report; and exactly  *)
(* those when the report misses no block of the cross                      *)
(* (resolve(BombExploded)).                                                *)
(***************************************************************************)
ClientDrawsCross ==
  /\ DrawnTooSmall(blocks) = {}
  /\ \A p \in DrawnTooLarge(blocks) : p.x < p.y

(***************************************************************************)
(* A bomb explodes once: no explosion of it before it has been laid, no    *)
(* second one in the same game although its timer runs on below zero, and  *)
(* none missing once bomb_timer turns have passed since it was first laid, *)
(* if the game lasts so long.  A bomb_timer of 0 never explodes            *)
(* (resolve_place_bomb, handle_turn, explode_bombs).  Which of these turns *)
(* it is the rules say too: FuseLasts in RoomRules.                        *)
(***************************************************************************)
PlacedIn(b, k) == \E p \in Position : EventAt(BombPlaced(b, p), k)

ExplosionsOf(b, k) ==
  {i \in 1 .. Len(turns[k]) :
     turns[k][i].type = "BombExploded" /\ turns[k][i].bomb = b}

FirstPlacedIn(b, k) == PlacedIn(b, k) /\ \A j \in 1 .. (k - 1) : ~ PlacedIn(b, j)

ExplodesOnce ==
  \A b \in 0 .. next_bomb :
    /\ \A k \in 1 .. Len(turns), m \in 1 .. Len(turns) :
         \A i \in ExplosionsOf(b, k), j \in ExplosionsOf(b, m) : k = m /\ i = j
    /\ \A k \in 1 .. Len(turns) :
         ExplosionsOf(b, k) # {} => BombTimer > 0 /\ \E j \in 1 .. k : PlacedIn(b, j)
    /\ \A j \in 1 .. Len(turns) :
         FirstPlacedIn(b, j) /\ BombTimer > 0 /\ j + BombTimer <= Len(turns) =>
           \E k \in j .. (j + BombTimer) : ExplosionsOf(b, k) # {}

(***************************************************************************)
(* A game that has started ends: the timer chain is never broken, and      *)
(* neither players who stop sending nor players who disconnect hold it up  *)
(* (handle_turn).                                                          *)
(***************************************************************************)
GameTerminates == in_progress ~> ~ in_progress

================================================================================
