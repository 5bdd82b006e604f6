--------------------------------- MODULE Robots --------------------------------
(***************************************************************************)
(* A client of this program at a server of this program: GameRoom and      *)
(* Client, joined by a connection that delivers in order until it breaks.  *)
(* The other sessions of the room behave as they like.                     *)
(*                                                                         *)
(* The client's session is the one at the address Mine, which no other     *)
(* connection gets.  The client connects once and never again.             *)
(***************************************************************************)
EXTENDS GameRoom, Client

CONSTANTS Mine,       \* the address of this client's session
          InboxBound  \* bound: messages the server is ahead of the client

ASSUME MineAssumption == Mine \in Session
ASSUME InboxAssumption == InboxBound \in Nat
ASSUME NameAssumption == PlayerName \in Names

VARIABLE link \* the connection: "down", "up", then "broken" for good

robotsVars == <<vars, clientVars, link>>

RobotsInit == Init /\ ClientInit /\ link = "down"

(***************************************************************************)
(* What a handler of the server writes to this session arrives.            *)
(***************************************************************************)
Deliver ==
  IF link' = "up"
  THEN /\ Len(inbox) + Len(sent'[Mine]) <= InboxBound
       /\ inbox' = inbox \o sent'[Mine]
  ELSE UNCHANGED inbox

ServerOnly == Deliver /\ UNCHANGED <<outbox, listener, input, in_lobby, status>>

ClientConnects ==
  /\ link = "down"
  /\ Connect(Mine)
  /\ link' = "up"
  /\ ServerOnly

OthersStep ==
  /\ \E s \in Session \ {Mine} : SessionStep(s)
  /\ UNCHANGED link
  /\ ServerOnly

RoomTurn ==
  /\ TurnTimer
  /\ UNCHANGED link
  /\ ServerOnly

(***************************************************************************)
(* The server's one receive on this session completes, with the first      *)
(* message the client has sent.                                            *)
(***************************************************************************)
ServerReads ==
  /\ link = "up" /\ outbox # <<>>
  /\ LET m == Head(outbox).message
     IN  \/ m = "Join" /\ JoinIgnored(Mine)
         \/ m = "Join" /\ (JoinLobby(Mine, PlayerName) \/ JoinStart(Mine, PlayerName))
         \/ m = "PlaceBomb" /\ ReceivePlaceBomb(Mine)
         \/ m = "PlaceBlock" /\ ReceivePlaceBlock(Mine)
         \/ m = "Move" /\ ReceiveMove(Mine, Head(outbox).direction)
  /\ outbox' = Tail(outbox)
  /\ UNCHANGED <<listener, input, in_lobby, status, link>>
  /\ Deliver

(***************************************************************************)
(* The connection breaks; either side finds out when it reads or writes.   *)
(***************************************************************************)
LinkBreaks ==
  /\ link = "up"
  /\ link' = "broken"
  /\ UNCHANGED <<vars, clientVars>>

ServerNotices ==
  /\ link = "broken"
  /\ Disconnect(Mine)
  /\ UNCHANGED <<clientVars, link>>

ClientNotices ==
  /\ link = "broken"
  /\ ListenerFails \/ InputFails
  /\ UNCHANGED <<vars, link>>

RoomIdle ==
  /\ sent' = Quiet
  /\ UNCHANGED <<sessionVars, moves, statusVars, roomVars, link>>

ClientListens == link # "down" /\ Listen /\ RoomIdle

(***************************************************************************)
(* Bound: once the server has posted its last receive on this session,     *)
(* what the player sends stays unread, and new inputs are left out.        *)
(***************************************************************************)
ClientPlays ==
  /\ link # "down"
  /\ Mine \in reading \/ input = "sending"
  /\ Play
  /\ RoomIdle

RobotsNext ==
  \/ ClientConnects \/ OthersStep \/ RoomTurn \/ ServerReads
  \/ LinkBreaks \/ ServerNotices \/ ClientNotices
  \/ ClientListens \/ ClientPlays

RobotsSpec == RobotsInit /\ [][RobotsNext]_robotsVars

(***************************************************************************)
(* The timer expires and the coroutine that reads goes on: both wait only  *)
(* for the clock, the socket and the event loop of their own process.      *)
(* Both are weak fairness, of RoomTurn and of ClientListens, with being    *)
(* enabled and the step itself spelled out: a turn writes two messages at  *)
(* most and is the only step to change the number of the turn while the    *)
(* timer is armed; the reader takes a message or finishes a drawing.       *)
(***************************************************************************)
RoomTurnReady == timer /\ (link = "up" => Len(inbox) + 2 <= InboxBound)

TimerExpires == <>[]RoomTurnReady => []<><<turn' # turn>>_robotsVars

ReaderReady ==
  /\ link # "down"
  /\ \/ listener = "reading" /\ inbox # <<>>
     \/ listener \in {"lobby", "game"}

ReaderGoesOn ==
  <>[]ReaderReady =>
    []<><<Len(inbox') < Len(inbox) \/ listener' # listener>>_robotsVars

FairRobots ==
  /\ RobotsSpec
  /\ TimerExpires
  /\ ReaderGoesOn

--------------------------------------------------------------------------------
(***************************************************************************)
(* The client has read everything the room has told it.                    *)
(***************************************************************************)
UpToDate == link = "up" /\ inbox = <<>> /\ listener # "dead"

(***************************************************************************)
(* A client that has read everything knows whether a game is on, also when *)
(* it came in the middle of one (GameRoom::join, receive_message).         *)
(***************************************************************************)
PhaseKnown == UpToDate => (in_lobby <=> ~ in_progress)

(***************************************************************************)
(* In a game it knows the turn, the players, where their robots stand, the *)
(* blocks and the bombs, all of it from events, those of the turns before  *)
(* it came included (join, init_game, receive_turn).  The room keeps the   *)
(* bombs that exploded and the blocks it reports destroyed, but no client  *)
(* that reads such a report lives on.                                      *)
(***************************************************************************)
GameKnown ==
  UpToDate /\ in_progress =>
    /\ status.turn = turn - 1
    /\ status.players = game_players
    /\ PlayerId \subseteq DOMAIN status.player_positions
    /\ \A i \in PlayerId : status.player_positions[i] = player_positions[i]
    /\ status.blocks = blocks
    /\ \A b \in DOMAIN bombs :
         /\ b \in DOMAIN status.bombs
         /\ status.bombs[b].position = bombs[b].position

(***************************************************************************)
(* On a connection that holds, one thing only in what this server sends    *)
(* kills the client's reader: the robot of a session that is no player, in *)
(* the explosion of a bomb that it knows.  scores.at throws, but bombs.at  *)
(* never does, in whichever game or turn the client came                   *)
(* (resolve(BombExploded), reset_state).  A reader that dies while it      *)
(* draws has failed to send a datagram, whatever the server sent.          *)
(***************************************************************************)
OnlyPhantomsKill ==
  [][link = "up" /\ listener = "reading" /\ listener' = "dead" =>
       \E k \in 1 .. Len(Head(inbox).events) :
         LET event == Head(inbox).events[k]
         IN  /\ event.type = "BombExploded"
             /\ event.bomb \in DOMAIN Replay(Head(inbox))[k - 1].bombs
             /\ NoPlayer \in event.robots]_robotsVars

(***************************************************************************)
(* A game that the client is in ends for it too: it draws a lobby again,   *)
(* whether it plays or watches, unless its reader dies or the connection   *)
(* breaks (handle_turn, receive_game_ended).                               *)
(***************************************************************************)
BackToLobby ==
  ~ in_lobby ~> (in_lobby \/ listener = "dead" \/ link = "broken")
================================================================================
