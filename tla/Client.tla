--------------------------------- MODULE Client --------------------------------
(***************************************************************************)
(* The player's program: class Client.  Its two coroutines share one       *)
(* thread, so that each runs from one co_await to the next in one step:    *)
(* server_listener reads a message, updates _game_status and draws it;     *)
(* gui_listener reads an input and passes it on.                           *)
(*                                                                         *)
(* A message arrives here whole.  The two coroutines also share the two    *)
(* buffers that the bytes go through, and can spoil each other's messages  *)
(* there; that is left out.                                                *)
(***************************************************************************)
EXTENDS Explosion

CONSTANTS PlayerName,   \* player_name
          OutboxBound   \* bound: messages sent that the server has not read

ASSUME OutboxAssumption == OutboxBound \in Nat

VARIABLES
  inbox,    \* what the server has written and the client has not read
  outbox,   \* what the client has sent and the server has not read
  listener, \* where server_listener awaits: a message, a Lobby or a Game it
            \* has drawn; or "dead", its exception dropped by detached
  input,    \* where gui_listener awaits: an input, or the sending of one
  in_lobby, \* _in_lobby
  status    \* _game_status

clientVars == <<inbox, outbox, listener, input, in_lobby, status>>

(***************************************************************************)
(* Messages to the server, and the inputs from the interface that are      *)
(* passed on.  _valid_msg is true exactly for these.                       *)
(***************************************************************************)
Join == [message |-> "Join", name |-> PlayerName]
InputMessage ==
  [message : {"PlaceBomb", "PlaceBlock"}] \cup [message : {"Move"}, direction : Direction]

NoStatus ==
  [turn |-> 0, players |-> <<>>, player_positions |-> <<>>, blocks |-> {},
   bombs |-> <<>>, explosions |-> {}, scores |-> <<>>, players_scored |-> {}]

ClientInit ==
  /\ inbox = <<>> /\ outbox = <<>>
  /\ listener = "reading" /\ input = "waiting"
  /\ in_lobby = TRUE
  /\ status = NoStatus

--------------------------------------------------------------------------------
(***************************************************************************)
(* The resolve functions, one event on a status.  blocks is a list in the  *)
(* code, and remove takes out all the equal ones: it is a set here.        *)
(***************************************************************************)
PutBomb(st, e) ==
  [st EXCEPT !.bombs = Insert(@, e.bomb, [position |-> e.position, timer |-> BombTimer])]

\* Mutant: the old position is not erased, and insert keeps it.
MoveRobot_Stays(st, e) ==
  [st EXCEPT !.player_positions = Insert(@, e.player, e.position)]

MoveRobot(st, e) ==
  [st EXCEPT !.player_positions =
     [i \in DOMAIN @ \cup {e.player} |-> IF i = e.player THEN e.position ELSE @[i]]]

PutBlock(st, e) == [st EXCEPT !.blocks = @ \cup {e.position}]

\* Mutant: a robot scores for every bomb of the turn.
Explode_EveryBomb(st, e) ==
  [st EXCEPT
     !.explosions = @ \cup ClientBlast(st.bombs[e.bomb].position, e.blocks),
     !.blocks = @ \ e.blocks,
     !.scores = [i \in DOMAIN @ |-> IF i \in e.robots THEN @[i] + 1 ELSE @[i]],
     !.bombs = [b \in DOMAIN @ \ {e.bomb} |-> @[b]]]

Explode(st, e) ==
  [st EXCEPT
     !.explosions = @ \cup ClientBlast(st.bombs[e.bomb].position, e.blocks),
     !.blocks = @ \ e.blocks,
     !.scores = [i \in DOMAIN @ |->
                   IF i \in e.robots \ st.players_scored THEN @[i] + 1 ELSE @[i]],
     !.players_scored = @ \cup e.robots,
     !.bombs = [b \in DOMAIN @ \ {e.bomb} |-> @[b]]]

ResolveEvent(st, e) ==
  CASE e.type = "BombPlaced"   -> PutBomb(st, e)
    [] e.type = "BombExploded" -> Explode(st, e)
    [] e.type = "PlayerMoved"  -> MoveRobot(st, e)
    [] e.type = "BlockPlaced"  -> PutBlock(st, e)

(***************************************************************************)
(* bombs.at and scores.at throw for a bomb or a player the client has not  *)
(* heard of.                                                               *)
(***************************************************************************)
Throws(st, e) ==
  /\ e.type = "BombExploded"
  /\ \/ e.bomb \notin DOMAIN st.bombs
     \/ ~ (e.robots \ st.players_scored \subseteq DOMAIN st.scores)

(***************************************************************************)
(* The loop of receive_turn: the status before the turn and after each of  *)
(* its events, up to the first that throws.                                *)
(***************************************************************************)
Replay(message) ==
  LET events == message.events
      after[k \in 0 .. Len(events)] ==
        IF k = 0 THEN [status EXCEPT !.turn = message.turn]
                 ELSE ResolveEvent(after[k - 1], events[k])
  IN  after

TurnThrows(message) ==
  \E k \in 1 .. Len(message.events) :
    /\ Throws(Replay(message)[k - 1], message.events[k])
    /\ \A j \in 1 .. (k - 1) : ~ Throws(Replay(message)[j - 1], message.events[j])

--------------------------------------------------------------------------------
(***************************************************************************)
(* server_listener.  The receive functions take one message, whole, off    *)
(* the stream; receive_message goes on by its type up to the co_await of   *)
(* send_lobby or send_game, or to the end for GameStarted, after which     *)
(* nothing is drawn.                                                       *)
(***************************************************************************)
TakeMessage ==
  /\ listener = "reading"
  /\ inbox # <<>>
  /\ inbox' = Tail(inbox)
  /\ UNCHANGED <<outbox, input>>

Reads(type) == TakeMessage /\ Head(inbox).type = type

ReceiveHello ==
  /\ Reads("Hello")
  /\ listener' = "lobby"
  /\ UNCHANGED <<in_lobby, status>>

ReceiveAcceptedPlayer ==
  /\ Reads("AcceptedPlayer")
  /\ status' = [status EXCEPT
                  !.players = Insert(@, Head(inbox).id, Head(inbox).name)]
  /\ listener' = "lobby"
  /\ UNCHANGED in_lobby

\* Mutant: the scores do not begin at 0 but with the first death.
ReceiveGameStarted_NoScores ==
  /\ Reads("GameStarted")
  /\ status' = [status EXCEPT !.players = Head(inbox).players]
  /\ in_lobby' = FALSE
  /\ UNCHANGED listener

ReceiveGameStarted ==
  /\ Reads("GameStarted")
  /\ LET players == Head(inbox).players
         all == DOMAIN players \cup DOMAIN status.scores
     IN  status' = [status EXCEPT
                      !.players = players,
                      !.scores = [i \in all |-> IF i \in DOMAIN @ THEN @[i] ELSE 0]]
  /\ in_lobby' = FALSE
  /\ UNCHANGED listener

ReceiveTurn ==
  /\ Reads("Turn")
  /\ ~ TurnThrows(Head(inbox))
  /\ status' = Replay(Head(inbox))[Len(Head(inbox).events)]
  /\ listener' = "game"
  /\ UNCHANGED in_lobby

(***************************************************************************)
(* The exception leaves the coroutine, and with it the status as the       *)
(* events before left it, which nobody reads any more.                     *)
(***************************************************************************)
ReceiveTurnThrows ==
  /\ Reads("Turn")
  /\ TurnThrows(Head(inbox))
  /\ listener' = "dead"
  /\ UNCHANGED <<in_lobby, status>>

\* Mutants: the blocks of the game stay; the client stays in the game.
ReceiveGameEnded_KeepsBlocks ==
  /\ Reads("GameEnded")
  /\ in_lobby' = TRUE
  /\ status' = [status EXCEPT !.turn = 0]
  /\ listener' = "lobby"

ReceiveGameEnded_StaysInGame ==
  /\ Reads("GameEnded")
  /\ status' = [status EXCEPT !.turn = 0, !.blocks = {}]
  /\ listener' = "lobby"
  /\ UNCHANGED in_lobby

ReceiveGameEnded ==
  /\ Reads("GameEnded")
  /\ in_lobby' = TRUE
  /\ status' = [status EXCEPT !.turn = 0, !.blocks = {}]
  /\ listener' = "lobby"

(***************************************************************************)
(* async_send_to completes.  After a Game the timers of the bombs count    *)
(* down, modulo 2^16, and what belongs to the turn is forgotten.           *)
(***************************************************************************)
CountDown(bs) == [b \in DOMAIN bs |-> [bs[b] EXCEPT !.timer = (@ - 1) % U16]]

LobbyDrawn ==
  /\ listener = "lobby"
  /\ listener' = "reading"
  /\ UNCHANGED <<inbox, outbox, input, in_lobby, status>>

\* Mutants: the explosions stay; the timers stand still.
GameDrawn_KeepsExplosions ==
  /\ listener = "game"
  /\ listener' = "reading"
  /\ status' = [status EXCEPT
                  !.bombs = CountDown(@),
                  !.players_scored = {}]
  /\ UNCHANGED <<inbox, outbox, input, in_lobby>>

GameDrawn_TimersStand ==
  /\ listener = "game"
  /\ listener' = "reading"
  /\ status' = [status EXCEPT !.explosions = {}, !.players_scored = {}]
  /\ UNCHANGED <<inbox, outbox, input, in_lobby>>

GameDrawn ==
  /\ listener = "game"
  /\ listener' = "reading"
  /\ status' = [status EXCEPT
                  !.bombs = CountDown(@),
                  !.explosions = {},
                  !.players_scored = {}]
  /\ UNCHANGED <<inbox, outbox, input, in_lobby>>

(***************************************************************************)
(* async_send_to of send_lobby or send_game fails, as it may where the     *)
(* interface cannot be reached: it throws, and detached drops the          *)
(* coroutine, before it has counted down or cleared anything.              *)
(***************************************************************************)
DrawingFails ==
  /\ listener \in {"lobby", "game"}
  /\ listener' = "dead"
  /\ UNCHANGED <<inbox, outbox, input, in_lobby, status>>

(***************************************************************************)
(* The connection is gone: the read throws, and detached drops it.         *)
(***************************************************************************)
ListenerFails ==
  /\ listener = "reading"
  /\ listener' = "dead"
  /\ UNCHANGED <<inbox, outbox, input, in_lobby, status>>

--------------------------------------------------------------------------------
(***************************************************************************)
(* gui_listener.  An input that cannot be passed on changes nothing.  In   *)
(* the lobby any input is a Join; in a game it is sent as it is, and when  *)
(* the sending is over gui_listener looks again whether it is in the       *)
(* lobby.                                                                  *)
(***************************************************************************)
Send(m) ==
  /\ Len(outbox) < OutboxBound
  /\ outbox' = Append(outbox, m)

ReceiveInput(m) ==
  /\ input = "waiting"
  /\ IF in_lobby THEN Send(Join) /\ UNCHANGED input
                 ELSE Send(m) /\ input' = "sending"
  /\ UNCHANGED <<inbox, listener, in_lobby, status>>

InputSent ==
  /\ input = "sending"
  /\ input' = "waiting"
  /\ IF in_lobby THEN Send(Join) ELSE UNCHANGED outbox
  /\ UNCHANGED <<inbox, listener, in_lobby, status>>

(***************************************************************************)
(* The connection is gone: the send throws, one just begun or one that is  *)
(* under way.                                                              *)
(***************************************************************************)
InputFails ==
  /\ input # "dead"
  /\ input' = "dead"
  /\ UNCHANGED <<inbox, outbox, listener, in_lobby, status>>

Listen ==
  \/ ReceiveHello \/ ReceiveAcceptedPlayer \/ ReceiveGameStarted
  \/ ReceiveTurn \/ ReceiveTurnThrows \/ ReceiveGameEnded
  \/ LobbyDrawn \/ GameDrawn \/ DrawingFails

Play == InputSent \/ \E m \in InputMessage : ReceiveInput(m)

--------------------------------------------------------------------------------
(***************************************************************************)
(* The types of the client's variables.  Nothing it knows of another game  *)
(* or of robots without a player leaves the types of this one.             *)
(***************************************************************************)
ClientTypeOK ==
  /\ inbox \in Seq(Message)
  /\ outbox \in Seq(InputMessage \cup {Join})
  /\ listener \in {"reading", "lobby", "game", "dead"}
  /\ input \in {"waiting", "sending", "dead"}
  /\ in_lobby \in BOOLEAN
  /\ status.turn \in Nat
  /\ status.players \in PlayerMap
  /\ \A i \in DOMAIN status.player_positions :
       i \in AnyId /\ status.player_positions[i] \in Position
  /\ status.blocks \in SUBSET Position /\ status.explosions \in SUBSET Position
  /\ \A b \in DOMAIN status.bombs : status.bombs[b] \in Bomb
  /\ DOMAIN status.scores \subseteq PlayerId
  /\ status.players_scored \in SUBSET PlayerId
================================================================================
