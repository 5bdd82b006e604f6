------------------------------- MODULE ClientPlay ------------------------------
(***************************************************************************)
(* The client and a server it knows only by the protocol.  The client is   *)
(* meant for any server of the game; the one here, external to the         *)
(* program, plays by the rules the client draws by: bombs whose fuse runs  *)
(* out explode at the start of a turn, in crosses, and bomb ids begin at 0 *)
(* in every game.  Several bombs may explode at once, destroy the same     *)
(* robots and share their blocks.                                          *)
(***************************************************************************)
EXTENDS Client, FiniteSets

CONSTANTS GamesBound,  \* bound: games the server plays
          TurnsBound,  \* turns of a game
          BombsBound   \* bound: bombs laid in a game

ASSUME BoundsAssumption == {GamesBound, TurnsBound, BombsBound} \subseteq Nat

VARIABLES
  games,  \* the number of games begun
  next,   \* the number of the server's next turn, 0 in a lobby
  laid,   \* the bombs laid, in the order of their ids: where and when
  walls,  \* the blocks on the board
  robots, \* where each player's robot stands
  deaths, \* the number of turns of this game that destroyed it
  blast   \* the fields on which a robot died in the last turn

serverVars == <<games, next, laid, walls, robots, deaths, blast>>
playVars == <<clientVars, serverVars>>

PlayInit ==
  /\ ClientInit
  /\ games = 0 /\ next = 0 /\ laid = <<>> /\ walls = {} /\ blast = {}
  /\ robots = [i \in PlayerId |-> Origin]
  /\ deaths = [i \in PlayerId |-> 0]

(***************************************************************************)
(* The server writes when the client has read everything: how far it runs  *)
(* ahead makes no difference to a client that reads in order.              *)
(***************************************************************************)
Write(messages) ==
  /\ inbox = <<>> /\ listener = "reading"
  /\ inbox' = messages
  /\ UNCHANGED <<outbox, listener, input, in_lobby, status>>

StartGame ==
  /\ next = 0 /\ games < GamesBound
  /\ \E name \in Names :
       Write(<<GameStarted([i \in PlayerId |-> name]),
               Turn(0, [k \in 1 .. PlayersCount |-> PlayerMoved(k - 1, Origin)])>>)
  /\ games' = games + 1 /\ next' = 1
  /\ laid' = <<>> /\ walls' = {} /\ blast' = {}
  /\ robots' = [i \in PlayerId |-> Origin]
  /\ deaths' = [i \in PlayerId |-> 0]

(***************************************************************************)
(* The bombs of a turn, and what the server reports of each.               *)
(***************************************************************************)
Due == {b \in 0 .. (Len(laid) - 1) : laid[b + 1].turn + BombTimer = next}

Reach(b) == Cross(laid[b + 1].position, walls)

Blown(b) ==
  BombExploded(b, {i \in PlayerId : robots[i] \in Reach(b)}, walls \cap Reach(b))

Reports[k \in 0 .. Len(laid)] ==
  IF k = 0 THEN <<>>
  ELSE IF k - 1 \in Due THEN Append(Reports[k - 1], Blown(k - 1)) ELSE Reports[k - 1]

(***************************************************************************)
(* A turn: the explosions, and then what one of the players does.          *)
(***************************************************************************)
PlayTurn(events) ==
  LET dead == UNION {Reach(b) : b \in Due}
      hit == {i \in PlayerId : robots[i] \in dead}
  IN  /\ next # 0
      /\ Write(<<Turn(next, Reports[Len(laid)] \o events)>>
                 \o (IF next = TurnsBound THEN <<GameEnded(<<>>)>> ELSE <<>>))
      /\ next' = IF next = TurnsBound THEN 0 ELSE next + 1
      /\ deaths' = [i \in PlayerId |-> IF i \in hit THEN deaths[i] + 1 ELSE deaths[i]]
      /\ blast' = dead
      /\ UNCHANGED games

LeftWalls == walls \ UNION {Reach(b) : b \in Due}

NothingTurn ==
  /\ PlayTurn(<<>>)
  /\ walls' = LeftWalls
  /\ UNCHANGED <<laid, robots>>

(***************************************************************************)
(* Players lay bombs and blocks where they stand.                          *)
(***************************************************************************)
BombTurn(who) ==
  /\ Len(laid) + Cardinality(who) <= BombsBound
  /\ \E order \in [1 .. Cardinality(who) -> who] :
       /\ \A i \in who : \E k \in DOMAIN order : order[k] = i
       /\ PlayTurn([k \in DOMAIN order |-> BombPlaced(Len(laid) + k - 1, robots[order[k]])])
       /\ laid' = laid \o [k \in DOMAIN order |->
                             [position |-> robots[order[k]], turn |-> next]]
  /\ walls' = LeftWalls
  /\ UNCHANGED robots

BlockTurn(i) ==
  /\ robots[i] \notin LeftWalls
  /\ PlayTurn(<<BlockPlaced(robots[i])>>)
  /\ walls' = LeftWalls \cup {robots[i]}
  /\ UNCHANGED <<laid, robots>>

MoveTurn(i, p) ==
  /\ PlayTurn(<<PlayerMoved(i, p)>>)
  /\ robots' = [robots EXCEPT ![i] = p]
  /\ walls' = LeftWalls
  /\ UNCHANGED laid

PlayNext ==
  \/ StartGame
  \/ NothingTurn
  \/ \E who \in SUBSET PlayerId \ {{}} : BombTurn(who)
  \/ \E i \in PlayerId : BlockTurn(i) \/ \E p \in Position : MoveTurn(i, p)
  \/ Listen /\ UNCHANGED serverVars

PlaySpec == PlayInit /\ [][PlayNext]_playVars

--------------------------------------------------------------------------------
(***************************************************************************)
(* While listener is "game", status is what the interface is sent, for the *)
(* turn status.turn; the server is at that turn, or at the game's end.     *)
(***************************************************************************)
Drawing == listener = "game"

(***************************************************************************)
(* The entities of the graphical interface for the DisplayMessage that     *)
(* send_game makes of status (Client.cpp), as draw spawns them (gui.rs).   *)
(***************************************************************************)
Window == INSTANCE Drawing

At(p) == <<p.x, p.y>>

Displayed ==
  [variant |-> "Game", size |-> <<SizeX, SizeY>>, players |-> DOMAIN status.players,
   scored |-> DOMAIN status.scores,
   positions |-> [i \in DOMAIN status.player_positions |-> At(status.player_positions[i])],
   blocks |-> {At(p) : p \in status.blocks},
   explosions |-> {At(p) : p \in status.explosions},
   bombs |-> {At(status.bombs[b].position) : b \in DOMAIN status.bombs}]

OnScreen(what) ==
  {e.position : e \in {f \in Window!Renderables(Displayed) : f.what = what}}

Fuse(b) == laid[b + 1].turn + BombTimer - status.turn

(***************************************************************************)
(* The robots and the blocks that the client draws are those of the game   *)
(* that is on, in every game (resolve(PlayerMoved), resolve(BlockPlaced),  *)
(* resolve(BombExploded), receive_game_ended).                             *)
(***************************************************************************)
BoardDrawn ==
  Drawing => status.player_positions = robots /\ status.blocks = walls

(***************************************************************************)
(* In the first game the client draws the bombs that are on the board,     *)
(* each with the turns that are left until it explodes: it counts them     *)
(* down by itself, after each drawing (send_game, resolve(BombPlaced)).    *)
(***************************************************************************)
FusesDrawn ==
  Drawing /\ games = 1 =>
    /\ DOMAIN status.bombs = {b \in 0 .. (Len(laid) - 1) : Fuse(b) > 0}
    /\ \A b \in DOMAIN status.bombs :
         status.bombs[b] = [position |-> laid[b + 1].position, timer |-> Fuse(b)]

(***************************************************************************)
(* In the first game the explosions that the client draws are the fields   *)
(* on which a robot died in this very turn: the union of the crosses of    *)
(* all its bombs, each for the blocks that were there before any of them   *)
(* exploded, and nothing of an earlier turn (resolve(BombExploded),        *)
(* send_game).                                                             *)
(***************************************************************************)
ExplosionsDrawn ==
  Drawing /\ games = 1 => status.explosions = blast

(***************************************************************************)
(* In the first game a score is the number of turns in which the robot was *)
(* destroyed, by however many bombs (players_scored).                      *)
(***************************************************************************)
ScoresDrawn ==
  Drawing /\ games = 1 => status.scores = deaths

(***************************************************************************)
(* In every game the interface shows every player, with a line of the      *)
(* score and with the robot where the server has it.  It leaves out, and   *)
(* says nothing, whoever has no score or no position in the message; that  *)
(* nobody is left out depends on what the client fills in at GameStarted   *)
(* and on what it has been told by the first drawing (draw, send_game).    *)
(***************************************************************************)
NobodyLeftOut ==
  Drawing => /\ OnScreen("Score") = {<<i>> : i \in PlayerId}
             /\ OnScreen("Player") = {At(robots[i]) : i \in PlayerId}

(***************************************************************************)
(* The client finds every bomb and every player that an event names, in    *)
(* every game (bombs.at and scores.at in resolve(BombExploded)): no        *)
(* message that it reads ends the coroutine.                               *)
(***************************************************************************)
NothingUnknown == [][listener = "reading" => listener' # "dead"]_playVars
================================================================================
