------------------------------- MODULE GameTypes -------------------------------
(***************************************************************************)
(* The data the server and the client share: positions, events and the     *)
(* messages of the server (GameTypes.h and the send functions of           *)
(* GameSession.cpp).  Player names are members of a set, player addresses  *)
(* and the server's parameters inside Hello are left out: no property      *)
(* tells two of them apart.                                                *)
(***************************************************************************)
EXTENDS Integers, Sequences

CONSTANTS SizeX,         \* size_x: the columns of the board
          SizeY,         \* size_y: its rows
          PlayersCount,  \* players_count: the players a game needs
          BombTimer,     \* bomb_timer: the fuse of a bomb, in turns
          U16,           \* the values of an uint16_t, 2^16 in the code
          Names          \* the names players join with

ASSUME BoardAssumption == SizeX \in Nat \ {0} /\ SizeY \in Nat \ {0}
ASSUME PlayersAssumption == PlayersCount \in 1 .. 255
ASSUME TimerAssumption == U16 \in Nat /\ BombTimer \in 0 .. (U16 - 1)

(***************************************************************************)
(* Positions and directions.  Origin is the position a default-initialised *)
(* Position has.                                                           *)
(***************************************************************************)
Position == [x : 0 .. (SizeX - 1), y : 0 .. (SizeY - 1)]
Origin == [x |-> 0, y |-> 0]
Direction == {"Up", "Right", "Down", "Left"}

(***************************************************************************)
(* A bomb, and map::insert, which keeps the value of a key that is there.  *)
(***************************************************************************)
Bomb == [position : Position, timer : 0 .. (U16 - 1)]

Insert(map, key, value) ==
  [k \in DOMAIN map \cup {key} |-> IF k \in DOMAIN map THEN map[k] ELSE value]

(***************************************************************************)
(* player_id_t.  A session that has not joined holds -1, which is 255 in   *)
(* the eight bits of the type; ids of players stay below it.               *)
(***************************************************************************)
NoPlayer == 255
PlayerId == 0 .. (PlayersCount - 1)
AnyId == PlayerId \cup {NoPlayer}

(***************************************************************************)
(* Events.  robots_destroyed and blocks_destroyed are lists in the code,   *)
(* where the bomb's own field may come up four times; they are sets here.  *)
(***************************************************************************)
BombPlaced(b, p) == [type |-> "BombPlaced", bomb |-> b, position |-> p]
BombExploded(b, robots, blocks) ==
  [type |-> "BombExploded", bomb |-> b, robots |-> robots, blocks |-> blocks]
PlayerMoved(i, p) == [type |-> "PlayerMoved", player |-> i, position |-> p]
BlockPlaced(p) == [type |-> "BlockPlaced", position |-> p]

Event ==
  [type : {"BombPlaced"}, bomb : Nat, position : Position]
    \cup [type : {"BombExploded"}, bomb : Nat,
          robots : SUBSET AnyId, blocks : SUBSET Position]
    \cup [type : {"PlayerMoved"}, player : AnyId, position : Position]
    \cup [type : {"BlockPlaced"}, position : Position]

(***************************************************************************)
(* Messages from the server.                                               *)
(***************************************************************************)
Hello == [type |-> "Hello"]
AcceptedPlayer(i, n) == [type |-> "AcceptedPlayer", id |-> i, name |-> n]
GameStarted(players) == [type |-> "GameStarted", players |-> players]
Turn(n, events) == [type |-> "Turn", turn |-> n, events |-> events]
GameEnded(scores) == [type |-> "GameEnded", scores |-> scores]

(***************************************************************************)
(* The players of a room, by id: ids are given out in order from 0.        *)
(***************************************************************************)
PlayerMap == UNION {[0 .. (n - 1) -> Names] : n \in 0 .. PlayersCount}

Message ==
  [type : {"Hello"}]
    \cup [type : {"AcceptedPlayer"}, id : PlayerId, name : Names]
    \cup [type : {"GameStarted"}, players : PlayerMap]
    \cup [type : {"Turn"}, turn : Nat, events : Seq(Event)]
    \cup [type : {"GameEnded"}, scores : {<<>>}]
================================================================================
