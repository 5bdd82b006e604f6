--------------------------------- MODULE Drawing -------------------------------
(***************************************************************************)
(* bin/gui.rs, draw and send_input without their state: the entities that  *)
(* a DisplayMessage becomes, and the input that a key means.               *)
(***************************************************************************)
EXTENDS Integers, FiniteSets, Sequences

(***************************************************************************)
(* What draw puts on the screen.  An entity is its SpawnType, its place    *)
(* and its colour.                                                         *)
(***************************************************************************)
COLORS ==
  <<"Red", "Green", "Blue", "Yellow", "Cyan", "Purple", "Salmon", "Orange", "Pink", "Olive">>

Label(text) == [what |-> text, position |-> <<>>, color |-> "White"]

Spawned(positions, what, color) ==
  {[what |-> what, position |-> p, color |-> color] : p \in positions}

Waiting == {Label("Waiting for input")}

(***************************************************************************)
(* Players in order of their ids get the colours in turn, and those        *)
(* without a score or a position are then left out.                        *)
(***************************************************************************)
\* Mutant: the players are left out before the colours are dealt.
ColorOf_AfterFilter(d, i) ==
  LET rank == Cardinality({j \in DOMAIN d.positions : j < i})
  IN  COLORS[1 + (rank % Len(COLORS))]

ColorOf(d, i) ==
  LET rank == Cardinality({j \in d.players : j < i})
  IN  COLORS[1 + (rank % Len(COLORS))]

DrawnPlayers(d) == {i \in d.players : i \in d.scored /\ i \in DOMAIN d.positions}

\* A line of the score, with the player's colour, and the robot.
Scores(d) == UNION {Spawned({<<i>>}, "Score", ColorOf(d, i)) : i \in DrawnPlayers(d)}

Robots(d) ==
  UNION {Spawned({d.positions[i]}, "Player", ColorOf(d, i)) : i \in DrawnPlayers(d)}

Grid(d) == (0 .. (d.size[1] - 1)) \X (0 .. (d.size[2] - 1))

Renderables(d) ==
  IF d.variant = "Lobby"
  THEN {Label("Lobby")}
  ELSE {Label("Turn")} \cup Scores(d)
         \cup Spawned(Grid(d), "Grid", "White")
         \cup Spawned(d.blocks, "Block", "DarkGray")
         \cup Spawned(d.explosions, "Explosion", "Black")
         \cup Spawned(d.bombs, "Bomb", "Red")
         \cup Robots(d)

(***************************************************************************)
(* The InputMessage of a key, <<>> for a key without one.                  *)
(***************************************************************************)
InputOf(key) ==
  CASE key \in {"W", "Up"} -> <<"Move", "Up">>
    [] key \in {"A", "Left"} -> <<"Move", "Left">>
    [] key \in {"S", "Down"} -> <<"Move", "Down">>
    [] key \in {"D", "Right"} -> <<"Move", "Right">>
    [] key \in {"Space", "J", "Z"} -> <<"PlaceBomb">>
    [] key \in {"K", "X"} -> <<"PlaceBlock">>
    [] OTHER -> <<>>
================================================================================
