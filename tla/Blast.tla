--------------------------------- MODULE Blast ---------------------------------
(***************************************************************************)
(* One bomb exploding at the server (GameRoom::explode_bombs).  Every      *)
(* position of the bomb and every set of blocks is an initial state.       *)
(***************************************************************************)
EXTENDS Explosion

VARIABLES bomb,     \* the position of the bomb
          blocks,   \* the blocks on the board
          visited,  \* the fields the four loops have visited
          exploded

vars == <<bomb, blocks, visited, exploded>>

Init ==
  /\ bomb \in Position
  /\ blocks \in SUBSET Position
  /\ visited = {}
  /\ exploded = FALSE

Explodes ==
  /\ ~ exploded
  /\ visited' = ServerBlast(bomb, blocks)
  /\ exploded' = TRUE
  /\ UNCHANGED <<bomb, blocks>>

Spec == Init /\ [][Explodes]_vars

--------------------------------------------------------------------------------

(***************************************************************************)
(* The rule as written: every blast is the cross (README, "ma ksztalt      *)
(* krzyza o dlugosci ramienia rownej parametrowi explosion_radius").       *)
(***************************************************************************)
BlastIsCross == exploded => visited = Cross(bomb, blocks)

================================================================================
