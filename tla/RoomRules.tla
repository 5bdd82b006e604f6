-------------------------------- MODULE RoomRules ------------------------------
(***************************************************************************)
(* What the README says of the server's players, bombs and blocks, and the *)
(* code of GameSession and GameRoom does otherwise.                        *)
(***************************************************************************)
EXTENDS GameRoom

(***************************************************************************)
(* "If in that time the player sends more than one message, only the last  *)
(* is taken into account": the server does not read a second message of    *)
(* any session, and so none at all of a player.                            *)
(***************************************************************************)
PlayersAreHeard ==
  in_progress => \A s \in players : id[s] # NoPlayer => s \in reading

(***************************************************************************)
(* "For every bomb: decrease its counter by 1; if it is 0, add             *)
(* BombExploded", before the moves of the turn: a bomb explodes bomb_timer *)
(* turns after the turn in which it is laid.  handle_turn plays the moves  *)
(* first, and counts the new bomb down at once.                            *)
(***************************************************************************)
FuseLasts ==
  \A b \in 0 .. next_bomb, k \in 1 .. Len(turns) :
    ExplosionsOf(b, k) # {} => k > BombTimer /\ PlacedIn(b, k - BombTimer)

(***************************************************************************)
(* "Remove the bomb": a bomb that has exploded is not on the board, unless *)
(* one of its id was laid since.                                           *)
(***************************************************************************)
BombsAreRemoved ==
  \A b \in 0 .. next_bomb, k \in 1 .. Len(turns) :
    ExplosionsOf(b, k) # {} =>
      b \notin DOMAIN bombs \/ \E j \in k .. Len(turns) : PlacedIn(b, j)

(***************************************************************************)
(* "After the explosion": a block that an explosion has destroyed is not   *)
(* on the board, unless one was placed there since.                        *)
(***************************************************************************)
BlocksAreRemoved ==
  \A b \in 0 .. next_bomb, k \in 1 .. Len(turns) :
    \A i \in ExplosionsOf(b, k), p \in Position :
      p \in turns[k][i].blocks =>
        p \notin blocks \/ \E j \in k .. Len(turns) : EventAt(BlockPlaced(p), j)

(***************************************************************************)
(* "There is no limit on the number of bombs", and of each one it is told  *)
(* when it explodes: every BombPlaced is a bomb of its own.  next_bomb     *)
(* stands still, so that a second bomb has the id of the first, which      *)
(* insert keeps.                                                           *)
(***************************************************************************)
BombsAreApart ==
  \A k \in 1 .. Len(turns), m \in 1 .. Len(turns) :
    \A i \in 1 .. Len(turns[k]), j \in 1 .. Len(turns[m]) :
      /\ turns[k][i].type = "BombPlaced" /\ turns[m][j].type = "BombPlaced"
      /\ turns[k][i].bomb = turns[m][j].bomb
      => k = m /\ i = j

(***************************************************************************)
(* The four rules about bombs together.  Each of them implies this         *)
(* disjunction, so that a state that violates it violates every one of     *)
(* them: it refutes all four rules at once.                                *)
(***************************************************************************)
ARuleOfBombsHolds ==
  FuseLasts \/ BombsAreRemoved \/ BlocksAreRemoved \/ BombsAreApart

================================================================================
