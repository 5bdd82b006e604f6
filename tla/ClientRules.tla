------------------------------- MODULE ClientRules -----------------------------
(***************************************************************************)
(* What the README says of the state a client aggregates and draws, and    *)
(* receive_game_ended does otherwise, at a server that plays by the rules. *)
(***************************************************************************)
EXTENDS ClientPlay

(***************************************************************************)
(* "The server sends the events to the clients.  The clients aggregate     *)
(* them and send the aggregated state to the interface": every bomb that   *)
(* is drawn was laid in this game.  The bombs of the last game that had    *)
(* not exploded are drawn in the next one.                                 *)
(***************************************************************************)
ExistingBombsDrawn ==
  Drawing => \A b \in DOMAIN status.bombs :
    /\ b < Len(laid)
    /\ status.bombs[b].position = laid[b + 1].position
================================================================================
