---------------------------------- MODULE MCGui --------------------------------
(***************************************************************************)
(* Messages for Gui: a turn with a bomb on its board, and a turn of the    *)
(* same game in which it explodes and the first player has no position.    *)
(***************************************************************************)
EXTENDS Gui, TLC

Turn ==
  [variant |-> "Game", size |-> <<2, 1>>, players |-> {0, 4}, scored |-> {0, 4},
   positions |-> (0 :> <<0, 0>> @@ 4 :> <<1, 0>>),
   blocks |-> {<<1, 0>>}, bombs |-> {<<0, 0>>}, explosions |-> {}]

PartialTurn ==
  [Turn EXCEPT !.positions = (4 :> <<0, 0>>), !.bombs = {}, !.explosions = {<<0, 0>>}]

MCDisplays == {Turn, PartialTurn}
================================================================================
