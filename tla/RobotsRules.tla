------------------------------- MODULE RobotsRules -----------------------------
(***************************************************************************)
(* What the README says of a client at a server, and the two programs do   *)
(* otherwise together.                                                     *)
(***************************************************************************)
EXTENDS Robots

(***************************************************************************)
(* "The client should send such a message after every change of state,     *)
(* that is, when it receives a Turn during a game": scores.at throws for   *)
(* the robot of a session that is no player, which the server reports      *)
(* destroyed, and the coroutine that draws is gone.                        *)
(***************************************************************************)
TurnsAreDrawn ==
  [][listener = "reading" /\ inbox # <<>> /\ inbox' = Tail(inbox)
       /\ Head(inbox).type = "Turn" => listener' = "game"]_robotsVars

(***************************************************************************)
(* "The client sends Join on receiving any correct message from the        *)
(* interface, as long as it is in the Lobby": an input received in a game  *)
(* is sent to the server, and then a Join as well when the game has ended  *)
(* meanwhile; gui_listener looks at _in_lobby again after its co_await.    *)
(***************************************************************************)
InputsOfAGameDoNotJoin ==
  [][Len(outbox') > Len(outbox) /\ outbox'[Len(outbox')] = Join
       => input = "waiting"]_robotsVars
================================================================================
