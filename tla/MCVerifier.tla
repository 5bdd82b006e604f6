------------------------------- MODULE MCVerifier ------------------------------
(***************************************************************************)
(* Messages for Verifier: what to_bytes writes for some values of every    *)
(* type, and what a C++ peer writes, whose lists may say things twice.     *)
(***************************************************************************)
EXTENDS Verifier, Serializer

\* One SocketAddr, a text it is shown as and one more that is read as it.
Shown == [home |-> <<2, 3>>]
Parse == <<2, 3>> :> "home" @@ <<2, 4>> :> "home"

Me == <<<<1>>, "home">>
You == <<<<>>, "home">>
Board == <<1, 7>>
Corner == <<0, 0>>

Values ==
  [client |-> {<<"Join", <<1, 2>>>>, <<"PlaceBlock">>, <<"Move", <<"Left">>>>},
   input |-> {<<"PlaceBomb">>, <<"Move", <<"Down">>>>},
   server |->
     {<<"Hello", <<3>>, 2, 1, 2, 3, 4, 35>>,
      <<"AcceptedPlayer", 1, Me>>,
      <<"GameStarted", (0 :> Me @@ 1 :> You)>>,
      <<"Turn", 7, <<<<"BombPlaced", 1295, Board>>, <<"BlockPlaced", Corner>>>>>>,
      <<"Turn", 0, <<<<"BombExploded", 6, <<1>>, {Board, Corner}>>,
                     <<"PlayerMoved", 1, Board>>>>>>,
      <<"GameEnded", (0 :> <<1>> @@ 5 :> <<7>>)>>},
   display |->
     {<<"Lobby", <<>>, 1, 2, 3, 4, 5, 6, (2 :> Me)>>,
      <<"Game", <<1>>, 2, 8, 3, 1, (0 :> Me), (0 :> Board), {Board},
        {<<Corner, 2>>}, {}, (0 :> <<3>>)>>},
   numbers |-> {<<-18, 17, -1>>, <<5, -3, 2>>},
   choices |-> {<<TRUE, <<>>, <<>>>>, <<FALSE, <<4>>, <<>>>>}]

MCSamples ==
  [numbers |-> Struct(<<SInt(2), SInt(2), SInt(1)>>),
   choices |-> Struct(<<Bool, Option(U8), Unit>>)]

(***************************************************************************)
(* C++ peers: a list where Rust has a set, with a field named twice, and a *)
(* map whose keys come in another order.                                   *)
(***************************************************************************)
ListTurn ==
  Enum(<<Variant("-", <<>>), Variant("-", <<>>), Variant("-", <<>>),
         Variant("Turn", <<U16, Vec(Enum(<<Variant("-", <<>>),
           Variant("BombExploded", <<BombId, Vec(PlayerId), Vec(Position)>>)>>))>>)>>)

ListEnded ==
  Enum(<<Variant("-", <<>>), Variant("-", <<>>), Variant("-", <<>>), Variant("-", <<>>),
         Variant("GameEnded", <<Vec(Struct(<<PlayerId, Score>>))>>)>>)

ForeignBytes ==
  {[value |-> <<"Turn", 1, <<<<"BombExploded", 0, <<1, 1>>, {Corner}>>>>>>,
    bytes |-> bytes] :
      bytes \in Encodings(ListTurn,
        <<"Turn", 1, <<<<"BombExploded", 0, <<1, 1>>, <<Corner, Corner>>>>>>>>)}
  \cup
  {[value |-> <<"GameEnded", (0 :> <<2>> @@ 1 :> <<1>>)>>, bytes |-> bytes] :
      bytes \in Encodings(ListEnded, <<"GameEnded", <<<<1, <<1>>>>, <<0, <<2>>>>>>>>)}

Written(t) ==
  UNION {{[value |-> v, bytes |-> bytes] : bytes \in Encodings(Types[t], v)} :
           v \in Values[t]}

MCMessages ==
  [t \in DOMAIN Values |-> Written(t) \cup IF t = "server" THEN ForeignBytes ELSE {}]

--------------------------------------------------------------------------------
(***************************************************************************)
(* Whatever bytes come, what is read is a value of the type that to_bytes  *)
(* can write, in no more bytes than were taken; and where the format       *)
(* leaves no choice, in just these (deserializer.rs against                *)
(* serializer.rs).                                                         *)
(***************************************************************************)
OneWayToWrite == {"client", "input", "numbers", "choices"}

ReadsBack ==
  reading /\ Done =>
    LET encodings == Encodings(Types[type], focus.value)
    IN  /\ encodings # {}
        /\ \A bytes \in encodings : Len(bytes) <= Len(taken)
        /\ type \in OneWayToWrite => taken \in encodings
================================================================================
