-------------------------------- MODULE WireTypes ------------------------------
(***************************************************************************)
(* The types of the messages as the Rust programs have them (lib.rs), and  *)
(* the part of serde's data model they are made of.  A type is a record    *)
(* that says how it is laid out; the serializer and the deserializer work  *)
(* along it, as the code that serde derives from the declarations does.    *)
(*                                                                         *)
(* Values: integers, BOOLEANs, texts as sequences of bytes, addresses,     *)
(* <<>> and <<v>> for an Option, <<>> for a unit, sequences for a Vec and  *)
(* for the fields of a struct or a tuple, sets, functions for a map, and   *)
(* <<variant, field, ...>> for an enum.  Names of fields are not sent.     *)
(***************************************************************************)
EXTENDS Integers, Sequences

CONSTANTS
  Base,         \* the values of a byte: 256
  ShowAddress,  \* the text Display gives for each SocketAddr
  ParseAddress  \* the SocketAddr FromStr makes of the texts it takes

(***************************************************************************)
(* Base is even, for signed integers, and leaves a byte that is no variant *)
(* of any message and one that no UTF-8 text contains.                     *)
(***************************************************************************)
ASSUME BaseAssumption == Base \in Nat /\ Base >= 6 /\ Base % 2 = 0
ASSUME AddressAssumption ==
  \A a \in DOMAIN ShowAddress :
    /\ ShowAddress[a] \in DOMAIN ParseAddress
    /\ ParseAddress[ShowAddress[a]] = a

Byte == 0 .. (Base - 1)

(***************************************************************************)
(* serde's data model.  Newtypes (PlayerId, BombId) are sent as what they  *)
(* contain and have no type of their own here.                             *)
(***************************************************************************)
UInt(bytes) == [kind |-> "uint", width |-> bytes]
SInt(bytes) == [kind |-> "int", width |-> bytes]
Bool == [kind |-> "bool"]
Unit == [kind |-> "unit"]
Text == [kind |-> "str"]
Address == [kind |-> "addr"]
Option(t) == [kind |-> "option", of |-> t]
Vec(t) == [kind |-> "seq", of |-> t]
HashSet(t) == [kind |-> "set", of |-> t]
BTreeMap(k, t) == [kind |-> "map", key |-> k, of |-> t]
Struct(ts) == [kind |-> "struct", fields |-> ts]
Enum(vs) == [kind |-> "enum", variants |-> vs]
Variant(name, ts) == [name |-> name, fields |-> ts]

U8 == UInt(1)
U16 == UInt(2)
U32 == UInt(4)

--------------------------------------------------------------------------------
(***************************************************************************)
(* lib.rs.                                                                 *)
(***************************************************************************)
Direction ==
  Enum(<<Variant("Up", <<>>), Variant("Right", <<>>),
         Variant("Down", <<>>), Variant("Left", <<>>)>>)

Position == Struct(<<U16, U16>>)
Bomb == Struct(<<Position, U16>>)
PlayerId == U8
BombId == U32
Score == Struct(<<U32>>)
Player == Struct(<<Text, Address>>)

InputMessage ==
  Enum(<<Variant("PlaceBomb", <<>>), Variant("PlaceBlock", <<>>),
         Variant("Move", <<Direction>>)>>)

ClientMessage ==
  Enum(<<Variant("Join", <<Text>>), Variant("PlaceBomb", <<>>),
         Variant("PlaceBlock", <<>>), Variant("Move", <<Direction>>)>>)

Event ==
  Enum(<<Variant("BombPlaced", <<BombId, Position>>),
         Variant("BombExploded", <<BombId, Vec(PlayerId), HashSet(Position)>>),
         Variant("PlayerMoved", <<PlayerId, Position>>),
         Variant("BlockPlaced", <<Position>>)>>)

ServerMessage ==
  Enum(<<Variant("Hello", <<Text, U8, U16, U16, U16, U16, U16>>),
         Variant("AcceptedPlayer", <<PlayerId, Player>>),
         Variant("GameStarted", <<BTreeMap(PlayerId, Player)>>),
         Variant("Turn", <<U16, Vec(Event)>>),
         Variant("GameEnded", <<BTreeMap(PlayerId, Score)>>)>>)

DisplayMessage ==
  Enum(<<Variant("Lobby", <<Text, U8, U16, U16, U16, U16, U16,
                            BTreeMap(PlayerId, Player)>>),
         Variant("Game", <<Text, U16, U16, U16, U16, BTreeMap(PlayerId, Player),
                           BTreeMap(PlayerId, Position), HashSet(Position),
                           HashSet(Bomb), HashSet(Position),
                           BTreeMap(PlayerId, Score)>>)>>)
================================================================================
