------------------------------ MODULE Streams ------------------------------
(***************************************************************************)
(* One connection between a session of the server and a client: a stream   *)
(* of bytes each way, and the memory that reads and writes refer to.  A    *)
(* byte is known by its direction, the number of its message and its place *)
(* in it, so that bytes which belong together are told from others.        *)
(***************************************************************************)
EXTENDS Integers, Sequences, SequencesExt

CONSTANTS
  Ends,          \* how many bytes a client has of a message after each read_message, the id first
  Texts,         \* which of these pieces are strings, of the length that the byte before them says
  NameLength,    \* of the name in a Join
  CharMax,       \* the largest char (127)
  Wrap,          \* what a char beyond it gains as an unsigned 64-bit number (2^64 - 2^8)
  BuffSize       \* BUFF_SIZE, the size of a buffer on either side (65507)

\* The kinds of messages, and others by which an instance knows a Hello or a Turn of
\* another length.
ServerMessage == DOMAIN Ends

StreamsAssumption ==
  /\ {"Hello", "AcceptedPlayer", "GameStarted", "Turn", "GameEnded"} \subseteq ServerMessage
  /\ Ends \in [ServerMessage -> Seq(Nat)]
  /\ \A kind \in ServerMessage :
       /\ Ends[kind] # <<>> /\ Ends[kind][1] = 1
       /\ \A p, q \in DOMAIN Ends[kind] : p < q => Ends[kind][p] < Ends[kind][q]
  /\ \A kind \in ServerMessage : Texts[kind] \subseteq DOMAIN Ends[kind] \ {1}
  /\ {NameLength, CharMax, Wrap, BuffSize} \subseteq Nat
  /\ 2 + NameLength <= BuffSize /\ BuffSize < Wrap
ASSUME StreamsAssumption

\* send_join, send_place_bomb, send_place_block, send_move of the client.
ClientMessage == [Join |-> 2 + NameLength, PlaceBomb |-> 1, PlaceBlock |-> 1, Move |-> 2]

Length(kind) == Last(Ends[kind])

\* Where a piece of a message starts, and how many bytes it has.
Start(kind, piece) == IF piece = 1 THEN 0 ELSE Ends[kind][piece - 1]
Size(kind, piece) == Ends[kind][piece] - Start(kind, piece)

Bytes(way, n, size) == [i \in 1 .. size |-> <<way, n, i>>]

Unset == <<"unset", 0, 0>>

\* The bytes put into memory from address at on, and the size bytes there.
Fill(memory, at, bytes) ==
  [a \in DOMAIN memory \cup at .. (at + Len(bytes) - 1) |->
    IF a \in at .. (at + Len(bytes) - 1) THEN bytes[a - at + 1] ELSE memory[a]]
At(memory, at, size) ==
  [i \in 1 .. size |->
    IF at + i - 1 \in DOMAIN memory THEN memory[at + i - 1] ELSE Unset]

VARIABLES
  told,          \* the kinds of the messages that the room has sent to the client
  down,          \* bytes the session has written and the client has not taken
  called,        \* the kinds of the messages that the client has sent
  up             \* all bytes the client has written
=============================================================================
