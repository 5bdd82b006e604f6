--------------------------- MODULE ClientBuffers ---------------------------
(***************************************************************************)
(* The client's two coroutines and the two buffers they share.             *)
(* server_listener reads a message piece by piece into _buf_tcp and draws  *)
(* it from _buf_udp; gui_listener reads an input into _buf_udp and sends a *)
(* message from _buf_tcp.  Each lets the other run wherever it awaits an   *)
(* operation, and clears and fills the indices that the other goes by.  An *)
(* operation is begun, performed and resumed in steps of their own.        *)
(***************************************************************************)
EXTENDS Streams

CONSTANTS InputBound    \* datagrams the interface sends

VARIABLES
  in_lobby,
  buf_tcp, buf_len_tcp, read_idx_tcp,
  buf_udp,       \* whose bytes it holds: an input's or a drawing's, and the number
  reader,        \* where server_listener waits
  read,          \* the messages read, by number
  drawn,         \* the messages whose drawing was sent, by number, 0 for one that was spoilt
  pressed,       \* the inputs received as datagrams, in order
  input          \* where gui_listener waits

client == <<in_lobby, buf_tcp, buf_len_tcp, read_idx_tcp, buf_udp, reader, read, drawn, pressed, input>>

\* A PlaceBomb or PlaceBlock is one byte long, a Move two; Invalid is anything else.
Input == {"PlaceBomb", "PlaceBlock", "Move", "Invalid"}
InputLength(kind) == IF kind \in {"PlaceBomb", "PlaceBlock"} THEN 1 ELSE 2

\* Mutant: where to read next is not put back.
ClearBuffer_KeepsIndex == buf_len_tcp' = 0 /\ UNCHANGED read_idx_tcp

ClearBuffer == buf_len_tcp' = 0 /\ read_idx_tcp' = 0

\* read_message at its async_read_some: already of the piece's size bytes are there,
\* and the rest is asked for behind base.  Number 0: the id is not known yet.
Asking(number, piece, base, already, size) ==
  [phase |-> "asked", number |-> number, piece |-> piece, already |-> already,
   at |-> base + already, want |-> size - already, got |-> 0]

\* receive_message from its clear_buffer on.
NextMessage == ClearBuffer /\ reader' = Asking(0, 1, 0, 0, 1)

AskInput == [phase |-> "asked", kind |-> "none", taken |-> 0]

ClientInit ==
  /\ in_lobby = TRUE
  /\ buf_tcp = [a \in {} |-> Unset] /\ buf_len_tcp = 0 /\ read_idx_tcp = 0
  /\ buf_udp = <<"unset", 0>>
  /\ reader = Asking(0, 1, 0, 0, 1)
  /\ read = <<>> /\ drawn = <<>>
  /\ pressed = <<>>
  /\ input = AskInput

---------------------------------------------------------------------------
(* server_listener. *)

\* The socket gives what has come, and what was asked for at most.
ReaderTakes ==
  /\ reader.phase = "asked"
  /\ \E k \in 1 .. Len(down) :
       /\ k <= reader.want
       /\ buf_tcp' = Fill(buf_tcp, reader.at, SubSeq(down, 1, k))
       /\ down' = SubSeq(down, k + 1, Len(down))
       /\ reader' = [reader EXCEPT !.phase = "given", !.got = k]
  /\ UNCHANGED <<in_lobby, buf_len_tcp, read_idx_tcp, buf_udp, read, drawn, pressed, input>>
  /\ UNCHANGED <<told, called, up>>

\* read_message asks for the rest of a piece.
ReadsOn ==
  /\ reader.phase = "given" /\ reader.got < reader.want
  /\ reader' = Asking(reader.number, reader.piece, buf_len_tcp,
                      reader.already + reader.got, reader.already + reader.want)
  /\ UNCHANGED <<in_lobby, buf_tcp, buf_len_tcp, read_idx_tcp, buf_udp, read, drawn, pressed, input>>
  /\ UNCHANGED <<told, down, called, up>>

\* The piece of message number that starts at the byte after the pieces before it.
PieceOf(number, piece) ==
  LET kind == told[number]
  IN  [i \in 1 .. Size(kind, piece) |-> <<"down", number, Start(kind, piece) + i>>]

\* A message has been read: it is taken into the status and, but for GameStarted, drawn.
Resolve(number) ==
  /\ read' = Append(read, number)
  /\ in_lobby' = CASE told[number] = "GameStarted" -> FALSE
                   [] told[number] = "GameEnded" -> TRUE
                   [] OTHER -> in_lobby
  /\ IF told[number] = "GameStarted"
     THEN NextMessage /\ UNCHANGED buf_udp
     ELSE /\ buf_udp' = <<"drawing", number>>
          /\ reader' = [reader EXCEPT !.phase = "drawing", !.number = number]
          /\ UNCHANGED <<buf_len_tcp, read_idx_tcp>>

\* What a receive function asks for: of a string, as many bytes as its length makes when
\* it is read as a char.
Asked(kind, piece) ==
  IF piece \in Texts[kind] /\ Size(kind, piece) > CharMax
  THEN Size(kind, piece) + Wrap ELSE Size(kind, piece)

\* A receive function takes its piece at _read_idx_tcp.  Where other bytes stand
\* there, the client goes astray, and what it does from then on is left open; or, in
\* the fields behind an id, the bytes are by chance those it should have found.
PieceRead ==
  /\ reader.phase = "given" /\ reader.got = reader.want
  /\ LET size == reader.already + reader.want
         bytes == At(buf_tcp, read_idx_tcp, size)
         number == IF reader.number = 0 /\ bytes[1][1] = "down" THEN bytes[1][2] ELSE reader.number
         found == number # 0 /\ bytes = PieceOf(number, reader.piece)
     IN  \/ /\ found \/ reader.number # 0
            /\ reader.piece < Len(Ends[told[number]])
            /\ buf_len_tcp' = buf_len_tcp + size
            /\ read_idx_tcp' = read_idx_tcp + size
            /\ reader' = Asking(number, reader.piece + 1, buf_len_tcp', 0,
                                Asked(told[number], reader.piece + 1))
            /\ UNCHANGED <<in_lobby, buf_udp, read>>
         \/ /\ found \/ reader.number # 0
            /\ reader.piece = Len(Ends[told[number]])
            /\ Resolve(number)
         \/ /\ ~ found
            /\ reader' = [reader EXCEPT !.phase = "astray"]
            /\ UNCHANGED <<in_lobby, buf_len_tcp, read_idx_tcp, buf_udp, read>>
  /\ UNCHANGED <<buf_tcp, drawn, pressed, input, told, down, called, up>>

\* The datagram of send_lobby or send_game leaves as it stands in _buf_udp.
DrawingSent ==
  /\ reader.phase = "drawing"
  /\ drawn' = Append(drawn, IF buf_udp[1] = "drawing" THEN buf_udp[2] ELSE 0)
  /\ reader' = [reader EXCEPT !.phase = "drawn"]
  /\ UNCHANGED <<in_lobby, buf_tcp, buf_len_tcp, read_idx_tcp, buf_udp, read, pressed, input>>
  /\ UNCHANGED <<told, down, called, up>>

DrawingResumed ==
  /\ reader.phase = "drawn"
  /\ NextMessage
  /\ UNCHANGED <<in_lobby, buf_tcp, buf_udp, read, drawn, pressed, input, told, down, called, up>>
---------------------------------------------------------------------------
(* gui_listener. *)

InputArrives(kind) ==
  /\ input.phase = "asked"
  /\ Len(pressed) < InputBound
  /\ pressed' = Append(pressed, kind)
  /\ buf_udp' = <<"input", Len(pressed) + 1>>
  /\ input' = [input EXCEPT !.phase = "given"]
  /\ UNCHANGED <<in_lobby, buf_tcp, buf_len_tcp, read_idx_tcp, reader, read, drawn, told, down, called, up>>

\* What receive_input_message finds: where a drawing has taken the input's place it sees
\* the number of a Lobby, 0, or of a Game, 1, and still the length of the input.
InputSeen ==
  IF buf_udp[1] = "input" THEN pressed[buf_udp[2]]
  ELSE IF InputLength(Last(pressed)) # 1 THEN "Invalid"
  ELSE IF told[buf_udp[2]] = "Turn" THEN "PlaceBlock" ELSE "PlaceBomb"

\* send_join and its siblings: clear_buffer and the fields.
Send(kind) ==
  /\ called' = Append(called, kind)
  /\ buf_tcp' = Fill(buf_tcp, 0, Bytes("up", Len(called) + 1, ClientMessage[kind]))
  /\ buf_len_tcp' = ClientMessage[kind]
  /\ read_idx_tcp' = 0
  /\ input' = [phase |-> "sending", kind |-> kind, taken |-> 0]

\* The switch on the input and, where nothing was sent in it, the Join after it.
InputRead ==
  /\ input.phase = "given"
  /\ IF InputSeen = "Invalid"
     THEN input' = AskInput /\ UNCHANGED <<buf_tcp, buf_len_tcp, read_idx_tcp, called>>
     ELSE Send(IF in_lobby THEN "Join" ELSE InputSeen)
  /\ UNCHANGED <<in_lobby, buf_udp, reader, read, drawn, pressed, told, down, up>>

\* async_send takes what the socket has room for, and is not repeated.
SendTaken ==
  /\ input.phase = "sending"
  /\ \E k \in 1 .. ClientMessage[input.kind] :
       /\ up' = up \o At(buf_tcp, 0, k)
       /\ input' = [input EXCEPT !.phase = "sent", !.taken = k]
  /\ UNCHANGED <<in_lobby, buf_tcp, buf_len_tcp, read_idx_tcp, buf_udp, reader, read, drawn, pressed>>
  /\ UNCHANGED <<told, down, called>>

\* clear_buffer and, after an input, the Join if the lobby has come meanwhile.
SendResumed ==
  /\ input.phase = "sent"
  /\ IF input.kind # "Join" /\ in_lobby
     THEN Send("Join")
     ELSE ClearBuffer /\ input' = AskInput /\ UNCHANGED <<buf_tcp, called>>
  /\ UNCHANGED <<in_lobby, buf_udp, reader, read, drawn, pressed, told, down, up>>

ClientNext ==
  /\ reader.phase # "astray"
  /\ \/ ReaderTakes \/ ReadsOn \/ PieceRead \/ DrawingSent \/ DrawingResumed
     \/ \E kind \in Input : InputArrives(kind)
     \/ InputRead \/ SendTaken \/ SendResumed
=============================================================================
