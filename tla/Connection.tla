---------------------------- MODULE Connection ----------------------------
(***************************************************************************)
(* A session of the server and this client at the two ends of a            *)
(* connection: do bytes come out as the messages that went in, although    *)
(* both programs read and write through shared buffers?                    *)
(***************************************************************************)
EXTENDS SessionBuffer, ClientBuffers

VARIABLE overlaps      \* the operations that have met in a buffer so far

vars == <<session, client, told, down, called, up, overlaps>>

ConnectionInit ==
  /\ told = <<>> /\ down = <<>> /\ called = <<>> /\ up = <<>>
  /\ SessionInit /\ ClientInit
  /\ overlaps = {}

\* The client is within a message, of which it has at least the id in _buf_tcp.
MidMessage ==
  \/ reader.phase = "given"
  \/ reader.phase = "asked" /\ reader.number # 0

Kinds == {"writes", "receive", "sends", "inputs", "short", "overflow"}

Overlaps(kind) ==
  \* two writes of the session are not finished
  \/ kind = "writes" /\ Len(writes) + Len(resumed) > 1
  \* a write of the session is not finished and bytes it has received are not read
  \/ kind = "receive" /\ receive.phase = "taken" /\ writes \o resumed # <<>>
  \* a message of the client is on its way out and another one on its way in
  \/ kind = "sends" /\ input.phase \in {"sending", "sent"} /\ MidMessage
  \* a drawing has not left and an input is not looked at
  \/ kind = "inputs" /\ reader.phase = "drawing" /\ input.phase = "given"
  \* less than a message was sent at once, or has come when the session reads
  \/ kind = "short" /\ \/ input.phase = "sent" /\ input.taken < ClientMessage[input.kind]
                       \/ receive.phase = "taken" /\ receive.len < ClientMessage[called[1]]
  \* what the session builds, or the client takes in, goes beyond its buffer
  \/ kind = "overflow" /\ \/ told # <<>> /\ Length(Last(told)) > BuffSize
                          \/ reader.phase = "given" /\ reader.at + reader.got > BuffSize

\* What an overflow leaves of a program is undefined: the model ends with it.
Next ==
  /\ "overflow" \notin overlaps
  /\ \/ SessionNext /\ UNCHANGED client
     \/ ClientNext /\ UNCHANGED session
  /\ overlaps' = overlaps \cup {kind \in Kinds : Overlaps(kind)'}

Spec == ConnectionInit /\ [][Next]_vars

---------------------------------------------------------------------------
Without(kinds) == overlaps \cap kinds = {}

\* Which of the first j messages read are drawn, but for those that have not left yet.
Drawable(j) == {i \in 1 .. j : told[read[i]] # "GameStarted"}

\* The byte after b, where a client writes its messages one after the other.
NextUp(b) ==
  IF b[3] < ClientMessage[called[b[2]]] THEN <<"up", b[2], b[3] + 1>> ELSE <<"up", b[2] + 1, 1>>

(***************************************************************************)
(* However operations are cut short, delayed and interleaved, what the     *)
(* client has read are the first messages the room has sent, each once and *)
(* in order, unless two writes of the session meet, or a write and the     *)
(* bytes received for it, or the client's own sending meets its reading;   *)
(* and it draws them in order, unless an input comes into the drawing's    *)
(* buffer (send_message and read_message of GameSession; read_message,     *)
(* send_lobby and send_game of Client).  It says nothing of how far the    *)
(* client gets: a string longer than CharMax is never read to its end, and *)
(* nothing after it, and beyond an overflow the model does not go.         *)
(***************************************************************************)
ReadAsSent ==
  /\ Without({"writes", "receive", "sends"}) =>
       /\ reader.phase # "astray"
       /\ read = [i \in 1 .. Len(read) |-> i]
  /\ Without({"inputs"}) =>
       /\ Cardinality(Drawable(Len(read))) - Len(drawn) \in {0, 1}
       /\ \A j \in Drawable(Len(read)) :
            Cardinality(Drawable(j)) <= Len(drawn) => drawn[Cardinality(Drawable(j))] = read[j]

(***************************************************************************)
(* What the client writes is its messages one after the other, unless its  *)
(* sending meets its reading or is cut short; then the session hears the   *)
(* first of them, unless it comes in parts or meets a write in the buffer; *)
(* and no message is sent that nobody has asked for, unless a drawing      *)
(* comes into the input's buffer, neither one of a game nor a Join         *)
(* (send_join and its siblings and receive_input_message of Client;        *)
(* read_message of GameSession).  A Join with a name longer than CharMax   *)
(* is not heard: the server ends.                                          *)
(***************************************************************************)
HeardAsSent ==
  /\ Without({"sends", "short"}) =>
       /\ up # <<>> => up[1] = <<"up", 1, 1>>
       /\ \A i \in DOMAIN up : up[i][2] <= Len(called) /\ (i > 1 => up[i] = NextUp(up[i - 1]))
  /\ Without({"sends", "short", "receive"}) =>
       heard \in {<<>>, <<1>>}
  /\ Without({"inputs"}) =>
       /\ \A kind \in Input :
            Cardinality({n \in DOMAIN called : called[n] = kind})
              <= Cardinality({n \in DOMAIN pressed : pressed[n] = kind})
       /\ Cardinality({n \in DOMAIN called : called[n] = "Join"})
            <= Cardinality({n \in DOMAIN pressed : pressed[n] # "Invalid"})

\* Overlaps come one kind at a time, writes two at a time, and a second input only
\* where nothing but short transfers has come before.
Bounds ==
  /\ Cardinality(overlaps) <= 1
  /\ Len(writes) + Len(resumed) <= 2
  /\ Len(pressed) > 1 => overlaps \subseteq {"short"}
=============================================================================
