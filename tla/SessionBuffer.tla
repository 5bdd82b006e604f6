--------------------------- MODULE SessionBuffer ---------------------------
(***************************************************************************)
(* A GameSession at its socket.  One _buffer serves its only receive and   *)
(* all of its writes: send_message hands async_write the address of a      *)
(* message and does not wait, and the next message is built in the same    *)
(* place.  An operation is begun, performed by the socket, which takes or  *)
(* gives as many bytes as it can, and completed, each in a step of its     *)
(* own; asio may also perform it at once.  The room may call any send_     *)
(* function between two of them, and what it sends in one handler are      *)
(* several steps, for each is begun by itself.                             *)
(***************************************************************************)
EXTENDS Streams

CONSTANTS Conversations     \* what the room may have a session send, one message after the other

VARIABLES
  buffer, buf_len, read_idx,
  writes,      \* the write operations at the socket, in order
  resumed,     \* writes of which a part is performed and that go on with the rest
  receive,     \* the one receive: where its bytes go and how many there are
  up_taken,    \* bytes of up that it has taken
  heard        \* the numbers of the messages the room has been given, 0 for one that was never sent

session == <<buffer, buf_len, read_idx, writes, resumed, receive, up_taken, heard>>

NoReceive == [at |-> 0, len |-> 0, phase |-> "none"]

SessionInit ==
  /\ buffer = [a \in {} |-> Unset]
  /\ buf_len = 0 /\ read_idx = 0
  /\ writes = <<>> /\ resumed = <<>>
  /\ receive = NoReceive
  /\ up_taken = 0 /\ heard = <<>>

\* Mutant: no clear_buffer after send_message.
SessionClearBuffer_BeforeOnly == buf_len' = Length(Last(told')) /\ read_idx' = 0

SessionClearBuffer == buf_len' = 0 /\ read_idx' = 0

\* send_hello and its siblings: clear_buffer, the fields, send_message, clear_buffer.
SendToClient(kind) ==
  /\ \E c \in Conversations : IsPrefix(Append(told, kind), c)
  /\ told' = Append(told, kind)
  /\ buffer' = Fill(buffer, 0, Bytes("down", Len(told) + 1, Length(kind)))
  /\ writes' = Append(writes, [at |-> 0, left |-> Length(kind)])
  /\ SessionClearBuffer
  /\ UNCHANGED <<resumed, receive, up_taken, heard, down, called, up>>

\* The socket performs the first write that waits for it, in full or in part.
SocketTakes ==
  /\ writes # <<>>
  /\ \E k \in 1 .. writes[1].left :
       /\ down' = down \o At(buffer, writes[1].at, k)
       /\ resumed' = IF k = writes[1].left THEN resumed
                     ELSE Append(resumed, [at |-> writes[1].at + k, left |-> writes[1].left - k])
  /\ writes' = Tail(writes)
  /\ UNCHANGED <<told, buffer, buf_len, read_idx, receive, up_taken, heard, called, up>>

\* async_write goes on with what is left.
WriteGoesOn ==
  /\ resumed # <<>>
  /\ writes' = Append(writes, resumed[1])
  /\ resumed' = Tail(resumed)
  /\ UNCHANGED <<told, buffer, buf_len, read_idx, receive, up_taken, heard, down, called, up>>

\* start, after the join of the room.
ReadMessage ==
  /\ told # <<>> /\ receive.phase = "none"
  /\ receive' = [at |-> buf_len, len |-> 0, phase |-> "pending"]
  /\ UNCHANGED <<told, buffer, buf_len, read_idx, writes, resumed, up_taken, heard, down, called, up>>

SocketGives ==
  /\ receive.phase = "pending"
  /\ \E k \in 1 .. (Len(up) - up_taken) :
       /\ k <= BuffSize
       /\ buffer' = Fill(buffer, receive.at, SubSeq(up, up_taken + 1, up_taken + k))
       /\ receive' = [receive EXCEPT !.len = k, !.phase = "taken"]
       /\ up_taken' = up_taken + k
  /\ UNCHANGED <<told, buf_len, read_idx, writes, resumed, heard, down, called, up>>

\* The handler: the id and what it calls for, read from _read_idx on.  The room
\* may answer, in SendToClient.  A length that is no char is taken for one that no string
\* has: its constructor throws, nobody catches, and the server ends.  What the session is
\* made to do by other bytes is left open.
Receive ==
  /\ receive.phase = "taken"
  /\ LET id == At(buffer, read_idx, 1)[1]
         sound == id[1] = "up" /\ id[3] = 1
         size == IF sound THEN ClientMessage[called[id[2]]] ELSE 1
         throws == /\ sound /\ called[id[2]] = "Join" /\ NameLength > CharMax
                   /\ At(buffer, read_idx, 2) = Bytes("up", id[2], 2)
     IN  IF throws
         THEN /\ receive' = [receive EXCEPT !.phase = "thrown"]
              /\ read_idx' = read_idx + 2
              /\ UNCHANGED heard
         ELSE /\ receive' = [receive EXCEPT !.phase = "over"]
              /\ read_idx' = read_idx + size
              /\ heard' = Append(heard, IF sound /\ At(buffer, read_idx, size) = Bytes("up", id[2], size)
                                        THEN id[2] ELSE 0)
  /\ buf_len' = buf_len + receive.len
  /\ UNCHANGED <<buffer, writes, resumed, up_taken, told, down, called, up>>

SessionNext ==
  /\ receive.phase # "thrown"
  /\ \/ \E kind \in ServerMessage : SendToClient(kind)
     \/ SocketTakes \/ WriteGoesOn
     \/ ReadMessage \/ SocketGives \/ Receive
=============================================================================
