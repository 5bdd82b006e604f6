-------------------------------- MODULE Verifier -------------------------------
(***************************************************************************)
(* bin/verifier.rs.  Over TCP it accepts one peer at a time and reads      *)
(* messages off the stream until an error; over UDP every datagram is one  *)
(* message.  What it reads goes to its log.                                *)
(*                                                                         *)
(* The peer is external: it writes messages, byte by byte, may get one of  *)
(* the bytes wrong, and closes wherever it likes.  A datagram may come     *)
(* whole, cut short, or with a byte too many.                              *)
(***************************************************************************)
EXTENDS Deserializer

CONSTANTS
  Samples,      \* further types, like those of the crate's own tests, by name
  Messages,     \* what peers send of each: records of a value and its bytes
  MessagesBound, \* bound: messages of a connection
  WrongBytes,    \* bound: what a wrong byte may be
  InputBound     \* bound: bytes that arrive before they are read

ASSUME PeersAssumption ==
  MessagesBound \in Nat /\ InputBound \in Nat /\ WrongBytes \subseteq Byte

(***************************************************************************)
(* MessageType, and the type main instantiates the reading functions at.   *)
(* They are generic; Samples instantiates them further.                    *)
(***************************************************************************)
Types ==
  [client |-> ClientMessage, server |-> ServerMessage,
   display |-> DisplayMessage, input |-> InputMessage] @@ Samples

VARIABLES
  type,     \* ARGS.message_type
  udp,      \* ARGS.udp
  reading,  \* whether a connection or a datagram is being read
  writing,  \* the message the peer is writing, and how much of it is sent
  complete, \* the values the peer has sent whole
  clean,    \* whether it has sent nothing else
  printed,  \* the values logged with info!
  logged    \* the errors logged with error!

peerVars == <<writing, complete, clean>>
logVars == <<printed, logged>>
verifierVars == <<deserializerVars, type, udp, reading, peerVars, logVars>>

Nothing == [message |-> <<>>, sent |-> 0]

VerifierInit ==
  /\ type \in DOMAIN Types
  /\ udp \in BOOLEAN
  /\ reading = FALSE
  /\ writing = Nothing /\ complete = <<>> /\ clean = TRUE
  /\ printed = <<>> /\ logged = <<>>
  /\ input = <<>> /\ closed = FALSE /\ taken = <<>>
  /\ focus = More /\ frames = <<>>

--------------------------------------------------------------------------------
(***************************************************************************)
(* The peer on a connection that the verifier reads.  Bound: it gets one   *)
(* byte wrong, in its first message, and stops after that.                 *)
(***************************************************************************)
PeerWrites ==
  /\ reading /\ ~ udp /\ ~ closed
  /\ Len(input) < InputBound
  /\ \E m \in IF writing # Nothing THEN ToSet(writing.message)
             ELSE IF clean /\ Len(complete) < MessagesBound THEN Messages[type] ELSE {} :
       LET n == writing.sent + 1
       IN  /\ \/ input' = Append(input, m.bytes[n]) /\ UNCHANGED clean
              \/ /\ clean /\ complete = <<>>
                 /\ \E b \in WrongBytes \ {m.bytes[n]} : input' = Append(input, b)
                 /\ clean' = FALSE
           /\ IF n = Len(m.bytes)
              THEN writing' = Nothing /\ complete' = Append(complete, m.value)
              ELSE writing' = [message |-> <<m>>, sent |-> n] /\ UNCHANGED complete
  /\ UNCHANGED <<closed, taken, focus, frames, type, udp, reading, logVars>>

PeerCloses ==
  /\ reading /\ ~ udp /\ ~ closed
  /\ closed' = TRUE
  /\ writing' = Nothing
  /\ UNCHANGED <<input, taken, focus, frames, type, udp, reading, complete, clean,
                 logVars>>

--------------------------------------------------------------------------------
(***************************************************************************)
(* main, with tcp_server.accept or udp_server.recv_from.                   *)
(***************************************************************************)
Begin ==
  /\ ~ reading
  /\ reading' = TRUE
  /\ Start(Types[type])
  /\ writing' = Nothing /\ printed' = <<>> /\ logged' = <<>>
  /\ UNCHANGED <<type, udp>>

Accept ==
  /\ ~ udp
  /\ Begin
  /\ input' = <<>> /\ closed' = FALSE
  /\ complete' = <<>> /\ clean' = TRUE

Arrives(bytes, values) ==
  /\ udp
  /\ Begin
  /\ input' = bytes /\ closed' = TRUE
  /\ complete' = values /\ clean' = (values # <<>>)

ReceiveDatagram ==
  \E m \in Messages[type] :
    \/ Arrives(m.bytes, <<m.value>>)
    \/ \E n \in 0 .. (Len(m.bytes) - 1) : Arrives(SubSeq(m.bytes, 1, n), <<>>)
    \/ \E b \in WrongBytes : Arrives(Append(m.bytes, b), <<>>)

(***************************************************************************)
(* deserialize_message_from_stream: the loop goes on with the next         *)
(* message; every error breaks it, the end of the stream silently.         *)
(***************************************************************************)
StreamMessage ==
  /\ reading /\ ~ udp /\ Done
  /\ printed' = Append(printed, focus.value)
  /\ Start(Types[type])
  /\ UNCHANGED <<input, closed, type, udp, reading, peerVars, logged>>

\* Mutant: the loop goes on after the end of the stream.
StreamError_Retries ==
  /\ reading /\ ~ udp /\ Refused
  /\ IF focus.error = "UnexpectedEof"
     THEN Start(Types[type]) /\ UNCHANGED <<logged, reading>>
     ELSE logged' = <<focus.error>> /\ reading' = FALSE /\ UNCHANGED <<taken, focus, frames>>
  /\ UNCHANGED <<input, closed, type, udp, peerVars, printed>>

\* Mutant: the end of the stream is reported like any other error.
StreamError_LogsEnd ==
  /\ reading /\ ~ udp /\ Refused
  /\ logged' = <<focus.error>>
  /\ reading' = FALSE
  /\ UNCHANGED <<deserializerVars, type, udp, peerVars, printed>>

StreamError ==
  /\ reading /\ ~ udp /\ Refused
  /\ logged' = IF focus.error = "UnexpectedEof" THEN logged ELSE <<focus.error>>
  /\ reading' = FALSE
  /\ UNCHANGED <<deserializerVars, type, udp, peerVars, printed>>

(***************************************************************************)
(* deserialize_message_from_buffer, with what from_bytes adds: no byte may *)
(* be left.                                                                *)
(***************************************************************************)
\* Mutant: what follows a message is not looked at.
WholeDatagram_Prefix == TRUE

WholeDatagram == input = <<>>

DatagramMessage ==
  /\ reading /\ udp /\ Done
  /\ IF WholeDatagram
     THEN printed' = <<focus.value>> /\ UNCHANGED logged
     ELSE logged' = <<"TrailingData">> /\ UNCHANGED printed
  /\ reading' = FALSE
  /\ UNCHANGED <<deserializerVars, type, udp, peerVars>>

DatagramError ==
  /\ reading /\ udp /\ Refused
  /\ logged' = <<focus.error>>
  /\ reading' = FALSE
  /\ UNCHANGED <<deserializerVars, type, udp, peerVars, printed>>

Reads ==
  /\ reading /\ Deserialize
  /\ UNCHANGED <<type, udp, reading, peerVars, logVars>>

VerifierStep ==
  Reads \/ StreamMessage \/ StreamError \/ DatagramMessage \/ DatagramError

PeerStep == PeerWrites \/ PeerCloses

VerifierNext == PeerStep \/ Accept \/ ReceiveDatagram \/ VerifierStep

VerifierSpec == VerifierInit /\ [][VerifierNext]_verifierVars

(***************************************************************************)
(* The process runs whenever it does not wait for its socket.              *)
(***************************************************************************)
FairVerifier == VerifierSpec /\ WF_verifierVars(VerifierStep)

--------------------------------------------------------------------------------
(***************************************************************************)
(* What is printed on a connection is what its peer has sent, in order,    *)
(* and when the verifier turns to the next one nothing that came whole is  *)
(* missing, wherever the peer broke off (deserialize_message_from_stream,  *)
(* deserialize_message_from_buffer).                                       *)
(***************************************************************************)
PrintedAsSent ==
  clean => /\ IsPrefix(printed, complete)
           /\ ~ reading => printed = complete

(***************************************************************************)
(* No error is logged about a peer that sends nothing but messages, be it  *)
(* that the connection ends within one (verifier.rs, lines 72 to 77).      *)
(***************************************************************************)
NoFalseAlarm == clean => logged = <<>>

(***************************************************************************)
(* A datagram that is cut short or goes on after the message is reported   *)
(* and never taken for another message (from_bytes): no message begins     *)
(* another.                                                                *)
(***************************************************************************)
DamageReported ==
  udp /\ ~ reading /\ ~ clean => printed = <<>> /\ logged # <<>>

(***************************************************************************)
(* A peer that has closed does not keep the verifier from the next one,    *)
(* whatever number of elements it had announced.                           *)
(***************************************************************************)
AcceptsAgain == reading /\ closed ~> ~ reading
================================================================================
