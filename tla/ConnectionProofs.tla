-------------------------- MODULE ConnectionProofs --------------------------
(***************************************************************************)
(* Proofs about module Connection, for every conversation, every length of *)
(* the messages and their pieces, every buffer and char, and any number of *)
(* inputs: what the state of an operation is while none of the overlaps    *)
(* has come that spoil it, and nothing has gone beyond a buffer.           *)
(***************************************************************************)
EXTENDS Connection, SequenceTheorems, FiniteSetTheorems, TLAPS

Outgoing == {"Join", "PlaceBomb", "PlaceBlock", "Move"}

\* A byte of a message that has been sent, or of none.
Byte ==
  {Unset} \cup ({"down"} \X (1 .. Len(told)) \X (Nat \ {0}))
          \cup ({"up"} \X (1 .. Len(called)) \X (Nat \ {0}))

Write == [at : Nat, left : Nat \ {0}]

StreamsTyped ==
  /\ told \in Seq(ServerMessage) /\ called \in Seq(Outgoing)
  /\ down \in Seq(Byte) /\ up \in Seq(Byte)

SessionTyped ==
  /\ buffer \in [DOMAIN buffer -> Byte]
  /\ buf_len \in Nat /\ read_idx \in Nat
  /\ writes \in Seq(Write) /\ resumed \in Seq(Write)
  /\ receive \in [at : Nat, len : Nat, phase : {"none", "pending", "taken", "over", "thrown"}]
  /\ up_taken \in 0 .. Len(up)
  /\ heard \in Seq(Nat)

Reader ==
  [phase : {"asked", "given", "drawing", "drawn", "astray"}, number : 0 .. Len(told),
   piece : Nat \ {0}, already : Nat, at : Nat, want : Nat, got : Nat]

ReaderTyped ==
  /\ reader \in Reader
  /\ reader.phase \in {"asked", "given"} =>
       IF reader.number = 0 THEN reader.piece = 1
       ELSE reader.piece \in DOMAIN Ends[told[reader.number]]
  /\ reader.phase = "given" => reader.got \in 1 .. reader.want

ClientTyped ==
  /\ in_lobby \in BOOLEAN
  /\ buf_tcp \in [DOMAIN buf_tcp -> Byte]
  /\ buf_len_tcp \in Nat /\ read_idx_tcp \in Nat
  /\ buf_udp \in {<<"unset", 0>>} \cup ({"drawing"} \X (1 .. Len(told)))
                                  \cup ({"input"} \X (1 .. Len(pressed)))
  /\ ReaderTyped
  /\ read \in Seq(1 .. Len(told)) /\ drawn \in Seq(0 .. Len(told))
  /\ pressed \in Seq(Input)
  /\ input \in [phase : {"asked", "given", "sending", "sent"}, kind : Outgoing \cup {"none"}, taken : Nat]
  /\ input.phase \in {"sending", "sent"} => input.kind \in Outgoing
  /\ input.phase = "given" => pressed # <<>>

ConnectionTypeOK ==
  /\ StreamsTyped /\ SessionTyped /\ ClientTyped
  /\ overlaps \subseteq Kinds

\* What has not been noted does not hold.
Apart ==
  /\ "writes" \notin overlaps => Len(writes) + Len(resumed) <= 1
  /\ "receive" \notin overlaps => ~ (receive.phase = "taken" /\ writes \o resumed # <<>>)
  /\ "sends" \notin overlaps => ~ (input.phase \in {"sending", "sent"} /\ MidMessage)
  /\ "inputs" \notin overlaps => ~ (reader.phase = "drawing" /\ input.phase = "given")
  /\ "short" \notin overlaps =>
       /\ input.phase = "sent" => ~ (input.taken < ClientMessage[input.kind])
       /\ receive.phase = "taken" => ~ (receive.len < ClientMessage[called[1]])
  /\ "overflow" \notin overlaps => ~ (reader.phase = "given" /\ reader.at + reader.got > BuffSize)

\* A stream goes on byte by byte and message by message, here from byte b to c, which
\* comes d places later; its last element may be that of a message that is yet to come.
GoesOn(b, c, d, way, sizes) ==
  /\ b[2] \in DOMAIN sizes
  /\ b[3] \in 1 .. sizes[b[2]]
  /\ b = <<way, b[2], b[3]>>
  /\ b[3] + d <= sizes[b[2]] => c = <<way, b[2], b[3] + d>>
  /\ b[3] + d = sizes[b[2]] + 1 => c = <<way, b[2] + 1, 1>>

Follows(stream, way, sizes) ==
  \A i, j \in DOMAIN stream : i < j => GoesOn(stream[i], stream[j], j - i, way, sizes)

\* The byte after the first q bytes of message n.
After(n, q, way, sizes) ==
  IF n \in DOMAIN sizes /\ q = sizes[n] THEN <<way, n + 1, 1>> ELSE <<way, n, q + 1>>

DownSizes == [n \in 1 .. Len(told) |-> Length(told[n])]
UpSizes == [n \in 1 .. Len(called) |-> ClientMessage[called[n]]]

\* The next byte that the session writes, and the rest of its message in the buffer.
Writing ==
  IF writes # <<>> THEN <<"down", Len(told), writes[1].at + 1>>
  ELSE IF resumed # <<>> THEN <<"down", Len(told), resumed[1].at + 1>>
  ELSE <<"down", Len(told) + 1, 1>>

WriteSound(write) ==
  /\ told # <<>> /\ write.at + write.left = Length(told[Len(told)])
  /\ \A a \in write.at .. (write.at + write.left - 1) :
       a \in DOMAIN buffer /\ buffer[a] = <<"down", Len(told), a + 1>>

OneWrite ==
  /\ Len(writes) + Len(resumed) <= 1
  /\ \A i \in DOMAIN writes : WriteSound(writes[i])
  /\ \A i \in DOMAIN resumed : WriteSound(resumed[i])
  /\ Follows(Append(down, Writing), "down", DownSizes)

DownSound == Without({"writes", "receive"}) => OneWrite

\* What the reader has of the message it reads, and the byte that comes next to it.
Reading == reader.phase \in {"asked", "given"}
Current == Len(read) + 1
Base == Start(told[Current], reader.piece)
Taken == IF Reading THEN Base + reader.already + reader.got ELSE 0
Due == After(Current, Taken, "down", DownSizes)

PieceSound ==
  /\ Taken # 0 => Current <= Len(told)
  /\ IF reader.number = 0
     THEN reader.piece = 1 /\ reader.already = 0 /\ reader.want = 1
     ELSE /\ reader.number = Current
          /\ reader.piece \in 2 .. Len(Ends[told[Current]])
          /\ reader.already + reader.want = Size(told[Current], reader.piece)
  /\ reader.at = Base + reader.already
  /\ IF reader.phase = "asked" THEN reader.got = 0 ELSE reader.got \in 1 .. reader.want
  /\ input.phase \notin {"sending", "sent"} => buf_len_tcp = Base /\ read_idx_tcp = Base
  /\ \A i \in 1 .. (reader.already + reader.got) :
       /\ Base + i - 1 \in DOMAIN buf_tcp
       /\ buf_tcp[Base + i - 1] = <<"down", Current, Base + i>>

InOrder ==
  /\ reader.phase # "astray"
  /\ \A i \in DOMAIN read : read[i] = i
  /\ Reading => PieceSound
  /\ Append(down, Writing)[1] = Due

\* The reader has asked for a string that no buffer holds.
Endless ==
  /\ \A i \in DOMAIN read : read[i] = i
  /\ Reading /\ reader.number # 0
  /\ reader.already + reader.want >= Wrap
  /\ reader.at >= reader.already

ReaderSound == Without({"writes", "receive", "sends"}) => InOrder \/ Endless

Sending == IF input.phase = "sending" THEN <<"up", Len(called), 1>> ELSE <<"up", Len(called) + 1, 1>>

SentInOrder ==
  /\ Append(up, Sending)[1] = <<"up", 1, 1>>
  /\ Follows(Append(up, Sending), "up", UpSizes)
  /\ input.phase = "sending" =>
       /\ called # <<>> /\ called[Len(called)] = input.kind
       /\ \A a \in 0 .. (ClientMessage[input.kind] - 1) :
            a \in DOMAIN buf_tcp /\ buf_tcp[a] = <<"up", Len(called), a + 1>>

UpSound == Without({"sends", "short"}) => SentInOrder

FirstHeard ==
  IF receive.phase = "over" THEN heard = <<1>>
  ELSE IF receive.phase = "thrown" THEN heard = <<>>
  ELSE /\ heard = <<>> /\ buf_len = 0 /\ read_idx = 0 /\ receive.at = 0
       /\ receive.phase # "taken" => up_taken = 0
       /\ receive.phase = "taken" =>
            /\ receive.len \in 1 .. Len(up)
            /\ \A a \in 0 .. (receive.len - 1) : a \in DOMAIN buffer /\ buffer[a] = up[a + 1]

HeardSound == Without({"sends", "short", "receive"}) => FirstHeard

\* Where an element stands in a sequence.
PlacesOf(e, seq) == {n \in DOMAIN seq : seq[n] = e}
PlacesIn(E, seq) == {n \in DOMAIN seq : seq[n] \in E}

InputsCounted ==
  /\ input.phase = "given" => buf_udp = <<"input", Len(pressed)>>
  /\ \A kind \in Input :
       Cardinality(PlacesOf(kind, called))
           + (IF input.phase = "given" /\ pressed[Len(pressed)] = kind THEN 1 ELSE 0)
         <= Cardinality(PlacesOf(kind, pressed))

InputsSound == Without({"inputs"}) => InputsCounted

\* An input that may still become a Join.
JoinDue ==
  \/ input.phase = "given" /\ pressed[Len(pressed)] # "Invalid"
  \/ input.phase \in {"sending", "sent"} /\ input.kind # "Join"

Proper == Input \ {"Invalid"}

JoinsCounted ==
  Cardinality(PlacesOf("Join", called)) + (IF JoinDue THEN 1 ELSE 0)
    <= Cardinality(PlacesIn(Proper, pressed))

JoinsSound == Without({"inputs"}) => JoinsCounted

DrawnInOrder ==
  /\ Cardinality(Drawable(Len(read))) = Len(drawn) + (IF reader.phase = "drawing" THEN 1 ELSE 0)
  /\ reader.phase = "drawing" =>
       /\ Len(read) \in Drawable(Len(read))
       /\ buf_udp = <<"drawing", read[Len(read)]>>
  /\ \A j \in Drawable(Len(read)) :
       Cardinality(Drawable(j)) <= Len(drawn) => drawn[Cardinality(Drawable(j))] = read[j]

DrawnSound == Without({"inputs"}) => DrawnInOrder

ConnectionInv ==
  /\ ConnectionTypeOK /\ Apart
  /\ DownSound /\ ReaderSound /\ UpSound /\ HeardSound
  /\ InputsSound /\ JoinsSound /\ DrawnSound

---------------------------------------------------------------------------
(* Messages, their pieces, and memory.                                     *)

\* The length of a message is positive, and Input names only what may be sent.
LEMMA Lengths ==
  /\ \A kind \in Outgoing : ClientMessage[kind] \in Nat \ {0}
  /\ \A kind \in ServerMessage : Length(kind) \in Nat \ {0} /\ Len(Ends[kind]) \in Nat \ {0}
<1>1. \A kind \in Outgoing : ClientMessage[kind] \in Nat \ {0}
  <2>1. NameLength \in Nat
    BY StreamsAssumption DEF StreamsAssumption
  <2>2. ClientMessage = [Join |-> 2 + NameLength, PlaceBomb |-> 1, PlaceBlock |-> 1, Move |-> 2]
    BY DEF ClientMessage
  <2>3. Outgoing = {"Join", "PlaceBomb", "PlaceBlock", "Move"}
    BY DEF Outgoing
  <2> QED
    BY <2>1, <2>2, <2>3
<1>2. ASSUME NEW kind \in ServerMessage
      PROVE  Length(kind) \in Nat \ {0} /\ Len(Ends[kind]) \in Nat \ {0}
  <2>1. Ends[kind] \in Seq(Nat) /\ Ends[kind] # <<>> /\ Ends[kind][1] = 1
    BY StreamsAssumption DEF StreamsAssumption
  <2>2. Len(Ends[kind]) \in Nat \ {0} /\ 1 \in DOMAIN Ends[kind] /\ Len(Ends[kind]) \in DOMAIN Ends[kind]
    BY <2>1
  <2>3. \A p, q \in DOMAIN Ends[kind] : p < q => Ends[kind][p] < Ends[kind][q]
    BY StreamsAssumption DEF StreamsAssumption
  <2>4. Ends[kind][Len(Ends[kind])] \in Nat
    BY <2>1, <2>2
  <2>5. 1 <= Ends[kind][Len(Ends[kind])]
    BY <2>1, <2>2, <2>3, <2>4
  <2> QED
    BY <2>2, <2>4, <2>5 DEF Length, Last
<1> QED
  BY <1>1, <1>2

\* A piece starts where the one before it ends, and the last one ends with the message.
LEMMA Pieces ==
  ASSUME NEW kind \in ServerMessage, NEW p \in DOMAIN Ends[kind]
  PROVE  /\ p \in 1 .. Len(Ends[kind])
         /\ Start(kind, p) \in Nat /\ Size(kind, p) \in Nat \ {0}
         /\ Start(kind, p) + Size(kind, p) <= Length(kind)
         /\ p = 1 => Start(kind, p) = 0 /\ Size(kind, p) = 1
         /\ p # 1 => Start(kind, p) # 0
         /\ p < Len(Ends[kind]) =>
              /\ p + 1 \in DOMAIN Ends[kind]
              /\ Start(kind, p + 1) = Start(kind, p) + Size(kind, p)
         /\ p = Len(Ends[kind]) => Start(kind, p) + Size(kind, p) = Length(kind)
<1>1. Ends[kind] \in Seq(Nat) /\ Ends[kind] # <<>> /\ Ends[kind][1] = 1
  BY StreamsAssumption DEF StreamsAssumption
<1>2. \A q, r \in DOMAIN Ends[kind] : q < r => Ends[kind][q] < Ends[kind][r]
  BY StreamsAssumption DEF StreamsAssumption
<1> DEFINE ends == Ends[kind]
<1>3. /\ Len(ends) \in Nat /\ DOMAIN ends = 1 .. Len(ends)
      /\ \A q \in 1 .. Len(ends) : ends[q] \in Nat
      /\ ends[1] = 1 /\ p \in 1 .. Len(ends)
      /\ \A q, r \in 1 .. Len(ends) : q < r => ends[q] < ends[r]
  BY <1>1, <1>2
<1>4. /\ Start(kind, p) = IF p = 1 THEN 0 ELSE ends[p - 1]
      /\ Size(kind, p) = ends[p] - Start(kind, p)
      /\ Start(kind, p + 1) = IF p + 1 = 1 THEN 0 ELSE ends[p + 1 - 1]
      /\ Length(kind) = ends[Len(ends)]
  <2>1. \A q : Start(kind, q) = IF q = 1 THEN 0 ELSE ends[q - 1]
    BY DEF Start
  <2>2. Size(kind, p) = ends[p] - Start(kind, p)
    BY DEF Size
  <2>3. Length(kind) = ends[Len(ends)]
    BY DEF Length, Last
  <2> QED
    BY <2>1, <2>2, <2>3
<1> HIDE DEF ends
<1>5. ends[p] <= ends[Len(ends)] /\ ends[p] \in Nat
  BY <1>3
<1>6. p # 1 => p - 1 \in 1 .. Len(ends) /\ ends[p - 1] \in Nat /\ ends[p - 1] < ends[p] /\ 1 <= ends[p - 1]
  <2> SUFFICES ASSUME p # 1
               PROVE  p - 1 \in 1 .. Len(ends) /\ ends[p - 1] \in Nat /\ ends[p - 1] < ends[p] /\ 1 <= ends[p - 1]
    OBVIOUS
  <2>1. p - 1 \in 1 .. Len(ends) /\ 1 \in 1 .. Len(ends)
    BY <1>3
  <2>2. ends[p - 1] \in Nat /\ ends[p - 1] < ends[p]
    BY <1>3, <2>1
  <2>3. p - 1 = 1 \/ 1 < p - 1
    BY <1>3, <2>1
  <2> QED
    BY <1>3, <2>1, <2>2, <2>3
<1>7. p + 1 # 1 /\ p + 1 - 1 = p /\ (p < Len(ends) => p + 1 \in 1 .. Len(ends))
  BY <1>3
<1>8. Len(ends) = Len(Ends[kind]) /\ DOMAIN Ends[kind] = 1 .. Len(ends)
  BY <1>3 DEF ends
<1> QED
  BY <1>3, <1>4, <1>5, <1>6, <1>7, <1>8

\* A piece is asked for as it is, or for a string that no buffer holds.
LEMMA AskedFor ==
  ASSUME NEW kind \in ServerMessage, NEW p \in DOMAIN Ends[kind]
  PROVE  /\ Asked(kind, p) \in Nat \ {0}
         /\ Asked(kind, p) = Size(kind, p) \/ Asked(kind, p) >= Wrap
<1>1. Size(kind, p) \in Nat \ {0} /\ Wrap \in Nat
  BY Pieces, StreamsAssumption DEF StreamsAssumption
<1>2. Asked(kind, p) = Size(kind, p) \/ Asked(kind, p) = Size(kind, p) + Wrap
  BY DEF Asked
<1> QED
  BY <1>1, <1>2

\* What Fill leaves in memory: the bytes where they were put, the rest as it was.
LEMMA Filled ==
  ASSUME NEW S, NEW memory, memory \in [DOMAIN memory -> S],
         NEW at \in Nat, NEW bytes \in Seq(S)
  PROVE  /\ Fill(memory, at, bytes) \in [DOMAIN Fill(memory, at, bytes) -> S]
         /\ \A i \in 1 .. Len(bytes) :
              /\ at + i - 1 \in DOMAIN Fill(memory, at, bytes)
              /\ Fill(memory, at, bytes)[at + i - 1] = bytes[i]
         /\ \A a \in DOMAIN memory : a \notin at .. (at + Len(bytes) - 1) =>
              /\ a \in DOMAIN Fill(memory, at, bytes)
              /\ Fill(memory, at, bytes)[a] = memory[a]
<1> DEFINE area == at .. (at + Len(bytes) - 1)
           filled == [a \in DOMAIN memory \cup area |-> IF a \in area THEN bytes[a - at + 1] ELSE memory[a]]
<1>1. Fill(memory, at, bytes) = filled
  BY DEF Fill
<1>2. \A a \in area : a - at + 1 \in 1 .. Len(bytes) /\ bytes[a - at + 1] \in S
  OBVIOUS
<1>3. \A i \in 1 .. Len(bytes) : at + i - 1 \in area /\ (at + i - 1) - at + 1 = i
  OBVIOUS
<1> HIDE DEF area
<1>4. filled \in [DOMAIN filled -> S]
  BY <1>2
<1>5. \A i \in 1 .. Len(bytes) : at + i - 1 \in DOMAIN filled /\ filled[at + i - 1] = bytes[i]
  BY <1>3
<1>6. \A a \in DOMAIN memory : a \notin area => a \in DOMAIN filled /\ filled[a] = memory[a]
  OBVIOUS
<1> QED
  BY <1>1, <1>4, <1>5, <1>6 DEF area

\* What At finds in memory.
LEMMA Found ==
  ASSUME NEW S, Unset \in S, NEW memory, memory \in [DOMAIN memory -> S],
         NEW at \in Nat, NEW size \in Nat
  PROVE  /\ At(memory, at, size) \in Seq(S) /\ Len(At(memory, at, size)) = size
         /\ \A i \in 1 .. size : at + i - 1 \in DOMAIN memory =>
              At(memory, at, size)[i] = memory[at + i - 1]
<1> DEFINE found == [i \in 1 .. size |->
                      IF at + i - 1 \in DOMAIN memory THEN memory[at + i - 1] ELSE Unset]
<1>1. At(memory, at, size) = found
  BY DEF At
<1>2. \A i \in 1 .. size : found[i] \in S
  OBVIOUS
<1>3. found \in Seq(S) /\ Len(found) = size
  BY <1>2
<1> QED
  BY <1>1, <1>3

\* The same at the start of memory, where messages are built.
LEMMA AtStart ==
  ASSUME NEW S, Unset \in S, NEW memory, memory \in [DOMAIN memory -> S], NEW bytes \in Seq(S), NEW size \in Nat
  PROVE  /\ \A a \in 0 .. (Len(bytes) - 1) :
              a \in DOMAIN Fill(memory, 0, bytes) /\ Fill(memory, 0, bytes)[a] = bytes[a + 1]
         /\ \A i \in 1 .. size : i - 1 \in DOMAIN memory => At(memory, 0, size)[i] = memory[i - 1]
<1>1. PICK zero \in Nat : zero = 0
  OBVIOUS
<1>2. \A i \in 1 .. Len(bytes) :
        zero + i - 1 \in DOMAIN Fill(memory, zero, bytes) /\ Fill(memory, zero, bytes)[zero + i - 1] = bytes[i]
  BY Filled
<1>3. \A i \in 1 .. size : zero + i - 1 \in DOMAIN memory => At(memory, zero, size)[i] = memory[zero + i - 1]
  BY Found
<1>4. \A a \in 0 .. (Len(bytes) - 1) : a + 1 \in 1 .. Len(bytes) /\ zero + (a + 1) - 1 = a
  BY <1>1
<1>5. \A i \in 1 .. size : zero + i - 1 = i - 1
  BY <1>1
<1>6. \A a \in 0 .. (Len(bytes) - 1) :
        a \in DOMAIN Fill(memory, zero, bytes) /\ Fill(memory, zero, bytes)[a] = bytes[a + 1]
  BY <1>2, <1>4
<1>7. \A i \in 1 .. size : i - 1 \in DOMAIN memory => At(memory, zero, size)[i] = memory[i - 1]
  BY <1>3, <1>5
<1> QED
  BY <1>1, <1>6, <1>7

\* The bytes of a message are a sequence of bytes.
LEMMA BytesTyped ==
  ASSUME NEW S, NEW way, NEW n, NEW size \in Nat,
         \A i \in Nat \ {0} : <<way, n, i>> \in S
  PROVE  /\ Bytes(way, n, size) \in Seq(S) /\ Len(Bytes(way, n, size)) = size
         /\ \A i \in 1 .. size : Bytes(way, n, size)[i] = <<way, n, i>>
<1>1. \A i \in 1 .. size : <<way, n, i>> \in S
  OBVIOUS
<1> QED
  BY <1>1 DEF Bytes

---------------------------------------------------------------------------
(* Type correctness.                                                       *)

\* What told and called may become: themselves, or longer by one.
Longer ==
  /\ told' = told \/ \E kind \in ServerMessage : told' = Append(told, kind)
  /\ called' = called \/ \E kind \in Outgoing : called' = Append(called, kind)

\* Bytes, and the messages they belong to, are not forgotten.
LEMMA BytesStay ==
  ASSUME StreamsTyped, Longer
  PROVE  /\ told' \in Seq(ServerMessage) /\ called' \in Seq(Outgoing)
         /\ Len(told) <= Len(told') /\ Len(called) <= Len(called')
         /\ \A n \in 1 .. Len(told) : told'[n] = told[n]
         /\ \A n \in 1 .. Len(called) : called'[n] = called[n]
         /\ Byte \subseteq Byte'
<1>1. /\ told' \in Seq(ServerMessage) /\ Len(told) <= Len(told')
      /\ \A n \in 1 .. Len(told) : told'[n] = told[n]
  <2>1. told \in Seq(ServerMessage)
    BY DEF StreamsTyped
  <2>2. CASE told' = told
    BY <2>1, <2>2
  <2>3. CASE \E kind \in ServerMessage : told' = Append(told, kind)
    BY <2>1, <2>3, AppendProperties
  <2> QED
    BY <2>2, <2>3 DEF Longer
<1>2. /\ called' \in Seq(Outgoing) /\ Len(called) <= Len(called')
      /\ \A n \in 1 .. Len(called) : called'[n] = called[n]
  <2>1. called \in Seq(Outgoing)
    BY DEF StreamsTyped
  <2>2. CASE called' = called
    BY <2>1, <2>2
  <2>3. CASE \E kind \in Outgoing : called' = Append(called, kind)
    BY <2>1, <2>3, AppendProperties
  <2> QED
    BY <2>2, <2>3 DEF Longer
<1>3. Len(told) \in Nat /\ Len(told') \in Nat /\ Len(called) \in Nat /\ Len(called') \in Nat
  BY <1>1, <1>2 DEF StreamsTyped
<1>4. 1 .. Len(told) \subseteq 1 .. Len(told') /\ 1 .. Len(called) \subseteq 1 .. Len(called')
  BY <1>1, <1>2, <1>3
<1>5. Byte \subseteq Byte'
  BY <1>4 DEF Byte
<1> QED
  BY <1>1, <1>2, <1>5

\* The bytes of a message that is or becomes the last one.
LEMMA OwnBytes ==
  ASSUME StreamsTyped, NEW i \in Nat \ {0}
  PROVE  /\ told # <<>> => <<"down", Len(told), i>> \in Byte
         /\ called # <<>> => <<"up", Len(called), i>> \in Byte
  BY DEF StreamsTyped, Byte

\* A longer conversation leaves the client's state typed.
LEMMA ClientStaysTyped ==
  ASSUME StreamsTyped, ClientTyped, Longer, UNCHANGED client
  PROVE  ClientTyped'
<1>1. /\ Byte \subseteq Byte'
      /\ told' \in Seq(ServerMessage) /\ Len(told) \in Nat /\ Len(told') \in Nat
      /\ Len(told) <= Len(told') /\ \A n \in 1 .. Len(told) : told'[n] = told[n]
  BY BytesStay DEF StreamsTyped
<1>2. 1 .. Len(told) \subseteq 1 .. Len(told') /\ 0 .. Len(told) \subseteq 0 .. Len(told')
  BY <1>1
<1>3. UNCHANGED <<in_lobby, buf_tcp, buf_len_tcp, read_idx_tcp, buf_udp, reader, read, drawn, pressed, input>>
  BY DEF client
<1>4. buf_tcp' \in [DOMAIN buf_tcp' -> Byte']
  BY <1>1, <1>3 DEF ClientTyped
<1>5. buf_udp' \in {<<"unset", 0>>} \cup ({"drawing"} \X (1 .. Len(told'))) \cup ({"input"} \X (1 .. Len(pressed')))
  BY <1>2, <1>3 DEF ClientTyped
<1>6. read' \in Seq(1 .. Len(told')) /\ drawn' \in Seq(0 .. Len(told'))
  <2>1. read \in Seq(1 .. Len(told)) /\ drawn \in Seq(0 .. Len(told))
    BY DEF ClientTyped
  <2>2. read \in Seq(1 .. Len(told')) /\ drawn \in Seq(0 .. Len(told'))
    BY <1>2, <2>1, SeqMonotonic
  <2> QED
    BY <1>3, <2>2
<1>7. ReaderTyped'
  <2>1. ReaderTyped
    BY DEF ClientTyped
  <2>2. reader.number # 0 => told'[reader.number] = told[reader.number]
    BY <1>1, <2>1 DEF ReaderTyped, Reader
  <2>3. reader.number \in 0 .. Len(told')
    BY <1>2, <2>1 DEF ReaderTyped, Reader
  <2>4. reader \in Reader'
    BY <2>1, <2>3 DEF ReaderTyped, Reader
  <2> QED
    BY <1>3, <2>1, <2>2, <2>4 DEF ReaderTyped, Reader
<1> QED
  BY <1>3, <1>4, <1>5, <1>6, <1>7 DEF ClientTyped

\* Longer streams leave the session's state typed.
LEMMA SessionStaysTyped ==
  ASSUME StreamsTyped, SessionTyped, Longer, UNCHANGED session,
         up' \in Seq(Byte'), Len(up) <= Len(up')
  PROVE  SessionTyped'
<1>1. Byte \subseteq Byte'
  BY BytesStay
<1>2. UNCHANGED <<buffer, buf_len, read_idx, writes, resumed, receive, up_taken, heard>>
  BY DEF session
<1>3. buffer' \in [DOMAIN buffer' -> Byte']
  BY <1>1, <1>2 DEF SessionTyped
<1>4. up_taken' \in 0 .. Len(up')
  BY <1>2 DEF SessionTyped, StreamsTyped
<1> QED
  BY <1>2, <1>3, <1>4 DEF SessionTyped, Write

LEMMA SendToClientTyped ==
  ASSUME ConnectionTypeOK, NEW kind \in ServerMessage, SendToClient(kind), UNCHANGED client
  PROVE  StreamsTyped' /\ SessionTyped' /\ ClientTyped'
<1>1. StreamsTyped /\ SessionTyped /\ ClientTyped /\ Longer
  BY DEF ConnectionTypeOK, SendToClient, Longer
<1>2. ClientTyped'
  BY <1>1, ClientStaysTyped
<1>3. /\ Byte \subseteq Byte' /\ told' \in Seq(ServerMessage) /\ called' \in Seq(Outgoing)
  BY <1>1, BytesStay
<1>4. StreamsTyped'
  BY <1>1, <1>3 DEF StreamsTyped, SendToClient
<1>5. Length(kind) \in Nat \ {0}
  BY Lengths
<1>6. \A i \in Nat \ {0} : <<"down", Len(told) + 1, i>> \in Byte'
  <2>1. told' = Append(told, kind) /\ Len(told') = Len(told) + 1 /\ told' # <<>>
    BY <1>1 DEF SendToClient, StreamsTyped
  <2> QED
    BY <1>4, <2>1 DEF StreamsTyped, Byte
<1>7. Bytes("down", Len(told) + 1, Length(kind)) \in Seq(Byte')
  BY <1>5, <1>6, BytesTyped
<1>8. buffer \in [DOMAIN buffer -> Byte']
  BY <1>1, <1>3 DEF SessionTyped
<1>9. buffer' \in [DOMAIN buffer' -> Byte']
  BY <1>7, <1>8, Filled DEF SendToClient
<1>10. writes' \in Seq(Write)
  BY <1>1, <1>5 DEF SessionTyped, SendToClient, Write
<1>11. SessionTyped'
  BY <1>1, <1>9, <1>10 DEF SessionTyped, SendToClient, SessionClearBuffer
<1> QED
  BY <1>2, <1>4, <1>11

LEMMA SocketTakesTyped ==
  ASSUME ConnectionTypeOK, SocketTakes, UNCHANGED client
  PROVE  StreamsTyped' /\ SessionTyped' /\ ClientTyped'
<1>1. /\ StreamsTyped /\ SessionTyped /\ ClientTyped /\ Longer
      /\ told' = told /\ called' = called /\ up' = up
  BY DEF ConnectionTypeOK, SocketTakes, Longer
<1>2. ClientTyped'
  BY <1>1, ClientStaysTyped
<1>3. Byte' = Byte
  BY <1>1 DEF Byte
<1>4. writes \in Seq(Write) /\ writes # <<>> /\ writes[1] \in Write
  BY <1>1 DEF SessionTyped, SocketTakes
<1>5. PICK k \in 1 .. writes[1].left :
        /\ down' = down \o At(buffer, writes[1].at, k)
        /\ resumed' = IF k = writes[1].left THEN resumed
                      ELSE Append(resumed, [at |-> writes[1].at + k, left |-> writes[1].left - k])
  BY DEF SocketTakes
<1>6. k \in Nat /\ writes[1].at \in Nat /\ writes[1].left \in Nat
  BY <1>4 DEF Write
<1>7. down' \in Seq(Byte)
  <2>1. At(buffer, writes[1].at, k) \in Seq(Byte)
    BY <1>1, <1>6, Found DEF SessionTyped, Byte
  <2> QED
    BY <1>1, <1>5, <2>1 DEF StreamsTyped
<1>8. resumed' \in Seq(Write)
  <2>1. k # writes[1].left => [at |-> writes[1].at + k, left |-> writes[1].left - k] \in Write
    BY <1>6 DEF Write
  <2> QED
    BY <1>1, <1>5, <2>1 DEF SessionTyped
<1>9. writes' \in Seq(Write)
  BY <1>4 DEF SocketTakes
<1>10. SessionTyped'
  BY <1>1, <1>3, <1>8, <1>9 DEF SessionTyped, SocketTakes
<1> QED
  BY <1>1, <1>2, <1>3, <1>7, <1>10 DEF StreamsTyped

LEMMA WriteGoesOnTyped ==
  ASSUME ConnectionTypeOK, WriteGoesOn, UNCHANGED client
  PROVE  StreamsTyped' /\ SessionTyped' /\ ClientTyped'
<1>1. /\ StreamsTyped /\ SessionTyped /\ ClientTyped /\ Longer
      /\ told' = told /\ called' = called /\ up' = up /\ down' = down
  BY DEF ConnectionTypeOK, WriteGoesOn, Longer
<1>2. ClientTyped'
  BY <1>1, ClientStaysTyped
<1>3. Byte' = Byte
  BY <1>1 DEF Byte
<1>4. resumed \in Seq(Write) /\ resumed # <<>> /\ resumed[1] \in Write /\ writes \in Seq(Write)
  BY <1>1 DEF SessionTyped, WriteGoesOn
<1>5. writes' \in Seq(Write) /\ resumed' \in Seq(Write)
  BY <1>4 DEF WriteGoesOn
<1> QED
  BY <1>1, <1>2, <1>3, <1>5 DEF StreamsTyped, SessionTyped, WriteGoesOn

LEMMA ReadMessageTyped ==
  ASSUME ConnectionTypeOK, ReadMessage, UNCHANGED client
  PROVE  StreamsTyped' /\ SessionTyped' /\ ClientTyped'
<1>1. /\ StreamsTyped /\ SessionTyped /\ ClientTyped /\ Longer
      /\ told' = told /\ called' = called /\ up' = up /\ down' = down
  BY DEF ConnectionTypeOK, ReadMessage, Longer
<1>2. ClientTyped'
  BY <1>1, ClientStaysTyped
<1>3. Byte' = Byte
  BY <1>1 DEF Byte
<1> QED
  BY <1>1, <1>2, <1>3 DEF StreamsTyped, SessionTyped, ReadMessage

LEMMA SocketGivesTyped ==
  ASSUME ConnectionTypeOK, SocketGives, UNCHANGED client
  PROVE  StreamsTyped' /\ SessionTyped' /\ ClientTyped'
<1>1. /\ StreamsTyped /\ SessionTyped /\ ClientTyped /\ Longer
      /\ told' = told /\ called' = called /\ up' = up /\ down' = down
  BY DEF ConnectionTypeOK, SocketGives, Longer
<1>2. ClientTyped'
  BY <1>1, ClientStaysTyped
<1>3. Byte' = Byte
  BY <1>1 DEF Byte
<1>4. PICK k \in 1 .. (Len(up) - up_taken) :
        /\ buffer' = Fill(buffer, receive.at, SubSeq(up, up_taken + 1, up_taken + k))
        /\ receive' = [receive EXCEPT !.len = k, !.phase = "taken"]
        /\ up_taken' = up_taken + k
  BY DEF SocketGives
<1>5. up \in Seq(Byte) /\ up_taken \in 0 .. Len(up) /\ Len(up) \in Nat
  BY <1>1 DEF StreamsTyped, SessionTyped
<1>6. SubSeq(up, up_taken + 1, up_taken + k) \in Seq(Byte)
  <2>1. \A i \in (up_taken + 1) .. (up_taken + k) : up[i] \in Byte
    BY <1>5
  <2> QED
    BY <1>5, <2>1, SubSeqProperties
<1>7. buffer' \in [DOMAIN buffer' -> Byte]
  BY <1>1, <1>4, <1>6, Filled DEF SessionTyped
<1>8. receive' \in [at : Nat, len : Nat, phase : {"none", "pending", "taken", "over", "thrown"}]
  <2>1. k \in Nat /\ receive \in [at : Nat, len : Nat, phase : {"none", "pending", "taken", "over", "thrown"}]
    BY <1>1, <1>5 DEF SessionTyped
  <2> QED
    BY <1>4, <2>1
<1>9. up_taken' \in 0 .. Len(up')
  BY <1>1, <1>4, <1>5
<1> QED
  BY <1>1, <1>2, <1>3, <1>7, <1>8, <1>9 DEF StreamsTyped, SessionTyped, SocketGives

LEMMA ReceiveTyped ==
  ASSUME ConnectionTypeOK, Receive, UNCHANGED client
  PROVE  StreamsTyped' /\ SessionTyped' /\ ClientTyped'
<1>1. /\ StreamsTyped /\ SessionTyped /\ ClientTyped /\ Longer
      /\ told' = told /\ called' = called /\ up' = up /\ down' = down
  BY DEF ConnectionTypeOK, Receive, Longer
<1>2. ClientTyped'
  BY <1>1, ClientStaysTyped
<1>3. Byte' = Byte
  BY <1>1 DEF Byte
<1> DEFINE id == At(buffer, read_idx, 1)[1]
           sound == id[1] = "up" /\ id[3] = 1
           size == IF sound THEN ClientMessage[called[id[2]]] ELSE 1
           whole == At(buffer, read_idx, size) = Bytes("up", id[2], size)
<1>4. /\ heard' = heard \/ heard' = Append(heard, IF sound /\ whole THEN id[2] ELSE 0)
      /\ read_idx' = read_idx + 2 \/ read_idx' = read_idx + size
      /\ buf_len' = buf_len + receive.len
  BY DEF Receive
<1>5. id \in Byte
  <2>1. Unset \in Byte
    BY DEF Byte
  <2>2. buffer \in [DOMAIN buffer -> Byte] /\ read_idx \in Nat
    BY <1>1 DEF SessionTyped
  <2>3. \A n \in Nat : At(buffer, read_idx, n) \in Seq(Byte) /\ Len(At(buffer, read_idx, n)) = n
    BY <2>1, <2>2, Found
  <2> QED
    BY <2>3
<1> HIDE DEF id
<1>6. sound => id[2] \in 1 .. Len(called)
  BY <1>5 DEF Byte, Unset
<1>7. size \in Nat
  <2>1. sound => called[id[2]] \in Outgoing
    BY <1>1, <1>6 DEF StreamsTyped
  <2> QED
    BY <2>1, Lengths
<1>8. (IF sound /\ whole THEN id[2] ELSE 0) \in Nat
  BY <1>1, <1>6 DEF StreamsTyped
<1> HIDE DEF sound, size, whole
<1>9. heard' \in Seq(Nat) /\ read_idx' \in Nat /\ buf_len' \in Nat
  <2>1. heard \in Seq(Nat) /\ read_idx \in Nat /\ buf_len \in Nat /\ receive.len \in Nat
    BY <1>1 DEF SessionTyped
  <2>2. heard' \in Seq(Nat)
    <3>1. CASE heard' = heard
      BY <2>1, <3>1
    <3>2. CASE heard' = Append(heard, IF sound /\ whole THEN id[2] ELSE 0)
      BY <1>8, <2>1, <3>2, AppendProperties
    <3> QED
      BY <1>4, <3>1, <3>2
  <2>3. read_idx' \in Nat /\ buf_len' \in Nat
    BY <1>4, <1>7, <2>1
  <2> QED
    BY <2>2, <2>3
<1>10. receive' \in [at : Nat, len : Nat, phase : {"none", "pending", "taken", "over", "thrown"}]
  BY <1>1 DEF SessionTyped, Receive
<1> QED
  BY <1>1, <1>2, <1>3, <1>9, <1>10 DEF StreamsTyped, SessionTyped, Receive

\* Where a client's step tells nothing and calls nothing, only what it changes is at stake.
LEMMA SessionStays ==
  ASSUME ConnectionTypeOK, UNCHANGED session, UNCHANGED <<told, called, up>>
  PROVE  /\ StreamsTyped /\ SessionTyped /\ ClientTyped /\ ReaderTyped
         /\ SessionTyped'
         /\ Byte' = Byte
<1>1. StreamsTyped /\ SessionTyped /\ ClientTyped /\ Longer
  BY DEF ConnectionTypeOK, Longer
<1>2. Byte' = Byte
  BY DEF Byte
<1>3. up' \in Seq(Byte') /\ Len(up) <= Len(up')
  BY <1>1, <1>2 DEF StreamsTyped
<1> QED
  BY <1>1, <1>2, <1>3, SessionStaysTyped DEF ClientTyped

LEMMA ReaderTakesTyped ==
  ASSUME ConnectionTypeOK, ReaderTakes, UNCHANGED session
  PROVE  StreamsTyped' /\ SessionTyped' /\ ClientTyped'
<1>1. StreamsTyped /\ SessionTyped /\ ClientTyped /\ ReaderTyped /\ SessionTyped' /\ Byte' = Byte
  BY SessionStays DEF ReaderTakes
<1>2. PICK k \in 1 .. Len(down) :
        /\ k <= reader.want
        /\ buf_tcp' = Fill(buf_tcp, reader.at, SubSeq(down, 1, k))
        /\ down' = SubSeq(down, k + 1, Len(down))
        /\ reader' = [reader EXCEPT !.phase = "given", !.got = k]
  BY DEF ReaderTakes
<1>3. down \in Seq(Byte) /\ Len(down) \in Nat /\ k \in Nat
  BY <1>1 DEF StreamsTyped
<1>4. SubSeq(down, 1, k) \in Seq(Byte) /\ down' \in Seq(Byte)
  BY <1>2, <1>3
<1>5. buf_tcp' \in [DOMAIN buf_tcp' -> Byte]
  <2>1. buf_tcp \in [DOMAIN buf_tcp -> Byte] /\ reader.at \in Nat
    BY <1>1 DEF ClientTyped, ReaderTyped, Reader
  <2> QED
    BY <1>2, <1>4, <2>1, Filled
<1>6. ReaderTyped'
  <2>1. reader.phase = "asked" /\ told' = told
    BY DEF ReaderTakes
  <2>2. reader' \in Reader
    BY <1>1, <1>2, <1>3 DEF ReaderTyped, Reader
  <2>3. /\ reader'.got \in 1 .. reader'.want /\ reader'.number = reader.number
        /\ reader'.piece = reader.piece
    BY <1>1, <1>2, <1>3 DEF ReaderTyped, Reader
  <2> QED
    BY <1>1, <2>1, <2>2, <2>3 DEF ReaderTyped, Reader
<1> QED
  BY <1>1, <1>4, <1>5, <1>6 DEF StreamsTyped, ClientTyped, ReaderTakes

LEMMA ReadsOnTyped ==
  ASSUME ConnectionTypeOK, ReadsOn, UNCHANGED session
  PROVE  StreamsTyped' /\ SessionTyped' /\ ClientTyped'
<1>1. StreamsTyped /\ SessionTyped /\ ClientTyped /\ ReaderTyped /\ SessionTyped' /\ Byte' = Byte
  BY SessionStays DEF ReadsOn
<1>2. ReaderTyped'
  <2>1. /\ reader \in Reader /\ buf_len_tcp \in Nat /\ told' = told
        /\ reader.phase = "given" /\ reader.got \in 1 .. reader.want /\ reader.got < reader.want
    BY <1>1 DEF ReaderTyped, ClientTyped, ReadsOn
  <2>2. reader' =
          [phase |-> "asked", number |-> reader.number, piece |-> reader.piece,
           already |-> reader.already + reader.got, at |-> buf_len_tcp + (reader.already + reader.got),
           want |-> (reader.already + reader.want) - (reader.already + reader.got), got |-> 0]
    BY DEF ReadsOn, Asking
  <2>3. reader' \in Reader
    <3>1. /\ reader.already \in Nat /\ reader.want \in Nat /\ reader.got \in Nat
          /\ reader.number \in 0 .. Len(told) /\ reader.piece \in Nat \ {0}
      BY <2>1 DEF Reader
    <3>2. /\ reader.already + reader.got \in Nat
          /\ buf_len_tcp + (reader.already + reader.got) \in Nat
          /\ (reader.already + reader.want) - (reader.already + reader.got) \in Nat
      BY <2>1, <3>1
    <3> QED
      BY <2>2, <3>1, <3>2 DEF Reader
  <2> QED
    BY <1>1, <2>1, <2>2, <2>3 DEF ReaderTyped, Reader
<1> QED
  BY <1>1, <1>2 DEF StreamsTyped, ClientTyped, ReadsOn

\* What the client takes for the number of the message it reads.
Number ==
  IF reader.number = 0 /\ At(buf_tcp, read_idx_tcp, reader.already + reader.want)[1][1] = "down"
  THEN At(buf_tcp, read_idx_tcp, reader.already + reader.want)[1][2] ELSE reader.number

LEMMA NumberTyped ==
  ASSUME ConnectionTypeOK, reader.phase = "given"
  PROVE  /\ Number \in 0 .. Len(told)
         /\ reader.number # 0 => Number = reader.number
         /\ Number # 0 => told[Number] \in ServerMessage /\ reader.piece \in DOMAIN Ends[told[Number]]
<1>1. StreamsTyped /\ ClientTyped /\ ReaderTyped
  BY DEF ConnectionTypeOK, ClientTyped
<1>2. /\ reader.already \in Nat /\ reader.want \in Nat /\ reader.got \in 1 .. reader.want
      /\ reader.number \in 0 .. Len(told)
  BY <1>1 DEF ReaderTyped, Reader
<1>3. reader.already + reader.want \in Nat /\ 1 \in 1 .. (reader.already + reader.want)
  BY <1>2
<1> DEFINE bytes == At(buf_tcp, read_idx_tcp, reader.already + reader.want)
<1>4. bytes[1] \in Byte
  <2>1. Unset \in Byte
    BY DEF Byte
  <2>2. buf_tcp \in [DOMAIN buf_tcp -> Byte] /\ read_idx_tcp \in Nat
    BY <1>1 DEF ClientTyped
  <2>3. bytes \in Seq(Byte) /\ Len(bytes) = reader.already + reader.want
    BY <1>3, <2>1, <2>2, Found
  <2> QED
    BY <1>3, <2>3
<1>5. Number = IF reader.number = 0 /\ bytes[1][1] = "down" THEN bytes[1][2] ELSE reader.number
  BY DEF Number
<1> HIDE DEF bytes
<1>6. bytes[1][1] = "down" => bytes[1][2] \in 1 .. Len(told)
  BY <1>4 DEF Byte, Unset
<1>7. Number \in 0 .. Len(told) /\ (reader.number # 0 => Number = reader.number)
  BY <1>1, <1>2, <1>5, <1>6 DEF StreamsTyped
<1>8. ASSUME Number # 0
      PROVE  told[Number] \in ServerMessage /\ reader.piece \in DOMAIN Ends[told[Number]]
  <2>1. told[Number] \in ServerMessage
    BY <1>1, <1>7, <1>8 DEF StreamsTyped
  <2>2. CASE reader.number = 0
    <3>1. Ends[told[Number]] \in Seq(Nat) /\ Ends[told[Number]] # <<>>
      BY <2>1, StreamsAssumption DEF StreamsAssumption
    <3> QED
      BY <1>1, <2>1, <2>2, <3>1 DEF ReaderTyped, Reader
  <2>3. CASE reader.number # 0
    BY <1>1, <1>7, <2>1, <2>3 DEF ReaderTyped, Reader
  <2> QED
    BY <2>2, <2>3
<1> QED
  BY <1>7, <1>8

\* What becomes of a piece: another one follows, the message is complete, or other
\* bytes stand in its place.
PieceFound ==
  Number # 0 /\ At(buf_tcp, read_idx_tcp, reader.already + reader.want) = PieceOf(Number, reader.piece)

PieceGoesOn ==
  /\ PieceFound \/ reader.number # 0
  /\ reader.piece < Len(Ends[told[Number]])
  /\ buf_len_tcp' = buf_len_tcp + (reader.already + reader.want)
  /\ read_idx_tcp' = read_idx_tcp + (reader.already + reader.want)
  /\ reader' = Asking(Number, reader.piece + 1, buf_len_tcp', 0, Asked(told[Number], reader.piece + 1))
  /\ UNCHANGED <<in_lobby, buf_udp, read>>

PieceEnds ==
  /\ PieceFound \/ reader.number # 0
  /\ reader.piece = Len(Ends[told[Number]])
  /\ Resolve(Number)

PieceAstray ==
  /\ ~ PieceFound
  /\ reader' = [reader EXCEPT !.phase = "astray"]
  /\ UNCHANGED <<in_lobby, buf_len_tcp, read_idx_tcp, buf_udp, read>>

LEMMA PieceReadMeans ==
  ASSUME PieceRead
  PROVE  /\ reader.phase = "given" /\ reader.got = reader.want
         /\ PieceGoesOn \/ PieceEnds \/ PieceAstray
         /\ UNCHANGED <<buf_tcp, drawn, pressed, input, told, down, called, up>>
BY DEF PieceRead, PieceGoesOn, PieceEnds, PieceAstray, PieceFound, Number

LEMMA PieceReadTyped ==
  ASSUME ConnectionTypeOK, PieceRead, UNCHANGED session
  PROVE  StreamsTyped' /\ SessionTyped' /\ ClientTyped'
<1>1. /\ reader.phase = "given" /\ reader.got = reader.want
      /\ PieceGoesOn \/ PieceEnds \/ PieceAstray
      /\ UNCHANGED <<buf_tcp, drawn, pressed, input, told, down, called, up>>
  BY PieceReadMeans
<1>2. StreamsTyped /\ SessionTyped /\ ClientTyped /\ ReaderTyped /\ SessionTyped' /\ Byte' = Byte
  BY <1>1, SessionStays
<1>3. /\ Number \in 0 .. Len(told)
      /\ reader.number # 0 => Number = reader.number
      /\ Number # 0 => told[Number] \in ServerMessage /\ reader.piece \in DOMAIN Ends[told[Number]]
  BY <1>1, NumberTyped
<1>4. PieceFound \/ reader.number # 0 => Number # 0
  BY <1>3 DEF PieceFound
<1>5. StreamsTyped'
  BY <1>1, <1>2 DEF StreamsTyped
<1>6. reader \in Reader /\ buf_len_tcp \in Nat /\ read_idx_tcp \in Nat /\ in_lobby \in BOOLEAN
  BY <1>2 DEF ReaderTyped, ClientTyped
<1>7. CASE PieceGoesOn
  <2>1. Number # 0
    BY <1>4, <1>7 DEF PieceGoesOn
  <2>2. /\ told[Number] \in ServerMessage /\ reader.piece \in DOMAIN Ends[told[Number]]
        /\ reader.piece + 1 \in DOMAIN Ends[told[Number]]
    BY <1>3, <1>7, <2>1, Pieces DEF PieceGoesOn
  <2>3. Asked(told[Number], reader.piece + 1) \in Nat \ {0}
    BY <2>2, AskedFor
  <2>4. reader.already \in Nat /\ reader.want \in Nat /\ reader.piece \in Nat
    BY <1>6 DEF Reader
  <2>5. buf_len_tcp' \in Nat /\ read_idx_tcp' \in Nat
    <3>1. reader.already + reader.want \in Nat
      BY <2>4
    <3> QED
      BY <1>6, <1>7, <3>1 DEF PieceGoesOn
  <2>6. reader' = [phase |-> "asked", number |-> Number, piece |-> reader.piece + 1,
                   already |-> 0, at |-> buf_len_tcp' + 0,
                   want |-> Asked(told[Number], reader.piece + 1) - 0, got |-> 0]
    BY <1>7 DEF PieceGoesOn, Asking
  <2>7. reader' \in Reader'
    <3>1. Number \in 0 .. Len(told') /\ reader.piece + 1 \in Nat \ {0} /\ buf_len_tcp' + 0 \in Nat
      <4>1. Len(told') = Len(told)
        BY <1>1
      <4>2. Number \in 0 .. Len(told')
        BY <1>3, <4>1
      <4>3. reader.piece + 1 \in Nat \ {0}
        BY <2>4
      <4>4. \A m \in Nat : m + 0 \in Nat
        OBVIOUS
      <4> QED
        BY <2>5, <4>2, <4>3, <4>4
    <3>2. Asked(told[Number], reader.piece + 1) - 0 \in Nat
      BY <2>3
    <3> QED
      BY <2>6, <3>1, <3>2 DEF Reader
  <2>8. ReaderTyped'
    BY <1>1, <2>1, <2>2, <2>6, <2>7 DEF ReaderTyped
  <2> QED
    BY <1>1, <1>2, <1>5, <1>7, <2>5, <2>8 DEF ClientTyped, PieceGoesOn
<1>8. CASE PieceEnds
  <2>1. Number \in 1 .. Len(told) /\ Resolve(Number)
    BY <1>2, <1>3, <1>4, <1>8 DEF PieceEnds, StreamsTyped
  <2>2. read' \in Seq(1 .. Len(told))
    BY <1>2, <2>1 DEF ClientTyped, Resolve
  <2>3. in_lobby' \in BOOLEAN
    BY <1>6, <2>1 DEF Resolve
  <2>4. CASE told[Number] = "GameStarted"
    <3>1. /\ reader' = [phase |-> "asked", number |-> 0, piece |-> 1, already |-> 0,
                        at |-> 0 + 0, want |-> 1 - 0, got |-> 0]
          /\ buf_len_tcp' = 0 /\ read_idx_tcp' = 0 /\ buf_udp' = buf_udp
      BY <2>1, <2>4 DEF Resolve, NextMessage, ClearBuffer, Asking
    <3>2. ReaderTyped'
      BY <1>1, <1>2, <3>1 DEF ReaderTyped, Reader, StreamsTyped
    <3> QED
      BY <1>1, <1>2, <1>5, <2>2, <2>3, <3>1, <3>2 DEF ClientTyped
  <2>5. CASE told[Number] # "GameStarted"
    <3>1. /\ reader' = [reader EXCEPT !.phase = "drawing", !.number = Number]
          /\ buf_len_tcp' = buf_len_tcp /\ read_idx_tcp' = read_idx_tcp
          /\ buf_udp' = <<"drawing", Number>>
      BY <2>1, <2>5 DEF Resolve
    <3>2. ReaderTyped'
      BY <1>1, <1>3, <1>6, <3>1 DEF ReaderTyped, Reader
    <3>3. buf_udp' \in {"drawing"} \X (1 .. Len(told))
      BY <2>1, <3>1
    <3> QED
      BY <1>1, <1>2, <1>5, <2>2, <2>3, <3>1, <3>2, <3>3 DEF ClientTyped
  <2> QED
    BY <2>4, <2>5
<1>9. CASE PieceAstray
  <2>1. ReaderTyped'
    BY <1>1, <1>6, <1>9 DEF ReaderTyped, Reader, PieceAstray
  <2> QED
    BY <1>1, <1>2, <1>5, <1>9, <2>1 DEF ClientTyped, PieceAstray
<1> QED
  BY <1>1, <1>7, <1>8, <1>9

LEMMA DrawingSentTyped ==
  ASSUME ConnectionTypeOK, DrawingSent, UNCHANGED session
  PROVE  StreamsTyped' /\ SessionTyped' /\ ClientTyped'
<1>1. StreamsTyped /\ SessionTyped /\ ClientTyped /\ ReaderTyped /\ SessionTyped' /\ Byte' = Byte
  BY SessionStays DEF DrawingSent
<1>2. ReaderTyped'
  BY <1>1 DEF ReaderTyped, Reader, DrawingSent
<1>3. (IF buf_udp[1] = "drawing" THEN buf_udp[2] ELSE 0) \in 0 .. Len(told)
  BY <1>1 DEF ClientTyped, StreamsTyped
<1>4. drawn' \in Seq(0 .. Len(told))
  BY <1>1, <1>3 DEF ClientTyped, DrawingSent
<1> QED
  BY <1>1, <1>2, <1>4 DEF StreamsTyped, ClientTyped, DrawingSent

LEMMA DrawingResumedTyped ==
  ASSUME ConnectionTypeOK, DrawingResumed, UNCHANGED session
  PROVE  StreamsTyped' /\ SessionTyped' /\ ClientTyped'
<1>1. StreamsTyped /\ SessionTyped /\ ClientTyped /\ ReaderTyped /\ SessionTyped' /\ Byte' = Byte
  BY SessionStays DEF DrawingResumed
<1>2. reader' = [phase |-> "asked", number |-> 0, piece |-> 1, already |-> 0,
                 at |-> 0 + 0, want |-> 1 - 0, got |-> 0]
  BY DEF DrawingResumed, NextMessage, Asking
<1>3. ReaderTyped'
  BY <1>1, <1>2 DEF ReaderTyped, Reader, StreamsTyped, DrawingResumed
<1> QED
  BY <1>1, <1>3 DEF StreamsTyped, ClientTyped, DrawingResumed, NextMessage, ClearBuffer

LEMMA InputArrivesTyped ==
  ASSUME ConnectionTypeOK, NEW kind \in Input, InputArrives(kind), UNCHANGED session
  PROVE  StreamsTyped' /\ SessionTyped' /\ ClientTyped'
<1>1. StreamsTyped /\ SessionTyped /\ ClientTyped /\ ReaderTyped /\ SessionTyped' /\ Byte' = Byte
  BY SessionStays DEF InputArrives
<1>2. /\ pressed' \in Seq(Input) /\ pressed' # <<>>
      /\ Len(pressed) \in Nat /\ Len(pressed') = Len(pressed) + 1
  <2>1. pressed \in Seq(Input) /\ pressed' = Append(pressed, kind)
    BY <1>1 DEF ClientTyped, InputArrives
  <2> QED
    BY <2>1, AppendProperties
<1>3. buf_udp' \in {"input"} \X (1 .. Len(pressed'))
  BY <1>2 DEF InputArrives
<1>4. ReaderTyped'
  BY <1>1 DEF ReaderTyped, Reader, InputArrives
<1>5. /\ input \in [phase : {"asked", "given", "sending", "sent"}, kind : Outgoing \cup {"none"}, taken : Nat]
      /\ input' = [input EXCEPT !.phase = "given"]
  BY <1>1 DEF ClientTyped, InputArrives
<1>6. /\ input' \in [phase : {"asked", "given", "sending", "sent"}, kind : Outgoing \cup {"none"}, taken : Nat]
      /\ input'.phase = "given"
  BY <1>5
<1> QED
  BY <1>1, <1>2, <1>3, <1>4, <1>6 DEF StreamsTyped, ClientTyped, InputArrives

\* Sending a message leaves the state typed, whatever else the buffer was used for.
LEMMA SendTyped ==
  ASSUME ConnectionTypeOK, NEW kind \in Outgoing, Send(kind), UNCHANGED session,
         UNCHANGED <<in_lobby, buf_udp, reader, read, drawn, pressed, told, down, up>>
  PROVE  StreamsTyped' /\ SessionTyped' /\ ClientTyped'
<1>1. StreamsTyped /\ SessionTyped /\ ClientTyped /\ ReaderTyped /\ Longer
  BY DEF ConnectionTypeOK, ClientTyped, Longer, Send
<1>2. Byte \subseteq Byte' /\ called' \in Seq(Outgoing)
  BY <1>1, BytesStay
<1>3. down' \in Seq(Byte') /\ up' \in Seq(Byte')
  BY <1>1, <1>2, SeqMonotonic DEF StreamsTyped
<1>4. StreamsTyped'
  BY <1>1, <1>2, <1>3 DEF StreamsTyped
<1>5. SessionTyped'
  BY <1>1, <1>3, SessionStaysTyped DEF StreamsTyped
<1>6. \A i \in Nat \ {0} : <<"up", Len(called) + 1, i>> \in Byte'
  <2>1. Len(called') = Len(called) + 1 /\ Len(called) \in Nat
    BY <1>1 DEF StreamsTyped, Send
  <2> QED
    BY <2>1 DEF Byte
<1>7. buf_tcp' \in [DOMAIN buf_tcp' -> Byte']
  <2>1. Bytes("up", Len(called) + 1, ClientMessage[kind]) \in Seq(Byte')
    BY <1>6, Lengths, BytesTyped
  <2>2. buf_tcp \in [DOMAIN buf_tcp -> Byte']
    BY <1>1, <1>2 DEF ClientTyped
  <2> QED
    BY <2>1, <2>2, Filled DEF Send
<1>8. ReaderTyped'
  BY <1>1 DEF ReaderTyped, Reader
<1>9. buf_len_tcp' \in Nat /\ read_idx_tcp' \in Nat
  BY Lengths DEF Send
<1>10. input' = [phase |-> "sending", kind |-> kind, taken |-> 0]
  BY DEF Send
<1> QED
  BY <1>1, <1>4, <1>5, <1>7, <1>8, <1>9, <1>10 DEF ClientTyped

\* An input is a message to be sent, but for what is none.
LEMMA InputSeenTyped ==
  ASSUME ConnectionTypeOK, input.phase = "given"
  PROVE  InputSeen \in Outgoing \cup {"Invalid"}
<1>1. /\ pressed \in Seq(Input) /\ pressed # <<>>
      /\ buf_udp \in {<<"unset", 0>>} \cup ({"drawing"} \X (1 .. Len(told)))
                                      \cup ({"input"} \X (1 .. Len(pressed)))
  BY DEF ConnectionTypeOK, ClientTyped
<1>2. buf_udp[1] = "input" => pressed[buf_udp[2]] \in Input
  BY <1>1
<1> QED
  BY <1>2 DEF InputSeen, Input, Outgoing

LEMMA InputReadTyped ==
  ASSUME ConnectionTypeOK, InputRead, UNCHANGED session
  PROVE  StreamsTyped' /\ SessionTyped' /\ ClientTyped'
<1>1. /\ input.phase = "given"
      /\ UNCHANGED <<in_lobby, buf_udp, reader, read, drawn, pressed, told, down, up>>
  BY DEF InputRead
<1>2. CASE InputSeen = "Invalid"
  <2>1. /\ input' = [phase |-> "asked", kind |-> "none", taken |-> 0]
        /\ UNCHANGED <<buf_tcp, buf_len_tcp, read_idx_tcp, called>>
    BY <1>2 DEF InputRead, AskInput
  <2>2. StreamsTyped /\ SessionTyped /\ ClientTyped /\ ReaderTyped /\ SessionTyped' /\ Byte' = Byte
    BY <1>1, <2>1, SessionStays
  <2>3. ReaderTyped'
    BY <1>1, <2>2 DEF ReaderTyped, Reader
  <2> QED
    BY <1>1, <2>1, <2>2, <2>3 DEF StreamsTyped, ClientTyped
<1>3. CASE InputSeen # "Invalid"
  <2>1. (IF in_lobby THEN "Join" ELSE InputSeen) \in Outgoing
    BY <1>1, <1>3, InputSeenTyped DEF Outgoing
  <2>2. Send(IF in_lobby THEN "Join" ELSE InputSeen)
    BY <1>3 DEF InputRead
  <2> QED
    BY <1>1, <2>1, <2>2, SendTyped
<1> QED
  BY <1>2, <1>3

LEMMA SendTakenTyped ==
  ASSUME ConnectionTypeOK, SendTaken, UNCHANGED session
  PROVE  StreamsTyped' /\ SessionTyped' /\ ClientTyped'
<1>1. /\ StreamsTyped /\ SessionTyped /\ ClientTyped /\ ReaderTyped /\ Longer
      /\ told' = told /\ called' = called /\ down' = down /\ Byte' = Byte
  BY DEF ConnectionTypeOK, ClientTyped, SendTaken, Longer, Byte
<1>2. PICK k \in 1 .. ClientMessage[input.kind] :
        /\ up' = up \o At(buf_tcp, 0, k)
        /\ input' = [input EXCEPT !.phase = "sent", !.taken = k]
  BY DEF SendTaken
<1>3. /\ input \in [phase : {"asked", "given", "sending", "sent"}, kind : Outgoing \cup {"none"}, taken : Nat]
      /\ input.kind \in Outgoing
  BY <1>1 DEF ClientTyped, SendTaken
<1>4. k \in Nat
  BY <1>3, Lengths
<1>5. At(buf_tcp, 0, k) \in Seq(Byte)
  <2>1. buf_tcp \in [DOMAIN buf_tcp -> Byte] /\ Unset \in Byte
    BY <1>1 DEF ClientTyped, Byte
  <2>2. \A at, n \in Nat : At(buf_tcp, at, n) \in Seq(Byte)
    BY <2>1, Found
  <2> QED
    BY <1>4, <2>2
<1>6. up \in Seq(Byte) /\ up' \in Seq(Byte') /\ Len(up) <= Len(up')
  BY <1>1, <1>2, <1>5 DEF StreamsTyped
<1>7. SessionTyped'
  BY <1>1, <1>6, SessionStaysTyped
<1>8. input' \in [phase : {"asked", "given", "sending", "sent"}, kind : Outgoing \cup {"none"}, taken : Nat]
  BY <1>2, <1>3, <1>4
<1>9. input'.phase = "sent" /\ input'.kind \in Outgoing
  BY <1>2, <1>3
<1>10. ReaderTyped'
  BY <1>1 DEF ReaderTyped, Reader, SendTaken
<1> QED
  BY <1>1, <1>6, <1>7, <1>8, <1>9, <1>10 DEF StreamsTyped, ClientTyped, SendTaken

LEMMA SendResumedTyped ==
  ASSUME ConnectionTypeOK, SendResumed, UNCHANGED session
  PROVE  StreamsTyped' /\ SessionTyped' /\ ClientTyped'
<1>1. UNCHANGED <<in_lobby, buf_udp, reader, read, drawn, pressed, told, down, up>>
  BY DEF SendResumed
<1>2. CASE input.kind # "Join" /\ in_lobby
  <2>1. Send("Join") /\ "Join" \in Outgoing
    BY <1>2 DEF SendResumed, Outgoing
  <2> QED
    BY <1>1, <2>1, SendTyped
<1>3. CASE ~ (input.kind # "Join" /\ in_lobby)
  <2>1. /\ input' = [phase |-> "asked", kind |-> "none", taken |-> 0]
        /\ buf_len_tcp' = 0 /\ read_idx_tcp' = 0
        /\ UNCHANGED <<buf_tcp, called>>
    BY <1>3 DEF SendResumed, AskInput, ClearBuffer
  <2>2. StreamsTyped /\ SessionTyped /\ ClientTyped /\ ReaderTyped /\ SessionTyped' /\ Byte' = Byte
    BY <1>1, <2>1, SessionStays
  <2>3. ReaderTyped'
    BY <1>1, <2>2 DEF ReaderTyped, Reader
  <2> QED
    BY <1>1, <2>1, <2>2, <2>3 DEF StreamsTyped, ClientTyped
<1> QED
  BY <1>2, <1>3

\* A step is one of a session or of the client, or none.
Step ==
  \/ /\ UNCHANGED client
     /\ \/ \E kind \in ServerMessage : SendToClient(kind)
        \/ SocketTakes \/ WriteGoesOn \/ ReadMessage \/ SocketGives \/ Receive
  \/ /\ UNCHANGED session
     /\ \/ ReaderTakes \/ ReadsOn \/ PieceRead \/ DrawingSent \/ DrawingResumed
        \/ \E kind \in Input : InputArrives(kind)
        \/ InputRead \/ SendTaken \/ SendResumed

LEMMA NextIsStep == ASSUME Next PROVE Step /\ "overflow" \notin overlaps
BY DEF Next, SessionNext, ClientNext, Step

\* The operations that meet after a step are noted with it.
LEMMA StepNotes ==
  ASSUME ConnectionTypeOK, SessionTyped', Next
  PROVE  overlaps \subseteq overlaps' /\ overlaps' \subseteq Kinds /\ Apart'
<1>0. SessionTyped'
  OBVIOUS
<1>1. overlaps' = overlaps \cup {kind \in Kinds : Overlaps(kind)'}
  BY DEF Next
<1>3. \A kind \in Kinds : Overlaps(kind)' => kind \in overlaps'
  BY <1>1
<1>4. Len(writes') + Len(resumed') > 1 => Overlaps("writes")'
  BY Zenon DEF Overlaps
<1>5. receive'.phase = "taken" /\ writes' \o resumed' # <<>> => Overlaps("receive")'
  BY Zenon DEF Overlaps
<1>6. input'.phase \in {"sending", "sent"} /\ MidMessage' => Overlaps("sends")'
  BY Zenon DEF Overlaps
<1>7. reader'.phase = "drawing" /\ input'.phase = "given" => Overlaps("inputs")'
  BY Zenon DEF Overlaps
<1>8. /\ input'.phase = "sent" /\ input'.taken < ClientMessage[input'.kind] => Overlaps("short")'
      /\ receive'.phase = "taken" /\ receive'.len < ClientMessage[called'[1]] => Overlaps("short")'
  BY Zenon DEF Overlaps
<1>9. "writes" \notin overlaps' => Len(writes') + Len(resumed') <= 1
  <2>1. Len(writes') \in Nat /\ Len(resumed') \in Nat
    BY <1>0 DEF SessionTyped
  <2>2. ~ (Len(writes') + Len(resumed') > 1) => Len(writes') + Len(resumed') <= 1
    BY <2>1
  <2> QED
    BY <1>3, <1>4, <2>2 DEF Kinds
<1>10. "receive" \notin overlaps' => ~ (receive'.phase = "taken" /\ writes' \o resumed' # <<>>)
  BY Zenon, <1>3, <1>5 DEF Kinds
<1>11. "sends" \notin overlaps' => ~ (input'.phase \in {"sending", "sent"} /\ MidMessage')
  BY Zenon, <1>3, <1>6 DEF Kinds
<1>12. "inputs" \notin overlaps' => ~ (reader'.phase = "drawing" /\ input'.phase = "given")
  BY Zenon, <1>3, <1>7 DEF Kinds
<1>13. "short" \notin overlaps' =>
         /\ input'.phase = "sent" => ~ (input'.taken < ClientMessage[input'.kind])
         /\ receive'.phase = "taken" => ~ (receive'.len < ClientMessage[called'[1]])
  BY Zenon, <1>3, <1>8 DEF Kinds
<1>14. reader'.phase = "given" /\ reader'.at + reader'.got > BuffSize => Overlaps("overflow")'
  BY Zenon DEF Overlaps
<1>15. "overflow" \notin overlaps' => ~ (reader'.phase = "given" /\ reader'.at + reader'.got > BuffSize)
  BY Zenon, <1>3, <1>14 DEF Kinds
<1>16. Apart'
  BY <1>9, <1>10, <1>11, <1>12, <1>13, <1>15 DEF Apart
<1> QED
  BY <1>1, <1>16 DEF ConnectionTypeOK

(***************************************************************************)
(* Every step leaves the two buffers, their indices and all operations     *)
(* what they are: whatever meets in a buffer, it holds bytes of messages   *)
(* that were sent, and the client knows no message that was not.           *)
(***************************************************************************)
LEMMA TypeStep ==
  ASSUME ConnectionTypeOK, [Next]_vars
  PROVE  ConnectionTypeOK'
<1>1. CASE Next
  <2>1. StreamsTyped' /\ SessionTyped' /\ ClientTyped'
    BY <1>1, NextIsStep, SendToClientTyped, SocketTakesTyped, WriteGoesOnTyped, ReadMessageTyped,
       SocketGivesTyped, ReceiveTyped, ReaderTakesTyped, ReadsOnTyped, PieceReadTyped,
       DrawingSentTyped, DrawingResumedTyped, InputArrivesTyped, InputReadTyped, SendTakenTyped,
       SendResumedTyped DEF Step
  <2> QED
    BY <1>1, <2>1, StepNotes DEF ConnectionTypeOK
<1>2. CASE UNCHANGED vars
  <2>1. UNCHANGED <<session, client>> /\ UNCHANGED <<told, down, called, up, overlaps>>
    BY <1>2 DEF vars
  <2>2. StreamsTyped'
    BY <2>1 DEF ConnectionTypeOK, StreamsTyped, Byte
  <2>3. SessionTyped'
    BY <2>1 DEF ConnectionTypeOK, SessionTyped, session, Byte, Write
  <2>4. ClientTyped'
    BY <2>1, ClientStaysTyped DEF ConnectionTypeOK, Longer
  <2> QED
    BY <2>1, <2>2, <2>3, <2>4 DEF ConnectionTypeOK
<1> QED
  BY <1>1, <1>2

LEMMA TypeInit == ASSUME ConnectionInit PROVE ConnectionTypeOK
<1>1. StreamsTyped
  BY DEF ConnectionInit, StreamsTyped
<1>2. SessionTyped
  BY DEF ConnectionInit, SessionInit, SessionTyped, NoReceive
<1>3. ClientTyped
  <2>1. reader = [phase |-> "asked", number |-> 0, piece |-> 1, already |-> 0,
                  at |-> 0 + 0, want |-> 1 - 0, got |-> 0]
    BY DEF ConnectionInit, ClientInit, Asking
  <2>2. ReaderTyped
    BY <1>1, <2>1 DEF ReaderTyped, Reader, StreamsTyped
  <2> QED
    BY <2>2 DEF ConnectionInit, ClientInit, ClientTyped, AskInput
<1> QED
  BY <1>1, <1>2, <1>3 DEF ConnectionTypeOK, ConnectionInit

---------------------------------------------------------------------------
(* Streams that go on byte by byte.                                        *)

Place == {"unset", "down", "up"} \X Nat \X Nat

LEMMA BytesArePlaces ==
  ASSUME StreamsTyped
  PROVE  /\ Byte \subseteq Place
         /\ down \in Seq(Place) /\ up \in Seq(Place)
<1>1. Byte \subseteq Place
  <2>1. Unset \in Place
    BY DEF Unset, Place
  <2>2. 1 .. Len(told) \subseteq Nat /\ 1 .. Len(called) \subseteq Nat
    BY DEF StreamsTyped
  <2>3. {"down"} \X (1 .. Len(told)) \X (Nat \ {0}) \subseteq Place
    BY <2>2 DEF Place
  <2>4. {"up"} \X (1 .. Len(called)) \X (Nat \ {0}) \subseteq Place
    BY <2>2 DEF Place
  <2> QED
    BY <2>1, <2>3, <2>4 DEF Byte
<1> QED
  BY <1>1, SeqMonotonic DEF StreamsTyped

\* What comes after a byte may be looked for in two strides.
LEMMA TwoStrides ==
  ASSUME NEW way, NEW sizes, \A m \in DOMAIN sizes : sizes[m] \in Nat,
         NEW b, NEW c, NEW e, NEW d1 \in Nat \ {0}, NEW d2 \in Nat \ {0},
         GoesOn(b, c, d1, way, sizes), GoesOn(c, e, d2, way, sizes)
  PROVE  GoesOn(b, e, d1 + d2, way, sizes)
<1> DEFINE n == b[2]
           q == b[3]
<1>1. /\ n \in DOMAIN sizes /\ q \in 1 .. sizes[n] /\ b = <<way, n, q>>
      /\ q + d1 <= sizes[n] => c = <<way, n, q + d1>>
      /\ q + d1 = sizes[n] + 1 => c = <<way, n + 1, 1>>
  BY DEF GoesOn
<1>2. /\ c[3] + d2 <= sizes[c[2]] => e = <<way, c[2], c[3] + d2>>
      /\ c[3] + d2 = sizes[c[2]] + 1 => e = <<way, c[2] + 1, 1>>
  BY DEF GoesOn
<1>3. sizes[n] \in Nat /\ q \in Nat
  BY <1>1
<1> HIDE DEF n, q
<1>4. ASSUME q + (d1 + d2) <= sizes[n] \/ q + (d1 + d2) = sizes[n] + 1
      PROVE  c[2] = n /\ c[3] = q + d1 /\ c[3] + d2 = q + (d1 + d2)
  <2>1. q + d1 <= sizes[n]
    BY <1>3, <1>4
  <2>2. c = <<way, n, q + d1>>
    BY <1>1, <2>1
  <2> QED
    BY <1>3, <2>2
<1>5. /\ q + (d1 + d2) <= sizes[n] => e = <<way, n, q + (d1 + d2)>>
      /\ q + (d1 + d2) = sizes[n] + 1 => e = <<way, n + 1, 1>>
  BY <1>2, <1>4
<1> QED
  BY <1>1, <1>5 DEF GoesOn, n, q

LEMMA AfterGoesOn ==
  ASSUME NEW way, NEW sizes, NEW n \in DOMAIN sizes, sizes[n] \in Nat,
         NEW q \in 1 .. sizes[n], NEW r \in q .. sizes[n]
  PROVE  GoesOn(<<way, n, q>>, After(n, r, way, sizes), r + 1 - q, way, sizes)
<1>1. q + (r + 1 - q) = r + 1 /\ sizes[n] # sizes[n] + 1
  OBVIOUS
<1>2. /\ r + 1 <= sizes[n] => After(n, r, way, sizes) = <<way, n, r + 1>>
      /\ r + 1 = sizes[n] + 1 => After(n, r, way, sizes) = <<way, n + 1, 1>>
  BY DEF After
<1> QED
  BY <1>1, <1>2 DEF GoesOn

\* One sequence after another, and one element more.
LEMMA Joined ==
  ASSUME NEW S, NEW s \in Seq(S), NEW t \in Seq(S), NEW e \in S
  PROVE  /\ Len(s) \in Nat /\ Len(t) \in Nat
         /\ DOMAIN Append(s \o t, e) = 1 .. (Len(s) + Len(t) + 1)
         /\ \A i \in 1 .. Len(s) : Append(s \o t, e)[i] = s[i]
         /\ \A m \in 1 .. Len(t) : Append(s \o t, e)[Len(s) + m] = t[m]
         /\ Append(s \o t, e)[Len(s) + Len(t) + 1] = e
<1>1. Len(s) \in Nat /\ Len(t) \in Nat
  BY LenProperties
<1>2. /\ s \o t \in Seq(S) /\ Len(s \o t) = Len(s) + Len(t)
      /\ \A i \in 1 .. Len(s) + Len(t) : (s \o t)[i] = IF i <= Len(s) THEN s[i] ELSE t[i - Len(s)]
  BY ConcatProperties
<1>3. /\ Append(s \o t, e) \in Seq(S) /\ Len(Append(s \o t, e)) = Len(s) + Len(t) + 1
      /\ \A i \in 1 .. Len(s) + Len(t) : Append(s \o t, e)[i] = (s \o t)[i]
      /\ Append(s \o t, e)[Len(s) + Len(t) + 1] = e
  BY <1>2, AppendProperties
<1>4. \A i \in 1 .. Len(s) : Append(s \o t, e)[i] = s[i]
  BY <1>1, <1>2, <1>3
<1>5. \A m \in 1 .. Len(t) :
        Len(s) + m \in 1 .. Len(s) + Len(t) /\ ~ (Len(s) + m <= Len(s)) /\ (Len(s) + m) - Len(s) = m
  BY <1>1
<1>6. \A m \in 1 .. Len(t) : Append(s \o t, e)[Len(s) + m] = t[m]
  BY <1>2, <1>3, <1>5
<1> QED
  BY <1>1, <1>3, <1>4, <1>6

\* Bytes are written from where the stream had got to, the first p bytes of message n.
LEMMA FollowsGrows ==
  ASSUME NEW way, NEW sizes, \A m \in DOMAIN sizes : sizes[m] \in Nat,
         NEW stream \in Seq(Place), NEW bytes \in Seq(Place), bytes # <<>>,
         NEW n \in DOMAIN sizes, NEW p \in Nat,
         \A i \in 1 .. Len(bytes) : bytes[i] = <<way, n, p + i>>,
         p + Len(bytes) <= sizes[n],
         <<way, n, p + 1>> \in Place, After(n, p + Len(bytes), way, sizes) \in Place,
         Follows(Append(stream, <<way, n, p + 1>>), way, sizes)
  PROVE  Follows(Append(stream \o bytes, After(n, p + Len(bytes), way, sizes)), way, sizes)
<1> DEFINE L == Len(stream)
           k == Len(bytes)
           N == sizes[n]
           next == After(n, p + k, way, sizes)
           old == Append(stream, <<way, n, p + 1>>)
           new == Append(stream \o bytes, next)
<1>1. L \in Nat /\ k \in Nat \ {0} /\ N \in Nat /\ p + k <= N
  BY LenProperties, EmptySeq
<1>2. /\ DOMAIN new = 1 .. (L + k + 1)
      /\ \A i \in 1 .. L : new[i] = stream[i]
      /\ \A m \in 1 .. k : new[L + m] = bytes[m]
      /\ new[L + k + 1] = next
  BY Joined
<1>3. /\ DOMAIN old = 1 .. (L + 1)
      /\ \A i \in 1 .. L : old[i] = stream[i]
      /\ old[L + 1] = <<way, n, p + 1>>
  BY LenProperties, AppendProperties
<1>4. \A m \in 1 .. k : new[L + m] = <<way, n, p + m>>
  BY <1>2
<1>5. \A i, j \in 1 .. (L + 1) : i < j => GoesOn(old[i], old[j], j - i, way, sizes)
  BY <1>3 DEF Follows
<1> HIDE DEF L, k, N, next, old, new
<1>6. \A m \in 2 .. (k + 1) : new[L + m] = After(n, p + m - 1, way, sizes)
  <2> SUFFICES ASSUME NEW m \in 2 .. (k + 1)
               PROVE  new[L + m] = After(n, p + m - 1, way, sizes)
    OBVIOUS
  <2>1. CASE m = k + 1
    <3>1. L + m = L + k + 1 /\ p + m - 1 = p + k
      BY <1>1, <2>1
    <3> QED
      BY <1>2, <3>1 DEF next
  <2>2. CASE m # k + 1
    <3>1. m \in 1 .. k /\ p + m - 1 # N /\ p + m - 1 + 1 = p + m
      BY <1>1, <2>2
    <3> QED
      BY <1>4, <3>1 DEF After, N
  <2> QED
    BY <2>1, <2>2
<1>7. \A a \in 1 .. k, b \in 2 .. (k + 1) : a < b => GoesOn(new[L + a], new[L + b], b - a, way, sizes)
  <2> SUFFICES ASSUME NEW a \in 1 .. k, NEW b \in 2 .. (k + 1), a < b
               PROVE  GoesOn(new[L + a], new[L + b], b - a, way, sizes)
    OBVIOUS
  <2>1. p + a \in 1 .. N /\ p + b - 1 \in (p + a) .. N /\ (p + b - 1) + 1 - (p + a) = b - a
    BY <1>1
  <2>2. GoesOn(<<way, n, p + a>>, After(n, p + b - 1, way, sizes), (p + b - 1) + 1 - (p + a), way, sizes)
    BY <1>1, <2>1, AfterGoesOn DEF N
  <2> QED
    BY <1>4, <1>6, <2>1, <2>2
<1>8. \A i \in 1 .. L : /\ \A j \in 1 .. L : i < j => GoesOn(new[i], new[j], j - i, way, sizes)
                       /\ GoesOn(new[i], new[L + 1], L + 1 - i, way, sizes)
  <2> SUFFICES ASSUME NEW i \in 1 .. L
               PROVE  /\ \A j \in 1 .. L : i < j => GoesOn(new[i], new[j], j - i, way, sizes)
                      /\ GoesOn(new[i], new[L + 1], L + 1 - i, way, sizes)
    OBVIOUS
  <2>1. i \in 1 .. (L + 1) /\ L + 1 \in 1 .. (L + 1) /\ i < L + 1 /\ 1 \in 1 .. k
    BY <1>1
  <2>2. \A j \in 1 .. L : j \in 1 .. (L + 1) /\ new[j] = old[j]
    BY <1>1, <1>2, <1>3
  <2>3. new[L + 1] = old[L + 1] /\ new[i] = old[i]
    BY <1>3, <1>4, <2>1, <2>2
  <2>4. GoesOn(new[i], new[L + 1], L + 1 - i, way, sizes)
    <3>1. GoesOn(old[i], old[L + 1], (L + 1) - i, way, sizes)
      BY <1>5, <2>1
    <3> QED
      BY <1>1, <2>3, <3>1
  <2>5. ASSUME NEW j \in 1 .. L, i < j
        PROVE  GoesOn(new[i], new[j], j - i, way, sizes)
    BY <1>5, <2>1, <2>2, <2>5
  <2> QED
    BY <2>4, <2>5
<1>9. ASSUME NEW i \in DOMAIN new, NEW j \in DOMAIN new, i < j
      PROVE  GoesOn(new[i], new[j], j - i, way, sizes)
  <2>1. i \in 1 .. (L + k) /\ j \in 1 .. (L + k + 1)
    BY <1>1, <1>2, <1>9
  <2>2. CASE j <= L
    <3>1. i \in 1 .. L /\ j \in 1 .. L
      BY <1>1, <1>9, <2>1, <2>2
    <3> QED
      BY <1>8, <1>9, <3>1
  <2>3. CASE i <= L /\ j = L + 1
    <3>1. i \in 1 .. L
      BY <1>1, <2>1, <2>3
    <3>2. GoesOn(new[i], new[L + 1], L + 1 - i, way, sizes)
      BY <1>8, <3>1
    <3>3. L + 1 - i = j - i
      BY <1>1, <2>1, <2>3
    <3> QED
      BY <1>1, <2>1, <2>3, <3>2, <3>3
  <2>4. CASE i <= L /\ j > L + 1
    <3> DEFINE d1 == L + 1 - i
               d2 == (j - L) - 1
    <3>1. /\ i \in 1 .. L /\ 1 \in 1 .. k /\ j - L \in 2 .. (k + 1)
          /\ d1 \in Nat \ {0} /\ d2 \in Nat \ {0} /\ 1 < j - L
      <4>1. i \in Nat \ {0} /\ j \in Nat /\ j <= L + k + 1
        BY <1>1, <2>1
      <4>2. i \in 1 .. L /\ 1 \in 1 .. k /\ d1 \in Nat \ {0}
        BY <1>1, <2>4, <4>1
      <4>3. L + 2 <= j
        BY <1>1, <2>4, <4>1
      <4>4. j - L \in 2 .. (k + 1)
        BY <1>1, <4>1, <4>3
      <4>5. d2 \in Nat \ {0} /\ 1 < j - L
        BY <4>4
      <4> QED
        BY <4>2, <4>4, <4>5
    <3>0. L + (j - L) = j /\ d1 + d2 = j - i
      BY <1>1, <2>1
    <3>2. GoesOn(new[i], new[L + 1], d1, way, sizes)
      BY <1>8, <3>1
    <3>3. GoesOn(new[L + 1], new[j], d2, way, sizes)
      <4>1. GoesOn(new[L + 1], new[L + (j - L)], (j - L) - 1, way, sizes)
        BY <1>7, <3>1
      <4> QED
        BY <3>0, <4>1
    <3> HIDE DEF d1, d2
    <3>4. GoesOn(new[i], new[j], d1 + d2, way, sizes)
      BY <3>1, <3>2, <3>3, TwoStrides
    <3> QED
      BY <3>0, <3>4
  <2>5. CASE i > L
    <3>0. i \in Nat /\ j \in Nat /\ i <= L + k /\ j <= L + k + 1
      BY <1>1, <2>1
    <3>1. i - L \in 1 .. k /\ j - L \in 2 .. (k + 1) /\ i - L < j - L
      BY <1>1, <1>9, <2>5, <3>0
    <3>2. L + (i - L) = i /\ L + (j - L) = j /\ (j - L) - (i - L) = j - i
      BY <1>1, <2>1
    <3>3. GoesOn(new[L + (i - L)], new[L + (j - L)], (j - L) - (i - L), way, sizes)
      BY <1>7, <3>1
    <3> QED
      BY <3>2, <3>3
  <2> QED
    BY <1>1, <2>1, <2>2, <2>3, <2>4, <2>5
<1> QED
  BY <1>9 DEF Follows, new, next, k

\* Bytes are taken from the front.
LEMMA FollowsShrinks ==
  ASSUME NEW way, NEW sizes, NEW stream \in Seq(Place), NEW next \in Place,
         NEW k \in 0 .. Len(stream),
         Follows(Append(stream, next), way, sizes)
  PROVE  /\ Follows(Append(SubSeq(stream, k + 1, Len(stream)), next), way, sizes)
         /\ Append(SubSeq(stream, k + 1, Len(stream)), next)[1] = Append(stream, next)[k + 1]
<1> DEFINE L == Len(stream)
           rest == SubSeq(stream, k + 1, L)
           old == Append(stream, next)
           new == Append(rest, next)
<1>1. L \in Nat /\ k \in 0 .. L
  BY LenProperties
<1>2. /\ rest \in Seq(Place) /\ Len(rest) = L - k
      /\ \A i \in 1 .. (L - k) : rest[i] = stream[k + i]
  BY <1>1
<1>3. /\ DOMAIN old = 1 .. (L + 1)
      /\ \A i \in 1 .. L : old[i] = stream[i]
      /\ old[L + 1] = next
  BY <1>1, AppendProperties
<1>4. /\ DOMAIN new = 1 .. (L - k + 1)
      /\ \A i \in 1 .. (L - k) : new[i] = rest[i]
      /\ new[L - k + 1] = next
  BY <1>1, <1>2, AppendProperties
<1>5. \A i, j \in 1 .. (L + 1) : i < j => GoesOn(old[i], old[j], j - i, way, sizes)
  BY <1>3 DEF Follows
<1> HIDE DEF L, rest, old, new
<1>6. \A i \in 1 .. (L - k + 1) : k + i \in 1 .. (L + 1) /\ new[i] = old[k + i]
  <2> SUFFICES ASSUME NEW i \in 1 .. (L - k + 1)
               PROVE  k + i \in 1 .. (L + 1) /\ new[i] = old[k + i]
    OBVIOUS
  <2>1. CASE i = L - k + 1
    <3>1. k + i = L + 1
      BY <1>1, <2>1
    <3> QED
      BY <1>1, <1>3, <1>4, <2>1, <3>1
  <2>2. CASE i # L - k + 1
    <3>1. i \in 1 .. (L - k) /\ k + i \in 1 .. L /\ k + i \in 1 .. (L + 1)
      BY <1>1, <2>2
    <3> QED
      BY <1>2, <1>3, <1>4, <3>1
  <2> QED
    BY <2>1, <2>2
<1>7. \A i, j \in 1 .. (L - k + 1) : (k + j) - (k + i) = j - i /\ (i < j => k + i < k + j)
  BY <1>1
<1>8. \A i, j \in 1 .. (L - k + 1) : i < j => GoesOn(new[i], new[j], j - i, way, sizes)
  <2> SUFFICES ASSUME NEW i \in 1 .. (L - k + 1), NEW j \in 1 .. (L - k + 1), i < j
               PROVE  GoesOn(new[i], new[j], j - i, way, sizes)
    OBVIOUS
  <2>1. k + i \in 1 .. (L + 1) /\ k + j \in 1 .. (L + 1) /\ k + i < k + j /\ (k + j) - (k + i) = j - i
    BY <1>6, <1>7
  <2>2. GoesOn(old[k + i], old[k + j], (k + j) - (k + i), way, sizes)
    BY <1>5, <2>1
  <2> QED
    BY <1>6, <2>1, <2>2
<1>9. new[1] = old[k + 1]
  BY <1>1, <1>6
<1> QED
  BY <1>4, <1>8, <1>9 DEF Follows, rest, old, new, L

\* More messages are known.
LEMMA FollowsKnown ==
  ASSUME NEW way, NEW stream, NEW sizes, NEW more,
         \A n \in DOMAIN sizes : n \in DOMAIN more /\ more[n] = sizes[n],
         Follows(stream, way, sizes)
  PROVE  Follows(stream, way, more)
BY DEF Follows, GoesOn

---------------------------------------------------------------------------
(* The session's writes.                                                   *)

LEMMA DownSizesTyped ==
  ASSUME StreamsTyped
  PROVE  /\ DOMAIN DownSizes = 1 .. Len(told) /\ Len(told) \in Nat
         /\ \A n \in 1 .. Len(told) : DownSizes[n] = Length(told[n]) /\ DownSizes[n] \in Nat \ {0}
BY Lengths DEF StreamsTyped, DownSizes

\* The state of an unfinished write.
LEMMA WritingTyped ==
  ASSUME ConnectionTypeOK, OneWrite
  PROVE  /\ Writing \in Place
         /\ writes # <<>> => /\ writes[1] \in Write /\ WriteSound(writes[1]) /\ resumed = <<>>
                             /\ Writing = <<"down", Len(told), writes[1].at + 1>>
         /\ resumed # <<>> => /\ resumed[1] \in Write /\ WriteSound(resumed[1]) /\ writes = <<>>
                              /\ Writing = <<"down", Len(told), resumed[1].at + 1>>
         /\ writes = <<>> /\ resumed = <<>> => Writing = <<"down", Len(told) + 1, 1>>
<1>1. writes \in Seq(Write) /\ resumed \in Seq(Write) /\ Len(told) \in Nat
  BY DEF ConnectionTypeOK, SessionTyped, StreamsTyped
<1>2. Len(writes) \in Nat /\ Len(resumed) \in Nat /\ Len(writes) + Len(resumed) <= 1
  BY <1>1 DEF OneWrite
<1>3. writes # <<>> => writes[1] \in Write /\ 1 \in DOMAIN writes /\ resumed = <<>>
  BY <1>1, <1>2
<1>4. resumed # <<>> => resumed[1] \in Write /\ 1 \in DOMAIN resumed /\ writes = <<>>
  BY <1>1, <1>2
<1>5. /\ writes # <<>> => WriteSound(writes[1])
      /\ resumed # <<>> => WriteSound(resumed[1])
  BY <1>3, <1>4 DEF OneWrite
<1>6. /\ writes # <<>> => Writing = <<"down", Len(told), writes[1].at + 1>>
      /\ resumed # <<>> => Writing = <<"down", Len(told), resumed[1].at + 1>>
      /\ writes = <<>> /\ resumed = <<>> => Writing = <<"down", Len(told) + 1, 1>>
  BY <1>3, <1>4 DEF Writing
<1>7. Writing \in Place
  <2>1. writes # <<>> => writes[1].at + 1 \in Nat
    BY <1>3 DEF Write
  <2>2. resumed # <<>> => resumed[1].at + 1 \in Nat
    BY <1>4 DEF Write
  <2>3. Len(told) + 1 \in Nat
    BY <1>1
  <2> QED
    BY <1>1, <1>6, <2>1, <2>2, <2>3 DEF Place
<1> QED
  BY <1>3, <1>4, <1>5, <1>6, <1>7

\* A message is given to a write of its own, and is in the buffer.
LEMMA SendToClientDown ==
  ASSUME ConnectionTypeOK, NEW kind \in ServerMessage, SendToClient(kind), UNCHANGED client,
         Len(writes') + Len(resumed') <= 1, OneWrite
  PROVE  OneWrite' /\ Writing' = Writing
<1>1. StreamsTyped /\ SessionTyped /\ Longer
  BY DEF ConnectionTypeOK, SendToClient, Longer
<1>2. writes \in Seq(Write) /\ resumed \in Seq(Write)
  BY <1>1 DEF SessionTyped
<1>3. writes = <<>> /\ resumed = <<>>
  <2>1. Len(writes') = Len(writes) + 1 /\ resumed' = resumed
    BY <1>2 DEF SendToClient
  <2> QED
    BY <1>2, <2>1
<1>4. /\ writes' = <<[at |-> 0, left |-> Length(kind)]>> /\ resumed' = <<>> /\ down' = down
      /\ buffer' = Fill(buffer, 0, Bytes("down", Len(told) + 1, Length(kind)))
  BY <1>3 DEF SendToClient
<1>5. /\ told' = Append(told, kind) /\ Len(told') = Len(told) + 1 /\ Len(told) \in Nat
      /\ told'[Len(told')] = kind /\ told' # <<>>
  BY <1>1, AppendProperties DEF SendToClient, StreamsTyped
<1>6. Length(kind) \in Nat \ {0}
  BY Lengths
<1>7. Writing = <<"down", Len(told) + 1, 1>> /\ Writing' = <<"down", Len(told) + 1, 1>>
  <2>1. writes' # <<>> /\ writes'[1].at + 1 = 1
    BY <1>4
  <2> QED
    BY <1>3, <1>5, <2>1 DEF Writing
<1>8. WriteSound(writes[1])'
  <2>1. \A i \in Nat \ {0} : <<"down", Len(told) + 1, i>> \in Byte'
    BY <1>5 DEF Byte
  <2>2. /\ Bytes("down", Len(told) + 1, Length(kind)) \in Seq(Byte')
        /\ Len(Bytes("down", Len(told) + 1, Length(kind))) = Length(kind)
        /\ \A i \in 1 .. Length(kind) : Bytes("down", Len(told) + 1, Length(kind))[i] = <<"down", Len(told) + 1, i>>
    BY <1>6, <2>1, BytesTyped
  <2>3. buffer \in [DOMAIN buffer -> Byte']
    BY <1>1, BytesStay DEF SessionTyped
  <2>4. \A a \in 0 .. (Length(kind) - 1) : a \in DOMAIN buffer' /\ buffer'[a] = <<"down", Len(told) + 1, a + 1>>
    <3>1. Unset \in Byte'
      BY DEF Byte
    <3>2. \A a \in 0 .. (Length(kind) - 1) :
            a \in DOMAIN buffer' /\ buffer'[a] = Bytes("down", Len(told) + 1, Length(kind))[a + 1]
      BY <1>4, <2>2, <2>3, <3>1, AtStart
    <3>3. \A a \in 0 .. (Length(kind) - 1) : a + 1 \in 1 .. Length(kind)
      BY <1>6
    <3> QED
      BY <2>2, <3>2, <3>3
  <2>5. \A a \in 0 .. (0 + Length(kind) - 1) : a \in DOMAIN buffer' /\ buffer'[a] = <<"down", Len(told'), a + 1>>
    BY <1>5, <1>6, <2>4
  <2>6. writes'[1].at = 0 /\ writes'[1].left = Length(kind)
    BY <1>4
  <2> QED
    BY <1>5, <1>6, <2>5, <2>6 DEF WriteSound
<1>9. Follows(Append(down', Writing'), "down", DownSizes')
  <2>1. Follows(Append(down, Writing), "down", DownSizes)
    BY DEF OneWrite
  <2>2. \A n \in DOMAIN DownSizes : n \in DOMAIN DownSizes' /\ DownSizes'[n] = DownSizes[n]
    BY <1>1, <1>5, BytesStay DEF DownSizes
  <2> QED
    BY <1>4, <1>7, <2>1, <2>2, FollowsKnown
<1>10. \A i \in DOMAIN writes' : WriteSound(writes[i])'
  BY <1>4, <1>8
<1> QED
  BY <1>4, <1>7, <1>9, <1>10 DEF OneWrite

\* The socket takes the bytes that come next, whatever part of the message they are.
LEMMA SocketTakesDown ==
  ASSUME ConnectionTypeOK, SocketTakes, UNCHANGED client, OneWrite
  PROVE  OneWrite' /\ Append(down', Writing')[1] = Append(down, Writing)[1]
<1>1. /\ StreamsTyped /\ SessionTyped /\ down \in Seq(Place)
      /\ told' = told /\ buffer' = buffer /\ writes # <<>> /\ writes' = Tail(writes)
  BY BytesArePlaces DEF ConnectionTypeOK, SocketTakes
<1>0. writes' = <<>>
  <2>1. writes \in Seq(Write) /\ resumed = <<>>
    BY <1>1, WritingTyped DEF SessionTyped
  <2>2. Len(writes) \in Nat /\ Len(writes) # 0 /\ Len(resumed) \in Nat
    BY <1>1, <2>1, EmptySeq
  <2>3. Len(writes) + Len(resumed) <= 1
    BY DEF OneWrite
  <2>4. Len(writes) = 1
    <3>1. \A i, j \in Nat : i # 0 /\ i + j <= 1 => i = 1
      OBVIOUS
    <3> QED
      BY <2>2, <2>3, <3>1, Zenon
  <2>5. Tail(writes) \in Seq(Write) /\ Len(Tail(writes)) = 0
    BY <1>1, <2>1, <2>4, HeadTailProperties
  <2> QED
    BY <1>1, <2>5, EmptySeq
<1> DEFINE w == writes[1]
           N == Len(told)
<1>2. w \in Write /\ WriteSound(w) /\ resumed = <<>> /\ Writing = <<"down", N, w.at + 1>> /\ Writing \in Place
  BY <1>1, WritingTyped
<1>3. PICK k \in 1 .. w.left :
        /\ down' = down \o At(buffer, w.at, k)
        /\ resumed' = IF k = w.left THEN resumed
                      ELSE Append(resumed, [at |-> w.at + k, left |-> w.left - k])
  BY DEF SocketTakes
<1> DEFINE bytes == At(buffer, w.at, k)
           rest == [at |-> w.at + k, left |-> w.left - k]
<1>4. /\ w.at \in Nat /\ w.left \in Nat \ {0} /\ k \in Nat \ {0} /\ w.at + k <= w.at + w.left
      /\ N \in DOMAIN DownSizes /\ DownSizes[N] = w.at + w.left /\ N \in Nat
  <2>1. w.at \in Nat /\ w.left \in Nat \ {0}
    BY <1>2 DEF Write
  <2>2. told # <<>> /\ w.at + w.left = Length(told[N])
    BY <1>2 DEF WriteSound
  <2>3. N \in 1 .. Len(told) /\ N \in Nat
    BY <1>1, <2>2 DEF StreamsTyped
  <2>4. N \in DOMAIN DownSizes /\ DownSizes[N] = w.at + w.left
    BY <1>1, <2>2, <2>3, DownSizesTyped
  <2> QED
    BY <2>1, <2>3, <2>4
<1>5. /\ bytes \in Seq(Place) /\ Len(bytes) = k /\ bytes # <<>>
      /\ \A i \in 1 .. k : bytes[i] = <<"down", N, w.at + i>>
  <2>1. Unset \in Byte /\ buffer \in [DOMAIN buffer -> Byte]
    BY <1>1 DEF SessionTyped, Byte
  <2>2. /\ bytes \in Seq(Byte) /\ Len(bytes) = k
        /\ \A i \in 1 .. k : w.at + i - 1 \in DOMAIN buffer => bytes[i] = buffer[w.at + i - 1]
    BY <1>4, <2>1, Found
  <2>3. \A i \in 1 .. k : w.at + i - 1 \in w.at .. (w.at + w.left - 1) /\ (w.at + i - 1) + 1 = w.at + i
    <3>1. \A at, left \in Nat : \A i \in 1 .. left :
            at + i - 1 \in at .. (at + left - 1) /\ (at + i - 1) + 1 = at + i
      OBVIOUS
    <3>2. \A i \in 1 .. k : i \in 1 .. w.left
      BY <1>4
    <3> QED
      BY <1>4, <3>1, <3>2
  <2>4. \A i \in 1 .. k : bytes[i] = <<"down", N, w.at + i>>
    BY <1>2, <2>2, <2>3 DEF WriteSound
  <2>5. bytes \in Seq(Place)
    BY <1>1, <2>2, BytesArePlaces, SeqMonotonic
  <2> QED
    BY <1>4, <2>2, <2>4, <2>5
<1>6. writes' = <<>> /\ resumed' = IF k = w.left THEN <<>> ELSE <<rest>>
  <2>5. k # w.left => resumed' = <<rest>>
    BY <1>2, <1>3
  <2> QED
    BY <1>0, <1>2, <1>3, <2>5
<1> HIDE DEF bytes, w, N
<1>7. Writing' = After(N, w.at + k, "down", DownSizes)
  <2>1. CASE k = w.left
    <3>1. Writing' = <<"down", N + 1, 1>>
      BY <1>1, <1>6, <2>1 DEF Writing, N
    <3> QED
      BY <1>4, <2>1, <3>1 DEF After
  <2>2. CASE k # w.left
    <3>1. resumed' # <<>> /\ resumed'[1].at = w.at + k
      BY <1>6, <2>2
    <3>2. Writing' = <<"down", N, w.at + k + 1>>
      BY <1>1, <1>6, <3>1 DEF Writing, N
    <3>3. w.at + k # DownSizes[N]
      BY <1>4, <2>2
    <3> QED
      BY <3>2, <3>3 DEF After
  <2> QED
    BY <2>1, <2>2
<1>8. Writing' \in Place
  BY <1>4, <1>7 DEF After, Place
<1>9. Follows(Append(down', Writing'), "down", DownSizes')
  <2>1. Follows(Append(down, <<"down", N, w.at + 1>>), "down", DownSizes)
    BY <1>2 DEF OneWrite
  <2>2. DownSizes' = DownSizes
    BY <1>1 DEF DownSizes
  <2>3. \A m \in DOMAIN DownSizes : DownSizes[m] \in Nat
    BY <1>1, DownSizesTyped
  <2>4. Follows(Append(down \o bytes, After(N, w.at + Len(bytes), "down", DownSizes)), "down", DownSizes)
    BY <1>1, <1>2, <1>4, <1>5, <1>7, <1>8, <2>1, <2>3, FollowsGrows
  <2> QED
    BY <1>3, <1>5, <1>7, <2>2, <2>4 DEF bytes, w
<1>10. Append(down', Writing')[1] = Append(down, Writing)[1]
  <2>1. down' = down \o bytes
    BY <1>3 DEF bytes, w
  <2>2. /\ \A i \in 1 .. Len(down) : Append(down', Writing')[i] = down[i]
        /\ \A m \in 1 .. Len(bytes) : Append(down', Writing')[Len(down) + m] = bytes[m]
    BY <1>1, <1>5, <1>8, <2>1, Joined
  <2>3. CASE down = <<>>
    <3>1. Append(down, Writing)[1] = <<"down", N, w.at + 1>>
      BY <1>2, <2>3
    <3>2. Len(down) = 0 /\ 1 \in 1 .. Len(bytes) /\ Len(down) + 1 = 1
      BY <1>4, <1>5, <2>3
    <3> QED
      BY <1>5, <2>2, <3>1, <3>2
  <2>4. CASE down # <<>>
    <3>1. 1 \in 1 .. Len(down)
      BY <1>1, <2>4
    <3>2. Append(down, Writing)[1] = down[1]
      BY <1>1, <1>2, <3>1, AppendProperties
    <3> QED
      BY <2>2, <3>1, <3>2
  <2> QED
    BY <2>3, <2>4
<1>11. \A i \in DOMAIN resumed' : WriteSound(resumed[i])'
  <2>1. CASE k = w.left
    BY <1>6, <2>1
  <2>2. CASE k # w.left
    <3>1. DOMAIN resumed' = {1} /\ resumed'[1].at = w.at + k /\ resumed'[1].left = w.left - k
      BY <1>6, <2>2
    <3>2. told # <<>> /\ w.at + w.left = Length(told[Len(told)])
      BY <1>2 DEF WriteSound
    <3>3. (w.at + k) + (w.left - k) = w.at + w.left
      BY <1>4
    <3>4. \A a \in w.at .. (w.at + w.left - 1) : a \in DOMAIN buffer /\ buffer[a] = <<"down", Len(told), a + 1>>
      BY <1>2 DEF WriteSound
    <3>5. (w.at + k) .. ((w.at + k) + (w.left - k) - 1) \subseteq w.at .. (w.at + w.left - 1)
      BY <1>4
    <3> QED
      BY <1>1, <3>1, <3>2, <3>3, <3>4, <3>5 DEF WriteSound
  <2> QED
    BY <2>1, <2>2
<1>12. Len(writes') + Len(resumed') <= 1 /\ \A i \in DOMAIN writes' : WriteSound(writes[i])'
  BY <1>6
<1> QED
  BY <1>9, <1>10, <1>11, <1>12 DEF OneWrite

LEMMA WriteGoesOnDown ==
  ASSUME ConnectionTypeOK, WriteGoesOn, UNCHANGED client, OneWrite
  PROVE  OneWrite' /\ Writing' = Writing
<1>1. /\ told' = told /\ buffer' = buffer /\ down' = down
      /\ resumed # <<>> /\ writes' = Append(writes, resumed[1]) /\ resumed' = Tail(resumed)
  BY DEF WriteGoesOn
<1>2. /\ resumed[1] \in Write /\ WriteSound(resumed[1]) /\ writes = <<>>
      /\ Writing = <<"down", Len(told), resumed[1].at + 1>>
  BY <1>1, WritingTyped
<1>3. writes' = <<resumed[1]>>
  BY <1>1, <1>2
<1>4. resumed' = <<>>
  <2>1. resumed \in Seq(Write) /\ Len(writes) + Len(resumed) <= 1
    BY DEF ConnectionTypeOK, SessionTyped, OneWrite
  <2>2. Len(resumed) \in Nat \ {0} /\ Len(writes) = 0
    BY <1>1, <1>2, <2>1, EmptySeq
  <2>3. Tail(resumed) \in Seq(Write) /\ Len(Tail(resumed)) = 0
    BY <1>1, <2>1, <2>2, HeadTailProperties
  <2> QED
    BY <1>1, <2>3, EmptySeq
<1>5. Writing' = Writing
  BY <1>1, <1>2, <1>3 DEF Writing
<1>6. Follows(Append(down', Writing'), "down", DownSizes')
  BY <1>1, <1>5 DEF OneWrite, DownSizes
<1>7. \A i \in DOMAIN writes' : WriteSound(writes[i])'
  BY <1>1, <1>2, <1>3 DEF WriteSound
<1> QED
  BY <1>3, <1>4, <1>5, <1>6, <1>7 DEF OneWrite

\* Where no write is under way, the receive may fill the buffer.
LEMMA SocketGivesDown ==
  ASSUME ConnectionTypeOK, SocketGives, UNCHANGED client, OneWrite,
         ~ (receive'.phase = "taken" /\ writes' \o resumed' # <<>>)
  PROVE  OneWrite' /\ Writing' = Writing
<1>1. told' = told /\ down' = down /\ writes' = writes /\ resumed' = resumed /\ receive'.phase = "taken"
  BY DEF SocketGives, ConnectionTypeOK, SessionTyped
<1>2. writes' = <<>> /\ resumed' = <<>>
  <2>1. writes' \in Seq(Write) /\ resumed' \in Seq(Write)
    BY <1>1 DEF ConnectionTypeOK, SessionTyped
  <2> QED
    BY <1>1, <2>1, ConcatEqualIffEmpty
<1>3. Writing' = Writing
  BY <1>1 DEF Writing
<1> QED
  BY <1>1, <1>2, <1>3 DEF OneWrite, DownSizes

\* The client takes the first bytes of what is on its way.
LEMMA ReaderTakesDown ==
  ASSUME ConnectionTypeOK, NEW k \in 1 .. Len(down), down' = SubSeq(down, k + 1, Len(down)),
         UNCHANGED <<told, session>>, OneWrite
  PROVE  OneWrite' /\ Append(down', Writing')[1] = Append(down, Writing)[k + 1]
<1>1. /\ told' = told /\ writes' = writes /\ resumed' = resumed /\ buffer' = buffer
      /\ down \in Seq(Place) /\ Writing \in Place
  BY BytesArePlaces, WritingTyped DEF session, ConnectionTypeOK
<1>2. Writing' = Writing /\ DownSizes' = DownSizes
  BY <1>1 DEF Writing, DownSizes
<1>3. k \in 0 .. Len(down)
  BY <1>1
<1>4. /\ Follows(Append(down', Writing'), "down", DownSizes')
      /\ Append(down', Writing')[1] = Append(down, Writing)[k + 1]
  BY <1>1, <1>2, <1>3, FollowsShrinks DEF OneWrite
<1> QED
  BY <1>1, <1>4 DEF OneWrite, WriteSound

\* Nothing else touches what the session writes.
LEMMA DownStays ==
  ASSUME UNCHANGED <<told, down, buffer, writes, resumed>>, OneWrite
  PROVE  OneWrite' /\ Writing' = Writing
BY DEF OneWrite, WriteSound, Writing, DownSizes

LEMMA DownStep ==
  ASSUME ConnectionTypeOK, Apart', overlaps \subseteq overlaps', Step, DownSound
  PROVE  DownSound'
<1> SUFFICES ASSUME Without({"writes", "receive"})'
             PROVE  OneWrite'
  BY DEF DownSound
<1>1. OneWrite
  BY DEF DownSound, Without
<1>2. /\ Len(writes') + Len(resumed') <= 1
      /\ ~ (receive'.phase = "taken" /\ writes' \o resumed' # <<>>)
  BY DEF Apart, Without
<1>3. ASSUME NEW kind \in ServerMessage, SendToClient(kind), UNCHANGED client
      PROVE  OneWrite'
  BY <1>1, <1>2, <1>3, SendToClientDown
<1>4. CASE SocketTakes /\ UNCHANGED client
  BY <1>1, <1>4, SocketTakesDown
<1>5. CASE WriteGoesOn /\ UNCHANGED client
  BY <1>1, <1>5, WriteGoesOnDown
<1>6. CASE SocketGives /\ UNCHANGED client
  BY <1>1, <1>2, <1>6, SocketGivesDown
<1>7. CASE (ReadMessage \/ Receive) /\ UNCHANGED client
  BY <1>1, <1>7, DownStays DEF ReadMessage, Receive
<1>8. CASE ReaderTakes /\ UNCHANGED session
  <2>1. PICK k \in 1 .. Len(down) : down' = SubSeq(down, k + 1, Len(down))
    BY <1>8 DEF ReaderTakes
  <2>2. UNCHANGED <<told, session>>
    BY <1>8 DEF ReaderTakes
  <2> QED
    BY <1>1, <2>1, <2>2, ReaderTakesDown
<1>9. CASE /\ UNCHANGED session
           /\ \/ ReadsOn \/ PieceRead \/ DrawingSent \/ DrawingResumed
              \/ \E kind \in Input : InputArrives(kind)
              \/ InputRead \/ SendTaken \/ SendResumed
  <2>1. UNCHANGED <<told, down>>
    BY <1>9 DEF ReadsOn, PieceRead, DrawingSent, DrawingResumed, InputArrives, InputRead, SendTaken, SendResumed
  <2> QED
    BY <1>1, <1>9, <2>1, DownStays DEF session
<1> QED
  BY <1>3, <1>4, <1>5, <1>6, <1>7, <1>8, <1>9 DEF Step

---------------------------------------------------------------------------
(* The client's reading.                                                   *)

\* What a stream that goes on holds, from the byte after the first t bytes of message n.
LEMMA StreamRead ==
  ASSUME NEW sizes, NEW way, NEW stream, Follows(stream, way, sizes),
         NEW n \in DOMAIN sizes, sizes[n] \in Nat, NEW t \in Nat, NEW k \in Nat \ {0}, t + k <= sizes[n],
         \A i \in 1 .. (k + 1) : i \in DOMAIN stream,
         stream[1] = After(n, t, way, sizes)
  PROVE  /\ \A i \in 1 .. k : stream[i] = <<way, n, t + i>>
         /\ stream[k + 1] = After(n, t + k, way, sizes)
<1>1. stream[1] = <<way, n, t + 1>>
  BY DEF After
<1>2. \A i \in 2 .. (k + 1) : GoesOn(stream[1], stream[i], i - 1, way, sizes)
  <2> SUFFICES ASSUME NEW i \in 2 .. (k + 1)
               PROVE  GoesOn(stream[1], stream[i], i - 1, way, sizes)
    OBVIOUS
  <2>1. 1 \in DOMAIN stream /\ i \in DOMAIN stream /\ 1 < i
    OBVIOUS
  <2> QED
    BY <2>1 DEF Follows
<1>3. \A i \in 2 .. (k + 1) :
        /\ t + 1 + (i - 1) <= sizes[n] => stream[i] = <<way, n, t + 1 + (i - 1)>>
        /\ t + 1 + (i - 1) = sizes[n] + 1 => stream[i] = <<way, n + 1, 1>>
  BY <1>1, <1>2 DEF GoesOn
<1>4. \A i \in 2 .. (k + 1) : t + 1 + (i - 1) = t + i
  OBVIOUS
<1>5. \A i \in 1 .. k : stream[i] = <<way, n, t + i>>
  <2> SUFFICES ASSUME NEW i \in 1 .. k
               PROVE  stream[i] = <<way, n, t + i>>
    OBVIOUS
  <2>1. CASE i = 1
    BY <1>1, <2>1
  <2>2. CASE i # 1
    <3>1. i \in 2 .. (k + 1) /\ t + i <= sizes[n]
      BY <2>2
    <3> QED
      BY <1>3, <1>4, <3>1
  <2> QED
    BY <2>1, <2>2
<1>6. stream[k + 1] = After(n, t + k, way, sizes)
  <2>1. k + 1 \in 2 .. (k + 1) /\ t + (k + 1) = t + k + 1
    OBVIOUS
  <2>2. CASE t + k = sizes[n]
    <3>1. t + (k + 1) = sizes[n] + 1
      BY <2>2
    <3>2. stream[k + 1] = <<way, n + 1, 1>>
      BY <1>3, <1>4, <2>1, <3>1
    <3> QED
      BY <2>2, <3>2 DEF After
  <2>3. CASE t + k # sizes[n]
    <3>1. t + (k + 1) <= sizes[n]
      BY <2>3
    <3>2. stream[k + 1] = <<way, n, t + (k + 1)>>
      BY <1>3, <1>4, <2>1, <3>1
    <3> QED
      BY <2>1, <2>3, <3>2 DEF After
  <2> QED
    BY <2>2, <2>3
<1> QED
  BY <1>5, <1>6

\* Where the reader is in its message.
LEMMA PieceFacts ==
  ASSUME ConnectionTypeOK, Reading, PieceSound
  PROVE  /\ Current \in Nat \ {0} /\ Base \in Nat /\ Taken \in Nat
         /\ reader.already \in Nat /\ reader.want \in Nat /\ reader.got \in Nat /\ reader.piece \in Nat
         /\ Taken = Base + reader.already + reader.got
         /\ reader.number = 0 => reader.piece = 1 /\ Base = 0
         /\ reader.number # 0 => Current <= Len(told)
         /\ Current <= Len(told) =>
              /\ told[Current] \in ServerMessage
              /\ reader.piece \in DOMAIN Ends[told[Current]]
              /\ reader.already + reader.want = Size(told[Current], reader.piece)
              /\ Base + reader.already + reader.want <= Length(told[Current])
<1>1. StreamsTyped /\ ClientTyped /\ reader \in Reader /\ read \in Seq(1 .. Len(told))
  BY DEF ConnectionTypeOK, ClientTyped, ReaderTyped
<1>2. /\ reader.already \in Nat /\ reader.want \in Nat /\ reader.got \in Nat /\ reader.piece \in Nat \ {0}
      /\ reader.number \in 0 .. Len(told) /\ Len(told) \in Nat /\ Current \in Nat \ {0}
  BY <1>1 DEF Reader, StreamsTyped, Current
<1>3. reader.number = 0 => reader.piece = 1 /\ Base = 0 /\ reader.already + reader.want = 1
  BY <1>2 DEF PieceSound, Base, Start
<1>4. reader.number # 0 => /\ reader.number = Current /\ Current <= Len(told)
                           /\ reader.piece \in 2 .. Len(Ends[told[Current]])
                           /\ reader.already + reader.want = Size(told[Current], reader.piece)
  BY <1>2 DEF PieceSound
<1>5. ASSUME Current <= Len(told)
      PROVE  /\ told[Current] \in ServerMessage
             /\ reader.piece \in DOMAIN Ends[told[Current]]
             /\ reader.already + reader.want = Size(told[Current], reader.piece)
             /\ Base \in Nat
             /\ Base + reader.already + reader.want <= Length(told[Current])
  <2>1. told[Current] \in ServerMessage
    BY <1>1, <1>2, <1>5 DEF StreamsTyped
  <2>2. Ends[told[Current]] \in Seq(Nat) /\ Len(Ends[told[Current]]) \in Nat \ {0}
    BY <2>1, Lengths, StreamsAssumption DEF StreamsAssumption
  <2>3. reader.piece \in DOMAIN Ends[told[Current]]
    <3>1. reader.piece \in 1 .. Len(Ends[told[Current]])
      BY <1>2, <1>3, <1>4, <2>2
    <3> QED
      BY <2>2, <3>1
  <2>4. reader.piece = 1 => Size(told[Current], reader.piece) = 1
    BY <2>1, <2>3, Pieces
  <2>5. reader.already + reader.want = Size(told[Current], reader.piece)
    BY <1>3, <1>4, <2>4
  <2>6. /\ Base \in Nat /\ Size(told[Current], reader.piece) \in Nat
        /\ Base + Size(told[Current], reader.piece) <= Length(told[Current])
    BY <2>1, <2>3, Pieces DEF Base
  <2>7. Base + reader.already + reader.want = Base + (reader.already + reader.want)
    BY <1>2, <2>6
  <2> QED
    BY <2>1, <2>3, <2>5, <2>6, <2>7
<1>6. Base \in Nat
  BY <1>2, <1>3, <1>4, <1>5
<1>7. Taken = Base + reader.already + reader.got /\ Taken \in Nat
  BY <1>2, <1>6 DEF Taken
<1> QED
  BY <1>2, <1>3, <1>4, <1>5, <1>6, <1>7

\* A session's step does not change where the reader is.
LEMMA SessionStepInOrder ==
  ASSUME ConnectionTypeOK, Longer, UNCHANGED client, InOrder,
         Append(down', Writing')[1] = Append(down, Writing)[1]
  PROVE  InOrder'
<1>1. /\ reader' = reader /\ read' = read /\ input' = input /\ buf_len_tcp' = buf_len_tcp
      /\ read_idx_tcp' = read_idx_tcp /\ buf_tcp' = buf_tcp
  BY DEF client
<1>2. /\ StreamsTyped /\ Len(told) \in Nat /\ Len(told) <= Len(told')
      /\ told' \in Seq(ServerMessage) /\ \A n \in 1 .. Len(told) : told'[n] = told[n]
  BY BytesStay DEF ConnectionTypeOK, StreamsTyped
<1>3. Current' = Current /\ Reading' = Reading /\ Current \in Nat \ {0}
  BY <1>1 DEF Current, Reading, ConnectionTypeOK, ClientTyped
<1>4. Reading => PieceSound
  BY DEF InOrder
<1>5. ASSUME Reading
      PROVE  Base' = Base
  <2>1. CASE Current <= Len(told)
    <3>1. told'[Current] = told[Current]
      BY <1>2, <1>3, <2>1
    <3> QED
      BY <1>1, <1>3, <3>1 DEF Base
  <2>2. CASE ~ (Current <= Len(told))
    <3>1. reader.piece = 1
      BY <1>4, <1>5, <2>2, PieceFacts
    <3> QED
      BY <1>1, <3>1 DEF Base, Start
  <2> QED
    BY <2>1, <2>2
<1>6. Taken' = Taken
  BY <1>1, <1>3, <1>5 DEF Taken
<1>7. Taken # 0 => Current <= Len(told) /\ Reading
  BY <1>4 DEF PieceSound, Taken
<1>8. Due' = Due
  <2>1. CASE Current <= Len(told)
    <3>1. Current \in DOMAIN DownSizes /\ Current \in DOMAIN DownSizes' /\ DownSizes'[Current] = DownSizes[Current]
      BY <1>2, <1>3, <2>1 DEF DownSizes
    <3> QED
      BY <1>3, <1>6, <3>1 DEF Due, After
  <2>2. CASE ~ (Current <= Len(told))
    <3>1. Taken = 0 /\ Current \notin DOMAIN DownSizes
      BY <1>2, <1>3, <1>7, <2>2 DEF DownSizes
    <3>2. Current \in DOMAIN DownSizes' => DownSizes'[Current] # 0
      BY <1>2, Lengths DEF DownSizes
    <3> QED
      BY <1>3, <1>6, <3>1, <3>2 DEF Due, After
  <2> QED
    BY <2>1, <2>2
<1>9. ASSUME Reading
      PROVE  PieceSound'
  <2>1. PieceSound /\ Base' = Base
    BY <1>4, <1>5, <1>9
  <2>2. Taken' # 0 => Current' <= Len(told')
    BY <1>2, <1>3, <1>6, <1>7
  <2>3. reader.number # 0 => told'[Current] = told[Current]
    BY <1>2, <1>3, <1>9, <2>1, PieceFacts
  <2>4. IF reader'.number = 0
        THEN reader'.piece = 1 /\ reader'.already = 0 /\ reader'.want = 1
        ELSE /\ reader'.number = Current'
             /\ reader'.piece \in 2 .. Len(Ends[told'[Current']])
             /\ reader'.already + reader'.want = Size(told'[Current'], reader'.piece)
    BY <1>1, <1>3, <2>1, <2>3 DEF PieceSound
  <2> QED
    BY <1>1, <1>3, <2>1, <2>2, <2>4 DEF PieceSound
<1> QED
  BY <1>1, <1>3, <1>8, <1>9 DEF InOrder

\* No message is empty: its first byte is the one after none of it.
LEMMA AfterNone ==
  ASSUME StreamsTyped, NEW n
  PROVE  After(n, 0, "down", DownSizes) = <<"down", n, 1>>
BY DownSizesTyped DEF After

\* The bytes that the socket gives are those the piece lacks.
LEMMA ReaderTakesInOrder ==
  ASSUME ConnectionTypeOK, ReaderTakes, UNCHANGED session, Apart',
         Without({"writes", "receive", "sends"})', OneWrite, InOrder
  PROVE  InOrder'
<1>1. PICK k \in 1 .. Len(down) :
        /\ k <= reader.want
        /\ buf_tcp' = Fill(buf_tcp, reader.at, SubSeq(down, 1, k))
        /\ down' = SubSeq(down, k + 1, Len(down))
        /\ reader' = [reader EXCEPT !.phase = "given", !.got = k]
  BY DEF ReaderTakes
<1>2. /\ reader.phase = "asked"
      /\ UNCHANGED <<buf_len_tcp, read_idx_tcp, read, input, told>>
  BY DEF ReaderTakes
<1>3. /\ StreamsTyped /\ reader \in Reader /\ down \in Seq(Byte) /\ down \in Seq(Place)
      /\ Len(down) \in Nat /\ k \in Nat \ {0} /\ buf_tcp \in [DOMAIN buf_tcp -> Byte]
  BY BytesArePlaces DEF ConnectionTypeOK, ClientTyped, ReaderTyped, StreamsTyped
<1>4. Reading /\ PieceSound /\ reader.got = 0
  BY <1>2 DEF Reading, InOrder, PieceSound
<1>5. /\ reader'.phase = "given" /\ reader'.got = k /\ reader'.number = reader.number
      /\ reader'.piece = reader.piece /\ reader'.already = reader.already
      /\ reader'.at = reader.at /\ reader'.want = reader.want
  BY <1>1, <1>3 DEF Reader
<1>6. Current' = Current /\ Base' = Base /\ Reading' /\ DownSizes' = DownSizes
  BY <1>2, <1>5 DEF Current, Base, Reading, DownSizes
<1>7. /\ Current \in Nat \ {0} /\ Base \in Nat /\ Taken \in Nat /\ reader.already \in Nat /\ reader.want \in Nat
      /\ Taken = Base + reader.already
  BY <1>4, PieceFacts
<1>8. Taken' = Taken + k /\ reader.at = Taken
  BY <1>2, <1>3, <1>4, <1>5, <1>6, <1>7 DEF Taken, PieceSound
<1>9. /\ DOMAIN Append(down, Writing) = 1 .. (Len(down) + 1)
      /\ \A i \in 1 .. Len(down) : Append(down, Writing)[i] = down[i]
  <2>1. Writing \in Place
    BY WritingTyped
  <2> QED
    BY <1>3, <2>1, AppendProperties
<1>10. Append(down, Writing)[1] = After(Current, Taken, "down", DownSizes)
  BY DEF InOrder, Due
<1>11. Current <= Len(told)
  <2>1. CASE Taken = 0
    <3>1. down[1] = <<"down", Current, 1>>
      BY <1>1, <1>3, <1>9, <1>10, <2>1, AfterNone
    <3>2. down[1] \in Byte
      BY <1>1, <1>3
    <3>3. <<"down", Current, 1>> \in Byte
      BY <3>1, <3>2
    <3> QED
      BY <1>3, <3>3 DEF Byte, Unset, StreamsTyped
  <2>2. CASE Taken # 0
    BY <1>4, <2>2 DEF PieceSound
  <2> QED
    BY <2>1, <2>2
<1>12. /\ told[Current] \in ServerMessage
       /\ Base + reader.already + reader.want <= Length(told[Current])
  BY <1>4, <1>11, PieceFacts
<1>13. /\ Current \in DOMAIN DownSizes /\ DownSizes[Current] = Length(told[Current])
       /\ DownSizes[Current] \in Nat /\ Taken + k <= DownSizes[Current]
  <2>1. Current \in 1 .. Len(told)
    BY <1>3, <1>7, <1>11 DEF StreamsTyped
  <2>2. Current \in DOMAIN DownSizes /\ DownSizes[Current] = Length(told[Current]) /\ DownSizes[Current] \in Nat
    BY <1>3, <2>1, DownSizesTyped
  <2>3. k <= reader.want /\ Taken + reader.want <= DownSizes[Current]
    BY <1>1, <1>7, <1>12, <2>2
  <2>4. Taken + k <= DownSizes[Current]
    BY <1>3, <1>7, <2>2, <2>3
  <2> QED
    BY <2>2, <2>4
<1>14. /\ \A i \in 1 .. k : Append(down, Writing)[i] = <<"down", Current, Taken + i>>
       /\ Append(down, Writing)[k + 1] = After(Current, Taken + k, "down", DownSizes)
  <2>1. 1 .. (k + 1) \subseteq DOMAIN Append(down, Writing)
    BY <1>1, <1>3, <1>9
  <2>2. Follows(Append(down, Writing), "down", DownSizes)
    BY DEF OneWrite
  <2>3. PICK pipe, way, sizes, n, t :
          /\ pipe = Append(down, Writing) /\ way = "down" /\ sizes = DownSizes /\ n = Current /\ t = Taken
          /\ Follows(pipe, way, sizes) /\ n \in DOMAIN sizes /\ sizes[n] \in Nat /\ t \in Nat /\ k \in Nat \ {0}
          /\ t + k <= sizes[n] /\ (\A i \in 1 .. (k + 1) : i \in DOMAIN pipe) /\ pipe[1] = After(n, t, way, sizes)
    BY <1>3, <1>7, <1>10, <1>13, <2>1, <2>2
  <2>4. /\ Follows(pipe, way, sizes) /\ n \in DOMAIN sizes /\ sizes[n] \in Nat /\ t \in Nat /\ k \in Nat \ {0}
        /\ t + k <= sizes[n] /\ (\A i \in 1 .. (k + 1) : i \in DOMAIN pipe) /\ pipe[1] = After(n, t, way, sizes)
    BY <2>3
  <2>5. (\A i \in 1 .. k : pipe[i] = <<way, n, t + i>>) /\ pipe[k + 1] = After(n, t + k, way, sizes)
    BY <2>4, StreamRead
  <2> QED
    BY <2>3, <2>5
<1>15. Append(down', Writing')[1] = Due'
  <2>1. UNCHANGED <<told, session>>
    BY <1>2
  <2>2. Append(down', Writing')[1] = Append(down, Writing)[k + 1]
    BY <1>1, <2>1, ReaderTakesDown
  <2> QED
    BY <1>6, <1>8, <1>14, <2>2 DEF Due
<1>16. PieceSound'
  <2>1. input.phase \notin {"sending", "sent"}
    BY <1>2, <1>5 DEF Apart, Without, MidMessage
  <2>2. buf_len_tcp' = Base' /\ read_idx_tcp' = Base'
    BY <1>2, <1>4, <1>6, <2>1 DEF PieceSound
  <2>3. /\ SubSeq(down, 1, k) \in Seq(Byte) /\ Len(SubSeq(down, 1, k)) = k
        /\ \A i \in 1 .. k : SubSeq(down, 1, k)[i] = <<"down", Current, Taken + i>>
    <3>1. SubSeq(down, 1, k) \in Seq(Byte) /\ Len(SubSeq(down, 1, k)) = k
      BY <1>1, <1>3
    <3>2. \A i \in 1 .. k : SubSeq(down, 1, k)[i] = down[i] /\ i \in 1 .. Len(down)
      BY <1>1, <1>3
    <3> QED
      BY <1>9, <1>14, <3>1, <3>2
  <2>4. /\ \A i \in 1 .. k : /\ Taken + i - 1 \in DOMAIN buf_tcp'
                            /\ buf_tcp'[Taken + i - 1] = <<"down", Current, Taken + i>>
        /\ \A a \in DOMAIN buf_tcp : a \notin Taken .. (Taken + k - 1) =>
             a \in DOMAIN buf_tcp' /\ buf_tcp'[a] = buf_tcp[a]
    <3> DEFINE bytes == SubSeq(down, 1, k)
    <3>1. buf_tcp' = Fill(buf_tcp, Taken, bytes) /\ bytes \in Seq(Byte) /\ Len(bytes) = k
      BY <1>1, <1>8, <2>3
    <3>2. \A i \in 1 .. k : bytes[i] = <<"down", Current, Taken + i>>
      BY <2>3
    <3> HIDE DEF bytes
    <3>3. /\ \A i \in 1 .. k : Taken + i - 1 \in DOMAIN buf_tcp' /\ buf_tcp'[Taken + i - 1] = bytes[i]
          /\ \A a \in DOMAIN buf_tcp : a \notin Taken .. (Taken + k - 1) =>
               a \in DOMAIN buf_tcp' /\ buf_tcp'[a] = buf_tcp[a]
      <4> DEFINE filled == Fill(buf_tcp, Taken, bytes)
                 at == Taken
      <4>1. buf_tcp \in [DOMAIN buf_tcp -> Byte] /\ at \in Nat /\ bytes \in Seq(Byte) /\ filled = Fill(buf_tcp, at, bytes)
        BY <1>3, <1>7, <3>1
      <4> HIDE DEF filled, at
      <4>2. /\ \A i \in 1 .. Len(bytes) : at + i - 1 \in DOMAIN filled /\ filled[at + i - 1] = bytes[i]
            /\ \A a \in DOMAIN buf_tcp : a \notin at .. (at + Len(bytes) - 1) =>
                 a \in DOMAIN filled /\ filled[a] = buf_tcp[a]
        BY <4>1, Filled
      <4> QED
        BY <3>1, <4>2 DEF filled, at
    <3> QED
      BY <3>2, <3>3
  <2>5. \A i \in 1 .. (reader.already + k) :
          Base + i - 1 \in DOMAIN buf_tcp' /\ buf_tcp'[Base + i - 1] = <<"down", Current, Base + i>>
    <3> SUFFICES ASSUME NEW i \in 1 .. (reader.already + k)
                 PROVE  Base + i - 1 \in DOMAIN buf_tcp' /\ buf_tcp'[Base + i - 1] = <<"down", Current, Base + i>>
      OBVIOUS
    <3>1. CASE i <= reader.already
      <4>1. i \in 1 .. (reader.already + reader.got)
        BY <1>4, <1>7, <3>1
      <4>2. Base + i - 1 \in DOMAIN buf_tcp /\ buf_tcp[Base + i - 1] = <<"down", Current, Base + i>>
        BY <1>4, <4>1 DEF PieceSound
      <4>3. Base + i - 1 \notin Taken .. (Taken + k - 1)
        BY <1>7, <3>1
      <4> QED
        BY <2>4, <4>2, <4>3
    <3>2. CASE ~ (i <= reader.already)
      <4>1. i - reader.already \in 1 .. k
        BY <1>3, <1>7, <3>2
      <4>2. Taken + (i - reader.already) = Base + i
        BY <1>3, <1>7
      <4>3. Taken + (i - reader.already) - 1 = Base + i - 1
        BY <1>3, <1>7, <4>2
      <4>4. /\ Taken + (i - reader.already) - 1 \in DOMAIN buf_tcp'
            /\ buf_tcp'[Taken + (i - reader.already) - 1] = <<"down", Current, Taken + (i - reader.already)>>
        BY <2>4, <4>1
      <4> QED
        BY <4>2, <4>3, <4>4
    <3> QED
      BY <3>1, <3>2
  <2>6. k \in 1 .. reader.want
    BY <1>1, <1>3, <1>7
  <2>7. IF reader'.number = 0
        THEN reader'.piece = 1 /\ reader'.already = 0 /\ reader'.want = 1
        ELSE /\ reader'.number = Current'
             /\ reader'.piece \in 2 .. Len(Ends[told'[Current']])
             /\ reader'.already + reader'.want = Size(told'[Current'], reader'.piece)
    BY <1>2, <1>4, <1>5, <1>6 DEF PieceSound
  <2>8. reader'.at = Base' + reader'.already
    BY <1>5, <1>6, <1>7, <1>8
  <2>9. Taken' # 0 => Current' <= Len(told')
    BY <1>2, <1>6, <1>11
  <2> QED
    BY <1>5, <1>6, <2>2, <2>5, <2>6, <2>7, <2>8, <2>9 DEF PieceSound
<1> QED
  BY <1>2, <1>5, <1>15, <1>16 DEF InOrder

\* The client's own steps leave the stream as it is but where it takes from it.
LEMMA StreamStays ==
  ASSUME UNCHANGED session, UNCHANGED <<told, down>>
  PROVE  /\ Append(down', Writing')[1] = Append(down, Writing)[1]
         /\ DownSizes' = DownSizes
BY DEF session, Writing, DownSizes

\* A message is read from its id on, and from the start of the buffer.
LEMMA ReadAnew ==
  ASSUME reader' = Asking(0, 1, 0, 0, 1), buf_len_tcp' = 0, read_idx_tcp' = 0
  PROVE  reader'.phase # "astray" /\ PieceSound' /\ Taken' = 0
<1>1. reader' = [phase |-> "asked", number |-> 0, piece |-> 1, already |-> 0,
                 at |-> 0 + 0, want |-> 1 - 0, got |-> 0]
  BY DEF Asking
<1>2. /\ reader'.phase = "asked" /\ reader'.number = 0 /\ reader'.piece = 1 /\ reader'.already = 0
      /\ reader'.at = 0 /\ reader'.want = 1 /\ reader'.got = 0
  BY <1>1
<1>3. Base' = 0
  BY <1>2 DEF Base, Start
<1>4. Taken' = 0
  BY <1>2, <1>3 DEF Taken
<1>5. 1 .. (reader'.already + reader'.got) = {}
  BY <1>2
<1> QED
  BY <1>2, <1>3, <1>4, <1>5 DEF PieceSound

\* What is asked for of a piece in a second read comes behind what is there.
LEMMA ReadsOnInOrder ==
  ASSUME ConnectionTypeOK, ReadsOn, UNCHANGED session, Apart',
         Without({"writes", "receive", "sends"})', InOrder
  PROVE  InOrder'
<1>1. /\ reader.phase = "given" /\ reader.got < reader.want
      /\ reader' = Asking(reader.number, reader.piece, buf_len_tcp,
                          reader.already + reader.got, reader.already + reader.want)
      /\ UNCHANGED <<buf_tcp, buf_len_tcp, read_idx_tcp, read, input, told, down>>
  BY DEF ReadsOn
<1>2. Reading /\ PieceSound /\ reader.got \in 1 .. reader.want
  BY <1>1 DEF Reading, InOrder, PieceSound
<1>3. /\ Base \in Nat /\ reader.already \in Nat /\ reader.want \in Nat /\ reader.got \in Nat
      /\ Taken = Base + reader.already + reader.got
  BY <1>2, PieceFacts
<1>4. /\ reader'.phase = "asked" /\ reader'.number = reader.number /\ reader'.piece = reader.piece
      /\ reader'.already = reader.already + reader.got
      /\ reader'.at = buf_len_tcp + (reader.already + reader.got)
      /\ reader'.want = (reader.already + reader.want) - (reader.already + reader.got)
      /\ reader'.got = 0
  BY <1>1 DEF Asking
<1>5. reader.number # 0
  BY <1>1, <1>2, <1>3 DEF PieceSound
<1>6. input.phase \notin {"sending", "sent"}
  BY <1>1, <1>4, <1>5 DEF Apart, Without, MidMessage
<1>7. buf_len_tcp = Base /\ read_idx_tcp = Base
  BY <1>2, <1>6 DEF PieceSound
<1>8. Base' = Base /\ Current' = Current
  BY <1>1, <1>4 DEF Base, Current
<1>9. Taken' = Taken
  BY <1>3, <1>4, <1>8 DEF Taken, Reading
<1>10. PieceSound'
  <2>1. reader'.already + reader'.want = reader.already + reader.want /\ reader'.already + reader'.got = reader.already + reader.got
    BY <1>3, <1>4
  <2>2. /\ reader'.number = Current'
        /\ reader'.piece \in 2 .. Len(Ends[told'[Current']])
        /\ reader'.already + reader'.want = Size(told'[Current'], reader'.piece)
    BY <1>1, <1>2, <1>4, <1>5, <1>8, <2>1 DEF PieceSound
  <2>3. reader'.at = Base' + reader'.already
    BY <1>3, <1>4, <1>7, <1>8
  <2>4. Taken' # 0 => Current' <= Len(told')
    BY <1>1, <1>2, <1>8, <1>9 DEF PieceSound
  <2>5. \A i \in 1 .. (reader'.already + reader'.got) :
          Base' + i - 1 \in DOMAIN buf_tcp' /\ buf_tcp'[Base' + i - 1] = <<"down", Current', Base' + i>>
    BY <1>1, <1>2, <1>8, <2>1 DEF PieceSound
  <2>6. buf_len_tcp' = Base' /\ read_idx_tcp' = Base'
    BY <1>1, <1>7, <1>8
  <2> QED
    BY <1>4, <1>5, <2>2, <2>3, <2>4, <2>5, <2>6 DEF PieceSound
<1>11. Append(down', Writing')[1] = Due'
  <2>1. Append(down', Writing')[1] = Append(down, Writing)[1] /\ DownSizes' = DownSizes
    BY <1>1, StreamStays
  <2> QED
    BY <1>8, <1>9, <2>1 DEF Due, InOrder
<1> QED
  BY <1>1, <1>4, <1>10, <1>11 DEF InOrder

\* The piece that the client takes is the one it waits for.
LEMMA RightPiece ==
  ASSUME ConnectionTypeOK, reader.phase = "given", reader.got = reader.want, Apart,
         Without({"writes", "receive", "sends"}), InOrder
  PROVE  /\ Reading /\ PieceSound /\ PieceFound /\ Number = Current /\ Current \in 1 .. Len(told)
         /\ Taken = Base + (reader.already + reader.want)
         /\ buf_len_tcp = Base /\ read_idx_tcp = Base
<1>1. Reading /\ PieceSound
  BY DEF Reading, InOrder
<1>2. input.phase \notin {"sending", "sent"}
  BY DEF Apart, Without, MidMessage
<1>3. buf_len_tcp = Base /\ read_idx_tcp = Base
  BY <1>1, <1>2 DEF PieceSound
<1> DEFINE size == reader.already + reader.want
           bytes == At(buf_tcp, Base, size)
<1>4. /\ Base \in Nat /\ Current \in Nat \ {0} /\ reader.already \in Nat /\ reader.want \in Nat \ {0}
      /\ Taken = Base + reader.already + reader.got
  <2>1. reader.got \in 1 .. reader.want
    BY <1>1 DEF PieceSound
  <2> QED
    BY <1>1, <2>1, PieceFacts
<1>5. size \in Nat \ {0} /\ Taken = Base + size /\ Taken # 0 /\ reader.already + reader.got = size
  BY <1>4
<1>6. Current \in 1 .. Len(told)
  <2>1. Current <= Len(told)
    BY <1>1, <1>5 DEF PieceSound
  <2> QED
    BY <1>4, <2>1 DEF ConnectionTypeOK, StreamsTyped
<1>7. told[Current] \in ServerMessage /\ size = Size(told[Current], reader.piece)
  BY <1>1, <1>6, PieceFacts
<1>8. /\ bytes \in Seq(Byte) /\ Len(bytes) = size
      /\ \A i \in 1 .. size : bytes[i] = <<"down", Current, Base + i>>
  <2>1. Unset \in Byte /\ buf_tcp \in [DOMAIN buf_tcp -> Byte]
    BY DEF ConnectionTypeOK, ClientTyped, Byte
  <2> HIDE DEF size
  <2>2. /\ bytes \in Seq(Byte) /\ Len(bytes) = size
        /\ \A i \in 1 .. size : Base + i - 1 \in DOMAIN buf_tcp => bytes[i] = buf_tcp[Base + i - 1]
    <3> DEFINE at == Base
    <3>1. at \in Nat /\ size \in Nat /\ bytes = At(buf_tcp, at, size)
      BY <1>4, <1>5
    <3> HIDE DEF at, bytes
    <3>2. /\ bytes \in Seq(Byte) /\ Len(bytes) = size
          /\ \A i \in 1 .. size : at + i - 1 \in DOMAIN buf_tcp => bytes[i] = buf_tcp[at + i - 1]
      BY <2>1, <3>1, Found
    <3> QED
      BY <3>2 DEF at
  <2>3. \A i \in 1 .. size : /\ Base + i - 1 \in DOMAIN buf_tcp
                             /\ buf_tcp[Base + i - 1] = <<"down", Current, Base + i>>
    BY <1>1, <1>5 DEF PieceSound
  <2> QED
    BY <2>2, <2>3
<1>9. At(buf_tcp, read_idx_tcp, reader.already + reader.want) = bytes
  BY <1>3
<1> HIDE DEF size, bytes
<1>10. Number = Current
  <2>1. CASE reader.number = 0
    <3>1. bytes[1] = <<"down", Current, Base + 1>>
      BY <1>5, <1>8
    <3>2. bytes[1][1] = "down" /\ bytes[1][2] = Current
      BY <3>1
    <3> QED
      BY <1>9, <2>1, <3>2, Zenon DEF Number
  <2>2. CASE reader.number # 0
    BY <1>1, <2>2 DEF Number, PieceSound
  <2> QED
    BY <2>1, <2>2
<1>11. bytes = PieceOf(Current, reader.piece)
  <2>1. PieceOf(Current, reader.piece) = [i \in 1 .. size |-> <<"down", Current, Base + i>>]
    BY <1>7 DEF PieceOf, Base
  <2>2. bytes = [i \in 1 .. size |-> bytes[i]]
    BY <1>8
  <2>3. [i \in 1 .. size |-> bytes[i]] = [i \in 1 .. size |-> <<"down", Current, Base + i>>]
    BY <1>8
  <2> QED
    BY <2>1, <2>2, <2>3
<1>12. PieceFound
  <2>1. Current # 0
    BY <1>4
  <2> QED
    BY <1>9, <1>10, <1>11, <2>1 DEF PieceFound
<1> QED
  BY <1>1, <1>3, <1>5, <1>6, <1>10, <1>12 DEF size

\* Piece after piece and message after message, nothing is skipped or read twice.
LEMMA PieceReadInOrder ==
  ASSUME ConnectionTypeOK, PieceRead, UNCHANGED session, Apart,
         Without({"writes", "receive", "sends"}), InOrder
  PROVE  InOrder' \/ Endless'
<1>1. /\ reader.phase = "given" /\ reader.got = reader.want
      /\ PieceGoesOn \/ PieceEnds \/ PieceAstray
      /\ UNCHANGED <<buf_tcp, input, told, down>>
  BY PieceReadMeans
<1>2. /\ Reading /\ PieceSound /\ PieceFound /\ Number = Current /\ Current \in 1 .. Len(told)
      /\ Taken = Base + (reader.already + reader.want)
      /\ buf_len_tcp = Base /\ read_idx_tcp = Base
  BY <1>1, RightPiece
<1>3. /\ reader \in Reader /\ StreamsTyped /\ read \in Seq(1 .. Len(told))
      /\ Len(read) \in Nat /\ Current = Len(read) + 1
  BY DEF ConnectionTypeOK, ClientTyped, ReaderTyped, Current
<1>4. /\ told[Current] \in ServerMessage /\ reader.piece \in DOMAIN Ends[told[Current]]
      /\ reader.already + reader.want = Size(told[Current], reader.piece)
      /\ reader.already \in Nat /\ reader.want \in Nat /\ Base \in Nat
  BY <1>2, PieceFacts
<1>5. /\ Append(down', Writing')[1] = Append(down, Writing)[1] /\ DownSizes' = DownSizes
      /\ Append(down, Writing)[1] = Due
  BY <1>1, StreamStays DEF InOrder
<1>6. CASE PieceGoesOn
  <2> DEFINE p == reader.piece
             kind == told[Current]
  <2>1. /\ p < Len(Ends[kind]) /\ read' = read
        /\ buf_len_tcp' = Base + Size(kind, p) /\ read_idx_tcp' = Base + Size(kind, p)
        /\ reader' = Asking(Current, p + 1, buf_len_tcp', 0, Asked(kind, p + 1))
    BY <1>2, <1>4, <1>6 DEF PieceGoesOn
  <2>2. /\ p + 1 \in DOMAIN Ends[kind] /\ Start(kind, p + 1) = Base + Size(kind, p)
        /\ Size(kind, p + 1) \in Nat \ {0} /\ Size(kind, p) \in Nat
    BY <1>4, <2>1, Pieces DEF Base
  <2>3. /\ reader'.phase = "asked" /\ reader'.number = Current /\ reader'.piece = p + 1
        /\ reader'.already = 0 /\ reader'.at = buf_len_tcp' + 0
        /\ reader'.want = Asked(kind, p + 1) - 0 /\ reader'.got = 0
    BY <2>1 DEF Asking
  <2>4. Current' = Current /\ Base' = Base + Size(kind, p)
    BY <1>1, <2>1, <2>2, <2>3 DEF Current, Base
  <2>5. Taken' = Taken
    BY <1>2, <1>4, <2>2, <2>3, <2>4 DEF Taken, Reading
  <2>6. p + 1 \in 2 .. Len(Ends[kind])
    <3>1. p \in 1 .. Len(Ends[kind]) /\ Len(Ends[kind]) \in Nat
      BY <1>4, Pieces, Lengths
    <3> QED
      BY <2>1, <3>1
  <2>7. ASSUME Asked(kind, p + 1) = Size(kind, p + 1)
        PROVE  PieceSound'
    <3>1. reader'.number = Current' /\ reader'.piece \in 2 .. Len(Ends[told'[Current']])
      BY <1>1, <2>3, <2>4, <2>6
    <3>2. reader'.already + reader'.want = Size(told'[Current'], reader'.piece)
      BY <1>1, <2>2, <2>3, <2>4, <2>7
    <3>3. reader'.at = Base' + reader'.already /\ buf_len_tcp' = Base' /\ read_idx_tcp' = Base'
      BY <1>4, <2>1, <2>2, <2>3, <2>4
    <3>4. reader'.number # 0 /\ Current' <= Len(told')
      BY <1>1, <1>2, <1>3, <2>3, <2>4
    <3>5. 1 .. (reader'.already + reader'.got) = {}
      BY <2>3
    <3> QED
      BY <2>3, <3>1, <3>2, <3>3, <3>4, <3>5 DEF PieceSound
  <2>8. Append(down', Writing')[1] = Due'
    BY <1>5, <2>4, <2>5 DEF Due
  <2>9. Asked(kind, p + 1) \in Nat /\ (Asked(kind, p + 1) = Size(kind, p + 1) \/ Asked(kind, p + 1) >= Wrap)
    BY <1>4, <2>2, AskedFor
  <2>10. ASSUME Asked(kind, p + 1) >= Wrap
         PROVE  Endless'
    <3>1. reader'.already + reader'.want >= Wrap
      BY <2>3, <2>9, <2>10
    <3>2. reader'.at >= reader'.already
      BY <1>4, <2>1, <2>2, <2>3
    <3>3. Reading' /\ reader'.number # 0
      BY <1>2, <2>3 DEF Reading
    <3>4. \A i \in DOMAIN read' : read'[i] = i
      BY <2>1 DEF InOrder
    <3> QED
      BY <3>1, <3>2, <3>3, <3>4 DEF Endless
  <2>11. Asked(kind, p + 1) = Size(kind, p + 1) => InOrder'
    BY <2>1, <2>3, <2>7, <2>8 DEF InOrder
  <2> QED
    BY <2>9, <2>10, <2>11
<1>7. CASE PieceEnds
  <2>1. Resolve(Current) /\ reader.piece = Len(Ends[told[Current]])
    BY <1>2, <1>7 DEF PieceEnds
  <2>2. /\ read' = Append(read, Current) /\ Len(read') = Current /\ Current' = Current + 1
        /\ \A i \in 1 .. Len(read) : read'[i] = read[i]
        /\ read'[Current] = Current /\ DOMAIN read' = 1 .. Current
    <3>1. read' = Append(read, Current)
      BY <2>1 DEF Resolve
    <3> QED
      BY <1>2, <1>3, <3>1, AppendProperties DEF Current
  <2>3. \A i \in DOMAIN read' : read'[i] = i
    <3>1. \A i \in 1 .. Current : i \in 1 .. Len(read) \/ i = Current
      BY <1>3
    <3>2. \A i \in 1 .. Len(read) : read[i] = i
      BY <1>3 DEF InOrder
    <3> QED
      BY <2>2, <3>1, <3>2
  <2>4. Taken = DownSizes[Current] /\ Current \in DOMAIN DownSizes
    <3>1. Start(told[Current], reader.piece) + Size(told[Current], reader.piece) = Length(told[Current])
      BY <1>4, <2>1, Pieces
    <3> QED
      BY <1>2, <1>3, <1>4, <3>1, DownSizesTyped DEF Base
  <2>5. Due = <<"down", Current + 1, 1>>
    BY <2>4 DEF Due, After
  <2>6. reader'.phase # "astray" /\ (Reading' => PieceSound') /\ Taken' = 0
    <3>1. CASE told[Current] = "GameStarted"
      <4>1. reader' = Asking(0, 1, 0, 0, 1) /\ buf_len_tcp' = 0 /\ read_idx_tcp' = 0
        BY <2>1, <3>1 DEF Resolve, NextMessage, ClearBuffer
      <4> QED
        BY <4>1, ReadAnew
    <3>2. CASE told[Current] # "GameStarted"
      <4>1. reader'.phase = "drawing"
        BY <1>3, <2>1, <3>2 DEF Resolve, Reader
      <4>2. ~ Reading'
        BY <4>1 DEF Reading
      <4> QED
        BY <4>1, <4>2 DEF Taken
    <3> QED
      BY <3>1, <3>2
  <2>7. Due' = <<"down", Current + 1, 1>>
    <3>1. After(Current + 1, 0, "down", DownSizes) = <<"down", Current + 1, 1>>
      BY <1>3, AfterNone
    <3> QED
      BY <1>5, <2>2, <2>6, <3>1 DEF Due
  <2> QED
    BY <1>5, <2>3, <2>5, <2>6, <2>7 DEF InOrder
<1> QED
  BY <1>1, <1>2, <1>6, <1>7 DEF PieceAstray

\* A drawing comes between two messages.
LEMMA DrawingInOrder ==
  ASSUME ConnectionTypeOK, DrawingSent \/ DrawingResumed, UNCHANGED session, InOrder
  PROVE  InOrder'
<1>1. /\ reader \in Reader /\ UNCHANGED <<read, told, down>>
  BY DEF ConnectionTypeOK, ClientTyped, ReaderTyped, DrawingSent, DrawingResumed
<1>2. ~ Reading /\ Taken = 0
  BY DEF DrawingSent, DrawingResumed, Reading, Taken
<1>3. reader'.phase # "astray" /\ (Reading' => PieceSound') /\ Taken' = 0
  <2>1. CASE DrawingSent
    <3>1. reader'.phase = "drawn"
      BY <1>1, <2>1 DEF DrawingSent, Reader
    <3>2. ~ Reading'
      BY <3>1 DEF Reading
    <3> QED
      BY <3>1, <3>2 DEF Taken
  <2>2. CASE DrawingResumed
    BY <2>2, ReadAnew DEF DrawingResumed, NextMessage, ClearBuffer
  <2> QED
    BY <2>1, <2>2
<1>4. Append(down', Writing')[1] = Append(down, Writing)[1] /\ DownSizes' = DownSizes
  BY <1>1, StreamStays
<1>5. Due' = Due
  BY <1>1, <1>2, <1>3, <1>4 DEF Due, Current
<1> QED
  BY <1>1, <1>3, <1>4, <1>5 DEF InOrder

\* An input leaves the reader and its buffer alone, and so does the socket that takes
\* what is sent.
LEMMA InputInOrder ==
  ASSUME InOrder, UNCHANGED session,
         UNCHANGED <<told, down, reader, read, buf_tcp, buf_len_tcp, read_idx_tcp>>,
         input'.phase \notin {"sending", "sent"} => input.phase \notin {"sending", "sent"}
  PROVE  InOrder'
<1>1. /\ Append(down', Writing')[1] = Append(down, Writing)[1] /\ DownSizes' = DownSizes
  BY StreamStays
<1>2. Reading' = Reading /\ Taken' = Taken /\ Base' = Base /\ Current' = Current
  BY DEF Reading, Taken, Base, Current
<1>3. Due' = Due
  BY <1>1, <1>2 DEF Due
<1>4. ASSUME Reading PROVE PieceSound'
  <2>1. PieceSound
    BY <1>4 DEF InOrder
  <2> QED
    BY <1>2, <2>1 DEF PieceSound
<1> QED
  BY <1>1, <1>2, <1>3, <1>4 DEF InOrder

\* Between two messages the client may put one of its own into the buffer, or clear it.
LEMMA SendInOrder ==
  ASSUME ConnectionTypeOK, InOrder, UNCHANGED session, UNCHANGED <<told, down, reader, read>>, ~ MidMessage,
         \/ input'.phase \in {"sending", "sent"}
         \/ buf_len_tcp' = 0 /\ read_idx_tcp' = 0
  PROVE  InOrder'
<1>1. /\ Append(down', Writing')[1] = Append(down, Writing)[1] /\ DownSizes' = DownSizes
  BY StreamStays
<1>2. Reading' = Reading /\ Taken' = Taken /\ Base' = Base /\ Current' = Current
  BY DEF Reading, Taken, Base, Current
<1>3. Due' = Due
  BY <1>1, <1>2 DEF Due
<1>4. ASSUME Reading PROVE PieceSound'
  <2>1. PieceSound
    BY <1>4 DEF InOrder
  <2>2. reader.number = 0 /\ reader.phase = "asked"
    BY <1>4 DEF Reading, MidMessage
  <2>3. Base = 0 /\ reader.already = 0 /\ reader.got = 0
    BY <1>4, <2>1, <2>2, PieceFacts DEF PieceSound
  <2>4. 1 .. (reader'.already + reader'.got) = {}
    BY <2>3
  <2>5. input'.phase \notin {"sending", "sent"} => buf_len_tcp' = Base' /\ read_idx_tcp' = Base'
    BY <1>2, <2>3
  <2>6. /\ Taken' # 0 => Current' <= Len(told')
        /\ IF reader'.number = 0
           THEN reader'.piece = 1 /\ reader'.already = 0 /\ reader'.want = 1
           ELSE /\ reader'.number = Current'
                /\ reader'.piece \in 2 .. Len(Ends[told'[Current']])
                /\ reader'.already + reader'.want = Size(told'[Current'], reader'.piece)
        /\ reader'.at = Base' + reader'.already
        /\ IF reader'.phase = "asked" THEN reader'.got = 0 ELSE reader'.got \in 1 .. reader'.want
    BY <1>2, <2>1 DEF PieceSound
  <2> QED
    BY <2>4, <2>5, <2>6 DEF PieceSound
<1> QED
  BY <1>1, <1>2, <1>3, <1>4 DEF InOrder

\* A string that no buffer holds is read until the buffer is full.
LEMMA EndlessStep ==
  ASSUME ConnectionTypeOK, Apart, "overflow" \notin overlaps, Step, Endless
  PROVE  Endless'
<1>1. /\ reader \in Reader /\ reader.phase \in {"asked", "given"} /\ reader.number # 0
      /\ reader.phase = "given" => reader.got \in 1 .. reader.want
      /\ buf_len_tcp \in Nat /\ Wrap \in Nat /\ BuffSize \in Nat /\ BuffSize < Wrap
  BY StreamsAssumption DEF ConnectionTypeOK, ClientTyped, ReaderTyped, Endless, Reading, StreamsAssumption
<1>2. /\ reader.already \in Nat /\ reader.want \in Nat /\ reader.at \in Nat /\ reader.got \in Nat
      /\ reader.already + reader.want >= Wrap /\ reader.at >= reader.already
  BY <1>1 DEF Reader, Endless
<1>3. CASE UNCHANGED <<reader, read>>
  BY <1>3 DEF Endless, Reading
<1>4. CASE ReaderTakes
  <2>1. /\ reader'.phase = "given" /\ reader'.number = reader.number /\ reader'.already = reader.already
        /\ reader'.at = reader.at /\ reader'.want = reader.want /\ read' = read
    BY <1>1, <1>4 DEF ReaderTakes, Reader
  <2> QED
    BY <2>1 DEF Endless, Reading
<1>5. CASE ReadsOn
  <2>1. /\ reader'.phase = "asked" /\ reader'.number = reader.number /\ read' = read
        /\ reader'.already = reader.already + reader.got
        /\ reader'.at = buf_len_tcp + (reader.already + reader.got)
        /\ reader'.want = (reader.already + reader.want) - (reader.already + reader.got)
    BY <1>5 DEF ReadsOn, Asking
  <2>2. reader'.already + reader'.want >= Wrap /\ reader'.at >= reader'.already
    BY <1>1, <1>2, <2>1
  <2> QED
    BY <1>1, <2>1, <2>2 DEF Endless, Reading
<1>6. ~ PieceRead
  <2>1. PieceRead => reader.phase = "given" /\ reader.got = reader.want
    BY DEF PieceRead
  <2>2. reader.got = reader.want => reader.at + reader.got > BuffSize
    BY <1>1, <1>2
  <2> QED
    BY <2>1, <2>2 DEF Apart
<1>7. ~ DrawingSent /\ ~ DrawingResumed
  BY <1>1 DEF DrawingSent, DrawingResumed
<1> QED
  BY <1>3, <1>4, <1>5, <1>6, <1>7 DEF Step, client, InputArrives, InputRead, SendTaken, SendResumed

LEMMA ReaderStep ==
  ASSUME ConnectionTypeOK, Apart, Apart', overlaps \subseteq overlaps', "overflow" \notin overlaps, Step,
         DownSound, ReaderSound
  PROVE  ReaderSound'
<1> SUFFICES ASSUME Without({"writes", "receive", "sends"})', InOrder
             PROVE  InOrder' \/ Endless'
  BY EndlessStep DEF ReaderSound, Without
<1>1. InOrder /\ OneWrite /\ Without({"writes", "receive", "sends"})
  BY DEF DownSound, Without
<1>2. /\ Len(writes') + Len(resumed') <= 1
      /\ ~ (receive'.phase = "taken" /\ writes' \o resumed' # <<>>)
      /\ ~ (input.phase \in {"sending", "sent"} /\ MidMessage)
      /\ ~ (input'.phase \in {"sending", "sent"} /\ MidMessage')
  BY <1>1 DEF Apart, Without
<1>3. input \in [phase : {"asked", "given", "sending", "sent"}, kind : Outgoing \cup {"none"}, taken : Nat]
  BY DEF ConnectionTypeOK, ClientTyped
<1>4. CASE /\ UNCHANGED client
           /\ \/ \E kind \in ServerMessage : SendToClient(kind)
              \/ SocketTakes \/ WriteGoesOn \/ ReadMessage \/ SocketGives \/ Receive
  <2>1. Longer
    BY <1>4 DEF Longer, SendToClient, SocketTakes, WriteGoesOn, ReadMessage, SocketGives, Receive
  <2>2. Append(down', Writing')[1] = Append(down, Writing)[1]
    <3>1. ASSUME NEW kind \in ServerMessage, SendToClient(kind)
          PROVE  Append(down', Writing')[1] = Append(down, Writing)[1]
      <4>1. Writing' = Writing
        BY <1>1, <1>2, <1>4, <3>1, SendToClientDown
      <4> QED
        BY <3>1, <4>1 DEF SendToClient
    <3>2. CASE SocketTakes
      BY <1>1, <1>4, <3>2, SocketTakesDown
    <3>3. CASE WriteGoesOn
      BY <1>1, <1>4, <3>3, WriteGoesOnDown DEF WriteGoesOn
    <3>4. CASE SocketGives
      BY <1>1, <1>2, <1>4, <3>4, SocketGivesDown DEF SocketGives
    <3>5. CASE ReadMessage \/ Receive
      BY <1>1, <3>5, DownStays DEF ReadMessage, Receive
    <3> QED
      BY <1>4, <3>1, <3>2, <3>3, <3>4, <3>5
  <2> QED
    BY <1>1, <1>4, <2>1, <2>2, SessionStepInOrder
<1>5. CASE UNCHANGED session /\ (ReaderTakes \/ ReadsOn \/ PieceRead \/ DrawingSent \/ DrawingResumed)
  BY <1>1, <1>5, ReaderTakesInOrder, ReadsOnInOrder, PieceReadInOrder, DrawingInOrder
<1>6. ASSUME UNCHANGED session, NEW kind \in Input, InputArrives(kind)
      PROVE  InOrder'
  BY <1>1, <1>3, <1>6, InputInOrder DEF InputArrives
<1>7. CASE UNCHANGED session /\ InputRead
  <2>1. UNCHANGED <<told, down, reader, read>> /\ input.phase = "given"
    BY <1>7 DEF InputRead
  <2>2. CASE input' = AskInput /\ UNCHANGED <<buf_tcp, buf_len_tcp, read_idx_tcp>>
    BY <1>1, <1>7, <2>1, <2>2, InputInOrder
  <2>3. CASE input'.phase = "sending"
    <3>1. ~ MidMessage
      BY <1>2, <2>1, <2>3 DEF MidMessage
    <3> QED
      BY <1>1, <1>7, <2>1, <2>3, <3>1, SendInOrder
  <2> QED
    BY <1>7, <2>2, <2>3 DEF InputRead, Send
<1>8. CASE UNCHANGED session /\ SendTaken
  BY <1>1, <1>3, <1>8, InputInOrder DEF SendTaken
<1>9. CASE UNCHANGED session /\ SendResumed
  <2>1. UNCHANGED <<told, down, reader, read>> /\ input.phase = "sent"
    BY <1>9 DEF SendResumed
  <2>2. ~ MidMessage
    BY <1>2, <2>1
  <2>3. input'.phase = "sending" \/ (buf_len_tcp' = 0 /\ read_idx_tcp' = 0)
    BY <1>9 DEF SendResumed, Send, ClearBuffer
  <2> QED
    BY <1>1, <1>9, <2>1, <2>2, <2>3, SendInOrder
<1> QED
  BY <1>4, <1>5, <1>6, <1>7, <1>8, <1>9 DEF Step

---------------------------------------------------------------------------
(* The client's sending.                                                   *)

LEMMA UpSizesTyped ==
  ASSUME StreamsTyped
  PROVE  /\ DOMAIN UpSizes = 1 .. Len(called) /\ Len(called) \in Nat
         /\ \A n \in 1 .. Len(called) : UpSizes[n] = ClientMessage[called[n]] /\ UpSizes[n] \in Nat \ {0}
         /\ Sending \in Place
BY Lengths DEF StreamsTyped, UpSizes, Sending, Place

\* A message is put whole into the buffer, behind what was sent before it.
LEMMA SendSound ==
  ASSUME ConnectionTypeOK, NEW kind \in Outgoing, Send(kind), up' = up,
         input.phase # "sending", SentInOrder
  PROVE  SentInOrder'
<1>1. /\ StreamsTyped /\ called' = Append(called, kind)
      /\ buf_tcp \in [DOMAIN buf_tcp -> Byte]
      /\ input'.phase = "sending" /\ input'.kind = kind
      /\ buf_tcp' = Fill(buf_tcp, 0, Bytes("up", Len(called) + 1, ClientMessage[kind]))
  BY DEF ConnectionTypeOK, ClientTyped, Send
<1>2. /\ Len(called) \in Nat /\ Len(called') = Len(called) + 1 /\ called' # <<>> /\ called'[Len(called')] = kind
      /\ called' \in Seq(Outgoing) /\ \A n \in 1 .. Len(called) : called'[n] = called[n]
  BY <1>1, AppendProperties DEF StreamsTyped
<1>3. Sending' = Sending
  BY <1>1, <1>2 DEF Sending
<1>4. Follows(Append(up', Sending'), "up", UpSizes')
  <2>1. \A n \in DOMAIN UpSizes : n \in DOMAIN UpSizes' /\ UpSizes'[n] = UpSizes[n]
    BY <1>2 DEF UpSizes
  <2>2. Follows(Append(up, Sending), "up", UpSizes)
    BY DEF SentInOrder
  <2> QED
    BY <1>3, <2>1, <2>2, FollowsKnown
<1>5. \A a \in 0 .. (ClientMessage[kind] - 1) :
        a \in DOMAIN buf_tcp' /\ buf_tcp'[a] = <<"up", Len(called'), a + 1>>
  <2> DEFINE N == Len(called) + 1
             L == ClientMessage[kind]
             bytes == Bytes("up", N, L)
             S == Place
  <2>1. L \in Nat \ {0} /\ N \in Nat /\ N = Len(called')
    BY <1>2, Lengths
  <2>2. \A i \in Nat \ {0} : <<"up", N, i>> \in S
    BY <2>1 DEF Place
  <2>3. bytes \in Seq(S) /\ Len(bytes) = L /\ \A i \in 1 .. L : bytes[i] = <<"up", N, i>>
    <3> HIDE DEF N, L, S
    <3>1. L \in Nat
      BY <2>1
    <3>2. \A i \in 1 .. L : <<"up", N, i>> \in S
      BY <2>2, <3>1
    <3> QED
      BY <3>1, <3>2 DEF Bytes
  <2>4. Unset \in S /\ buf_tcp \in [DOMAIN buf_tcp -> S] /\ buf_tcp' = Fill(buf_tcp, 0, bytes)
    <3>1. Unset \in Byte
      BY DEF Byte
    <3> QED
      BY <1>1, <3>1, BytesArePlaces
  <2> HIDE DEF N, L, bytes, S
  <2>5. \A a \in 0 .. (L - 1) : a \in DOMAIN buf_tcp' /\ buf_tcp'[a] = bytes[a + 1]
    BY <2>1, <2>3, <2>4, AtStart
  <2>6. \A a \in 0 .. (L - 1) : a + 1 \in 1 .. L
    BY <2>1
  <2>7. \A a \in 0 .. (L - 1) : a \in DOMAIN buf_tcp' /\ buf_tcp'[a] = <<"up", N, a + 1>>
    BY <2>3, <2>5, <2>6
  <2> QED
    BY <2>1, <2>7 DEF L
<1>6. Append(up', Sending')[1] = <<"up", 1, 1>>
  BY <1>3 DEF SentInOrder
<1> QED
  BY <1>1, <1>2, <1>4, <1>5, <1>6 DEF SentInOrder

\* What the socket takes at once is the message.
LEMMA SendTakenSound ==
  ASSUME ConnectionTypeOK, SendTaken, SentInOrder,
         input'.phase = "sent" => ~ (input'.taken < ClientMessage[input'.kind])
  PROVE  SentInOrder'
<1>1. PICK k \in 1 .. ClientMessage[input.kind] :
        /\ up' = up \o At(buf_tcp, 0, k)
        /\ input' = [input EXCEPT !.phase = "sent", !.taken = k]
  BY DEF SendTaken
<1>2. /\ input \in [phase : {"asked", "given", "sending", "sent"}, kind : Outgoing \cup {"none"}, taken : Nat]
      /\ input.phase = "sending" /\ input.kind \in Outgoing /\ called' = called
      /\ StreamsTyped /\ up \in Seq(Place) /\ buf_tcp \in [DOMAIN buf_tcp -> Byte]
  BY BytesArePlaces DEF ConnectionTypeOK, ClientTyped, SendTaken
<1> DEFINE L == ClientMessage[input.kind]
           N == Len(called)
           bytes == At(buf_tcp, 0, k)
<1>3. L \in Nat \ {0} /\ k \in 1 .. L
  BY <1>2, Lengths
<1>4. input'.phase = "sent" /\ input'.kind = input.kind /\ input'.taken = k
  BY <1>1, <1>2
<1>5. k = L
  <2>1. ~ (k < L)
    BY <1>4
  <2> QED
    BY <1>3, <2>1
<1>6. /\ N \in DOMAIN UpSizes /\ UpSizes[N] = L /\ N \in Nat
      /\ Sending = <<"up", N, 1>> /\ Sending' = <<"up", N + 1, 1>> /\ Sending \in Place /\ Sending' \in Place
  <2>1. called # <<>> /\ called[N] = input.kind
    BY <1>2 DEF SentInOrder
  <2>2. N \in 1 .. Len(called) /\ N \in Nat
    BY <1>2, <2>1 DEF StreamsTyped
  <2>3. Sending = <<"up", N, 1>> /\ Sending' = <<"up", N + 1, 1>>
    BY <1>2, <1>4 DEF Sending
  <2> QED
    BY <1>2, <2>1, <2>2, <2>3, UpSizesTyped DEF Place
<1>7. /\ bytes \in Seq(Place) /\ Len(bytes) = L /\ \A i \in 1 .. L : bytes[i] = <<"up", N, i>>
  <2>1. PICK zero \in Nat : zero = 0
    OBVIOUS
  <2>2. Unset \in Byte
    BY DEF Byte
  <2> HIDE DEF L, N
  <2>3. At(buf_tcp, zero, k) \in Seq(Byte) /\ Len(At(buf_tcp, zero, k)) = k
    BY <1>2, <1>3, <2>2, Found
  <2>4. \A i \in 1 .. k : i - 1 \in DOMAIN buf_tcp => bytes[i] = buf_tcp[i - 1]
    <3>1. \A i \in 1 .. k : zero + i - 1 \in DOMAIN buf_tcp => At(buf_tcp, zero, k)[i] = buf_tcp[zero + i - 1]
      BY <1>2, <1>3, <2>2, Found
    <3>2. \A i \in 1 .. k : zero + i - 1 = i - 1
      BY <1>3, <2>1
    <3> QED
      BY <2>1, <3>1, <3>2
  <2>5. \A a \in 0 .. (L - 1) : a \in DOMAIN buf_tcp /\ buf_tcp[a] = <<"up", N, a + 1>>
    BY <1>2 DEF SentInOrder, L, N
  <2>6. \A i \in 1 .. L : i - 1 \in 0 .. (L - 1) /\ (i - 1) + 1 = i
    BY <1>3
  <2>7. \A i \in 1 .. L : bytes[i] = <<"up", N, i>>
    BY <1>5, <2>4, <2>5, <2>6
  <2>8. bytes \in Seq(Place)
    BY <1>2, <2>1, <2>3, BytesArePlaces, SeqMonotonic
  <2> QED
    BY <1>5, <2>1, <2>3, <2>7, <2>8
<1>8. up' = up \o bytes /\ After(N, L, "up", UpSizes) = Sending'
  BY <1>1, <1>6 DEF After
<1> HIDE DEF L, N, bytes
<1>9. Follows(Append(up', Sending'), "up", UpSizes')
  <2>1. PICK p \in Nat : p = 0
    OBVIOUS
  <2>2. /\ \A i \in 1 .. Len(bytes) : bytes[i] = <<"up", N, p + i>>
        /\ p + Len(bytes) = L /\ <<"up", N, p + 1>> = Sending /\ bytes # <<>>
    <3>1. \A i \in 1 .. L : p + i = i
      BY <1>3, <2>1
    <3>2. p + 1 = 1 /\ p + L = L
      BY <1>3, <2>1
    <3>3. bytes # <<>>
      BY <1>3, <1>7
    <3> QED
      BY <1>6, <1>7, <3>1, <3>2, <3>3
  <2>3. Follows(Append(up, <<"up", N, p + 1>>), "up", UpSizes)
    BY <2>2 DEF SentInOrder
  <2>4. \A m \in DOMAIN UpSizes : UpSizes[m] \in Nat
    BY <1>2, UpSizesTyped
  <2>5. After(N, p + Len(bytes), "up", UpSizes) = Sending' /\ p + Len(bytes) <= UpSizes[N]
    BY <1>3, <1>6, <1>8, <2>2
  <2>6. Follows(Append(up \o bytes, After(N, p + Len(bytes), "up", UpSizes)), "up", UpSizes)
    BY <1>2, <1>6, <1>7, <2>2, <2>3, <2>4, <2>5, FollowsGrows
  <2>7. UpSizes' = UpSizes
    BY <1>2 DEF UpSizes
  <2> QED
    BY <1>8, <2>5, <2>6, <2>7
<1>10. Append(up', Sending')[1] = <<"up", 1, 1>>
  <2>1. Append(up, Sending)[1] = <<"up", 1, 1>>
    BY DEF SentInOrder
  <2>2. /\ \A i \in 1 .. Len(up) : Append(up', Sending')[i] = up[i]
        /\ \A m \in 1 .. Len(bytes) : Append(up', Sending')[Len(up) + m] = bytes[m]
    <3>1. PICK next : next = Sending'
      OBVIOUS
    <3>2. up \in Seq(Place) /\ bytes \in Seq(Place) /\ next \in Place /\ up' = up \o bytes
      BY <1>2, <1>6, <1>7, <1>8, <3>1
    <3>3. /\ \A i \in 1 .. Len(up) : Append(up', next)[i] = up[i]
          /\ \A m \in 1 .. Len(bytes) : Append(up', next)[Len(up) + m] = bytes[m]
      BY <3>2, Joined
    <3> QED
      BY <3>1, <3>3
  <2>3. CASE up = <<>>
    <3>1. Append(up, Sending)[1] = <<"up", N, 1>>
      BY <1>6, <2>3
    <3>2. Len(up) = 0 /\ 1 \in 1 .. L /\ Len(up) + 1 = 1
      BY <1>3, <2>3
    <3> QED
      BY <1>7, <2>1, <2>2, <3>1, <3>2
  <2>4. CASE up # <<>>
    <3>1. 1 \in 1 .. Len(up)
      BY <1>2, <2>4
    <3>2. Append(up, Sending)[1] = up[1]
      BY <1>2, <1>6, <3>1, AppendProperties
    <3> QED
      BY <2>1, <2>2, <3>1, <3>2
  <2> QED
    BY <2>3, <2>4
<1> QED
  BY <1>4, <1>9, <1>10 DEF SentInOrder

\* What is not on its way to the socket is not changed by what becomes of the buffer.
LEMMA SentStays ==
  ASSUME SentInOrder, UNCHANGED <<up, called>>,
         \/ UNCHANGED <<input, buf_tcp>>
         \/ input.phase # "sending" /\ input'.phase # "sending"
  PROVE  SentInOrder'
<1>1. Sending' = Sending /\ UpSizes' = UpSizes
  BY DEF Sending, UpSizes
<1> QED
  BY <1>1 DEF SentInOrder

LEMMA UpStep ==
  ASSUME ConnectionTypeOK, Apart', overlaps \subseteq overlaps', Step, UpSound
  PROVE  UpSound'
<1> SUFFICES ASSUME Without({"sends", "short"})'
             PROVE  SentInOrder'
  BY DEF UpSound
<1>1. SentInOrder
  BY DEF UpSound, Without
<1>2. /\ ~ (input'.phase \in {"sending", "sent"} /\ MidMessage')
      /\ input'.phase = "sent" => ~ (input'.taken < ClientMessage[input'.kind])
  BY DEF Apart, Without
<1>3. /\ input \in [phase : {"asked", "given", "sending", "sent"}, kind : Outgoing \cup {"none"}, taken : Nat]
      /\ reader \in Reader
  BY DEF ConnectionTypeOK, ClientTyped, ReaderTyped
<1>4. CASE /\ UNCHANGED client
           /\ \/ \E kind \in ServerMessage : SendToClient(kind)
              \/ SocketTakes \/ WriteGoesOn \/ ReadMessage \/ SocketGives \/ Receive
  <2>1. UNCHANGED <<up, called, input, buf_tcp>>
    BY <1>4 DEF client, SendToClient, SocketTakes, WriteGoesOn, ReadMessage, SocketGives, Receive
  <2> QED
    BY <1>1, <2>1, SentStays
<1>5. CASE ReaderTakes
  <2>1. reader'.phase = "given" /\ UNCHANGED <<up, called, input>>
    BY <1>3, <1>5 DEF ReaderTakes, Reader
  <2>2. input.phase # "sending" /\ input'.phase # "sending"
    BY <1>2, <2>1 DEF MidMessage
  <2> QED
    BY <1>1, <2>1, <2>2, SentStays
<1>6. CASE ReadsOn \/ PieceRead \/ DrawingSent \/ DrawingResumed
  <2>1. UNCHANGED <<up, called, input, buf_tcp>>
    BY <1>6 DEF ReadsOn, PieceRead, DrawingSent, DrawingResumed
  <2> QED
    BY <1>1, <2>1, SentStays
<1>7. ASSUME NEW kind \in Input, InputArrives(kind)
      PROVE  SentInOrder'
  <2>1. UNCHANGED <<up, called>> /\ input.phase = "asked" /\ input'.phase = "given"
    BY <1>3, <1>7 DEF InputArrives
  <2> QED
    BY <1>1, <2>1, SentStays
<1>8. CASE InputRead
  <2>1. input.phase = "given" /\ up' = up
    BY <1>8 DEF InputRead
  <2>2. CASE InputSeen = "Invalid"
    <3>1. input'.phase = "asked" /\ called' = called
      BY <1>8, <2>2 DEF InputRead, AskInput
    <3> QED
      BY <1>1, <2>1, <3>1, SentStays
  <2>3. CASE InputSeen # "Invalid"
    <3>1. (IF in_lobby THEN "Join" ELSE InputSeen) \in Outgoing
      BY <2>1, <2>3, InputSeenTyped DEF Outgoing
    <3>2. Send(IF in_lobby THEN "Join" ELSE InputSeen)
      BY <1>8, <2>3 DEF InputRead
    <3> QED
      BY <1>1, <2>1, <3>1, <3>2, SendSound
  <2> QED
    BY <2>2, <2>3
<1>9. CASE SendTaken
  BY <1>1, <1>2, <1>9, SendTakenSound
<1>10. CASE SendResumed
  <2>1. input.phase = "sent" /\ up' = up
    BY <1>10 DEF SendResumed
  <2>2. CASE input.kind # "Join" /\ in_lobby
    <3>1. Send("Join") /\ "Join" \in Outgoing
      BY <1>10, <2>2 DEF SendResumed, Outgoing
    <3> QED
      BY <1>1, <2>1, <3>1, SendSound
  <2>3. CASE ~ (input.kind # "Join" /\ in_lobby)
    <3>1. input'.phase = "asked" /\ called' = called
      BY <1>10, <2>3 DEF SendResumed, AskInput
    <3> QED
      BY <1>1, <2>1, <3>1, SentStays
  <2> QED
    BY <2>2, <2>3
<1> QED
  BY <1>4, <1>5, <1>6, <1>7, <1>8, <1>9, <1>10 DEF Step

---------------------------------------------------------------------------
(* The session's reading.                                                  *)

\* The socket gives the first bytes there are, at the start of the buffer.
LEMMA SocketGivesHeard ==
  ASSUME ConnectionTypeOK, SocketGives, FirstHeard
  PROVE  FirstHeard'
<1>1. PICK k \in 1 .. (Len(up) - up_taken) :
        /\ buffer' = Fill(buffer, receive.at, SubSeq(up, up_taken + 1, up_taken + k))
        /\ receive' = [receive EXCEPT !.len = k, !.phase = "taken"]
  BY DEF SocketGives
<1>2. /\ receive \in [at : Nat, len : Nat, phase : {"none", "pending", "taken", "over", "thrown"}]
      /\ buffer \in [DOMAIN buffer -> Byte] /\ up \in Seq(Byte) /\ Len(up) \in Nat
      /\ UNCHANGED <<heard, buf_len, read_idx, up>> /\ receive.phase = "pending"
  BY DEF ConnectionTypeOK, SessionTyped, StreamsTyped, SocketGives
<1>3. heard = <<>> /\ buf_len = 0 /\ read_idx = 0 /\ receive.at = 0 /\ up_taken = 0
  BY <1>2 DEF FirstHeard
<1>4. k \in 1 .. Len(up) /\ receive'.at = 0 /\ receive'.len = k /\ receive'.phase = "taken"
  BY <1>1, <1>2, <1>3
<1>5. \A a \in 0 .. (k - 1) : a \in DOMAIN buffer' /\ buffer'[a] = up[a + 1]
  <2> DEFINE bytes == SubSeq(up, 1, k)
  <2>1. buffer' = Fill(buffer, 0, bytes)
    BY <1>1, <1>2, <1>3, <1>4
  <2>2. bytes \in Seq(Byte) /\ Len(bytes) = k /\ \A i \in 1 .. k : bytes[i] = up[i]
    BY <1>2, <1>4
  <2>3. Unset \in Byte
    BY DEF Byte
  <2> HIDE DEF bytes
  <2>4. \A a \in 0 .. (k - 1) : a \in DOMAIN buffer' /\ buffer'[a] = bytes[a + 1]
    BY <1>2, <2>1, <2>2, <2>3, AtStart
  <2>5. \A a \in 0 .. (k - 1) : a + 1 \in 1 .. k
    BY <1>4
  <2> QED
    BY <2>2, <2>4, <2>5
<1> QED
  BY <1>2, <1>3, <1>4, <1>5 DEF FirstHeard

\* The handler reads the first message that was sent.
LEMMA ReceiveHeard ==
  ASSUME ConnectionTypeOK, Receive, FirstHeard, SentInOrder,
         ~ (receive.len < ClientMessage[called[1]])
  PROVE  FirstHeard'
<1>1. /\ receive \in [at : Nat, len : Nat, phase : {"none", "pending", "taken", "over", "thrown"}]
      /\ buffer \in [DOMAIN buffer -> Byte] /\ up \in Seq(Byte) /\ up \in Seq(Place) /\ Len(up) \in Nat
      /\ receive.phase = "taken" /\ StreamsTyped /\ Unset \in Byte
  BY BytesArePlaces DEF ConnectionTypeOK, SessionTyped, StreamsTyped, Receive, Byte
<1>2. /\ heard = <<>> /\ read_idx = 0 /\ receive.len \in 1 .. Len(up)
      /\ \A a \in 0 .. (receive.len - 1) : a \in DOMAIN buffer /\ buffer[a] = up[a + 1]
  BY <1>1 DEF FirstHeard
<1>3. Sending \in Place
  BY <1>1, UpSizesTyped
<1>4. /\ DOMAIN Append(up, Sending) = 1 .. (Len(up) + 1)
      /\ \A i \in 1 .. Len(up) : Append(up, Sending)[i] = up[i]
  BY <1>1, <1>3, AppendProperties
<1>5. up[1] = <<"up", 1, 1>> /\ 1 \in 1 .. Len(up)
  BY <1>1, <1>2, <1>4 DEF SentInOrder
<1>6. 1 \in 1 .. Len(called)
  <2>0. up \in Seq(Byte) /\ Len(up) \in Nat
    BY <1>1
  <2>1. up[1] \in Byte
    BY <2>0, <1>5
  <2>2. <<"up", 1, 1>> \in Byte
    BY <2>1, <1>5
  <2> QED
    BY <2>2 DEF Byte, Unset
<1> DEFINE size == ClientMessage[called[1]]
           found(n) == At(buffer, 0, n)
<1>7. /\ 1 \in DOMAIN UpSizes /\ UpSizes[1] = size /\ size \in Nat \ {0}
  BY <1>1, <1>6, UpSizesTyped
<1>8. size <= receive.len /\ size <= Len(up)
  BY <1>1, <1>2, <1>7
<1> HIDE DEF size
<1>9. \A i \in 1 .. size : up[i] = <<"up", 1, i>>
  <2>1. Follows(Append(up, Sending), "up", UpSizes) /\ Append(up, Sending)[1] = <<"up", 1, 1>>
    BY DEF SentInOrder
  <2>2. After(1, 0, "up", UpSizes) = <<"up", 1, 1>>
    BY <1>7 DEF After
  <2>3. PICK stream, way, sizes, n, t :
          /\ stream = Append(up, Sending) /\ way = "up" /\ sizes = UpSizes /\ n = 1 /\ t = 0
          /\ Follows(stream, way, sizes) /\ n \in DOMAIN sizes /\ sizes[n] \in Nat /\ t \in Nat
          /\ t + size <= sizes[n] /\ (\A i \in 1 .. (size + 1) : i \in DOMAIN stream) /\ stream[1] = After(n, t, way, sizes)
    <3>1. \A i \in 1 .. (size + 1) : i \in DOMAIN Append(up, Sending)
      BY <1>1, <1>4, <1>7, <1>8
    <3>2. 0 + size <= UpSizes[1] /\ UpSizes[1] \in Nat /\ 0 \in Nat
      BY <1>7
    <3> QED
      BY <1>7, <2>1, <2>2, <3>1, <3>2, Zenon
  <2>4. /\ Follows(stream, way, sizes) /\ n \in DOMAIN sizes /\ sizes[n] \in Nat /\ t \in Nat
        /\ t + size <= sizes[n] /\ (\A i \in 1 .. (size + 1) : i \in DOMAIN stream) /\ stream[1] = After(n, t, way, sizes)
    BY <2>3
  <2>5. \A i \in 1 .. size : stream[i] = <<way, n, t + i>>
    BY <1>7, <2>4, StreamRead
  <2>6. \A i \in 1 .. size : t + i = i /\ i \in 1 .. Len(up)
    BY <1>1, <1>7, <1>8, <2>3
  <2> QED
    BY <1>4, <2>3, <2>5, <2>6
<1>10. /\ found(size) = Bytes("up", 1, size)
       /\ found(1)[1] = <<"up", 1, 1>>
  <2>1. \A n \in Nat, i \in Nat : i \in 1 .. n /\ i <= receive.len => found(n)[i] = up[i]
    <3> SUFFICES ASSUME NEW n \in Nat, NEW i \in Nat, i \in 1 .. n, i <= receive.len
                 PROVE  found(n)[i] = up[i]
      OBVIOUS
    <3>1. i - 1 \in 0 .. (receive.len - 1) /\ (i - 1) + 1 = i
      BY <1>1
    <3>2. i - 1 \in DOMAIN buffer => found(n)[i] = buffer[i - 1]
      BY <1>1, AtStart
    <3> QED
      BY <1>2, <3>1, <3>2
  <2>2. \A i \in 1 .. size : found(size)[i] = <<"up", 1, i>>
    BY <1>1, <1>7, <1>8, <1>9, <2>1
  <2>3. found(1)[1] = <<"up", 1, 1>>
    BY <1>1, <1>2, <1>5, <2>1
  <2>4. found(size) = [i \in 1 .. size |-> found(size)[i]]
    <3>1. found(size) = [i \in 1 .. size |-> IF 0 + i - 1 \in DOMAIN buffer THEN buffer[0 + i - 1] ELSE Unset]
      BY DEF At
    <3> HIDE DEF found
    <3> QED
      BY <3>1
  <2>5. [i \in 1 .. size |-> found(size)[i]] = [i \in 1 .. size |-> <<"up", 1, i>>]
    BY <2>2
  <2> QED
    BY <2>3, <2>4, <2>5 DEF Bytes
<1>11. receive'.phase = "over" => heard' = <<1>>
  <2> SUFFICES ASSUME receive'.phase = "over"
               PROVE  heard' = <<1>>
    OBVIOUS
  <2> DEFINE id == At(buffer, read_idx, 1)[1]
             sound == id[1] = "up" /\ id[3] = 1
             length == IF sound THEN ClientMessage[called[id[2]]] ELSE 1
  <2>1. heard' = Append(heard, IF sound /\ At(buffer, read_idx, length) = Bytes("up", id[2], length) THEN id[2] ELSE 0)
    BY <1>1 DEF Receive
  <2>2. id = <<"up", 1, 1>>
    BY <1>2, <1>10
  <2>3. sound /\ id[2] = 1
    BY <2>2
  <2>4. length = size
    BY <2>3 DEF size
  <2>5. At(buffer, read_idx, length) = Bytes("up", id[2], length)
    BY <1>2, <1>10, <2>3, <2>4
  <2> HIDE DEF id, sound, length
  <2>6. heard' = Append(heard, id[2])
    BY <2>1, <2>3, <2>5
  <2> QED
    BY <1>2, <2>3, <2>6
<1>12. receive'.phase = "over" \/ (receive'.phase = "thrown" /\ heard' = heard)
  BY <1>1 DEF Receive
<1> QED
  BY <1>2, <1>11, <1>12 DEF FirstHeard

\* Whatever else the client has sent by then.
LEMMA HeardStays ==
  ASSUME FirstHeard, UNCHANGED <<heard, buf_len, read_idx, receive, up_taken, buffer>>,
         up \in Seq(Byte), up' = up \/ \E bytes \in Seq(Byte) : up' = up \o bytes
  PROVE  FirstHeard'
<1>1. Len(up) \in Nat /\ Len(up') \in Nat /\ Len(up) <= Len(up') /\ \A i \in 1 .. Len(up) : up'[i] = up[i]
  <2>1. CASE up' = up
    BY <2>1
  <2>2. CASE \E bytes \in Seq(Byte) : up' = up \o bytes
    <3>1. PICK bytes \in Seq(Byte) : up' = up \o bytes
      BY <2>2
    <3>2. /\ Len(up') = Len(up) + Len(bytes) /\ Len(up) \in Nat /\ Len(bytes) \in Nat
          /\ \A i \in 1 .. Len(up) + Len(bytes) : up'[i] = IF i <= Len(up) THEN up[i] ELSE bytes[i - Len(up)]
      BY <3>1, ConcatProperties, LenProperties
    <3> QED
      BY <3>2
  <2> QED
    BY <2>1, <2>2
<1>2. ASSUME receive.phase = "taken"
      PROVE  /\ receive.len \in 1 .. Len(up')
             /\ \A a \in 0 .. (receive.len - 1) : a \in DOMAIN buffer /\ buffer[a] = up'[a + 1]
  <2>1. receive.len \in 1 .. Len(up) /\ \A a \in 0 .. (receive.len - 1) : a \in DOMAIN buffer /\ buffer[a] = up[a + 1]
    BY <1>2 DEF FirstHeard
  <2>2. \A a \in 0 .. (receive.len - 1) : a + 1 \in 1 .. Len(up)
    BY <1>1, <2>1
  <2> QED
    BY <1>1, <2>1, <2>2
<1> QED
  BY <1>2 DEF FirstHeard

LEMMA HeardStep ==
  ASSUME ConnectionTypeOK, Apart, SessionTyped', Apart', overlaps \subseteq overlaps', Step, UpSound, HeardSound
  PROVE  HeardSound'
<1> SUFFICES ASSUME Without({"sends", "short", "receive"})'
             PROVE  FirstHeard'
  BY DEF HeardSound
<1>1. FirstHeard /\ SentInOrder
  BY DEF HeardSound, UpSound, Without
<1>2. /\ ~ (receive'.phase = "taken" /\ writes' \o resumed' # <<>>)
      /\ receive.phase = "taken" => ~ (receive.len < ClientMessage[called[1]])
  BY DEF Apart, Without
<1>3. up \in Seq(Byte) /\ writes \in Seq(Write) /\ resumed \in Seq(Write)
  BY DEF ConnectionTypeOK, SessionTyped, StreamsTyped
<1>4. ASSUME NEW kind \in ServerMessage, SendToClient(kind)
      PROVE  FirstHeard'
  <2>1. UNCHANGED <<heard, receive, up, up_taken>> /\ buf_len' = 0 /\ read_idx' = 0
    BY <1>4 DEF SendToClient, SessionClearBuffer
  <2>2. receive.phase # "taken"
    <3>1. writes' # <<>>
      BY <1>3, <1>4 DEF SendToClient
    <3>2. writes' \in Seq(Write) /\ resumed' \in Seq(Write)
      BY DEF SessionTyped
    <3>3. writes' \o resumed' # <<>>
      BY <3>1, <3>2, ConcatEqualIffEmpty
    <3> QED
      BY <1>2, <2>1, <3>3
  <2> QED
    BY <1>1, <2>1, <2>2 DEF FirstHeard
<1>5. CASE SocketTakes \/ WriteGoesOn
  BY <1>1, <1>3, <1>5, HeardStays DEF SocketTakes, WriteGoesOn
<1>6. CASE ReadMessage
  <2>1. /\ receive.phase = "none" /\ receive' = [at |-> buf_len, len |-> 0, phase |-> "pending"]
        /\ UNCHANGED <<heard, buf_len, read_idx, up_taken, up>>
    BY <1>6 DEF ReadMessage
  <2>2. receive'.phase = "pending" /\ receive'.at = buf_len
    BY <2>1
  <2> QED
    BY <1>1, <2>1, <2>2 DEF FirstHeard
<1>7. CASE SocketGives
  BY <1>1, <1>7, SocketGivesHeard
<1>8. CASE Receive
  BY <1>1, <1>2, <1>8, ReceiveHeard DEF Receive
<1>9. CASE /\ UNCHANGED session
           /\ \/ ReaderTakes \/ ReadsOn \/ PieceRead \/ DrawingSent \/ DrawingResumed
              \/ \E kind \in Input : InputArrives(kind)
              \/ InputRead \/ SendResumed
  <2>1. up' = up
    BY <1>9 DEF ReaderTakes, ReadsOn, PieceRead, DrawingSent, DrawingResumed, InputArrives, InputRead, SendResumed
  <2> QED
    BY <1>1, <1>3, <1>9, <2>1, HeardStays DEF session
<1>10. CASE UNCHANGED session /\ SendTaken
  <2>1. \E bytes \in Seq(Byte) : up' = up \o bytes
    <3>1. PICK k \in 1 .. ClientMessage[input.kind] : up' = up \o At(buf_tcp, 0, k)
      BY <1>10 DEF SendTaken
    <3>2. k \in Nat
      BY <1>10, Lengths DEF ConnectionTypeOK, ClientTyped, SendTaken
    <3>3. Unset \in Byte /\ buf_tcp \in [DOMAIN buf_tcp -> Byte]
      BY DEF ConnectionTypeOK, ClientTyped, Byte
    <3>4. \A at, n \in Nat : At(buf_tcp, at, n) \in Seq(Byte)
      BY <3>3, Found
    <3> QED
      BY <3>1, <3>2, <3>4
  <2> QED
    BY <1>1, <1>3, <1>10, <2>1, HeardStays DEF session
<1> QED
  BY <1>4, <1>5, <1>6, <1>7, <1>8, <1>9, <1>10 DEF Step

---------------------------------------------------------------------------
(* Inputs and the messages they become.                                    *)

LEMMA PlacesInCounted ==
  ASSUME NEW S, NEW seq \in Seq(S), NEW E
  PROVE  /\ IsFiniteSet(PlacesIn(E, seq)) /\ Cardinality(PlacesIn(E, seq)) \in Nat
         /\ \A f \in S : Cardinality(PlacesIn(E, Append(seq, f)))
                           = Cardinality(PlacesIn(E, seq)) + (IF f \in E THEN 1 ELSE 0)
<1>1. Len(seq) \in Nat /\ DOMAIN seq = 1 .. Len(seq)
  BY LenProperties
<1>2. IsFiniteSet(PlacesIn(E, seq)) /\ Cardinality(PlacesIn(E, seq)) \in Nat
  <2>1. IsFiniteSet(1 .. Len(seq))
    BY <1>1, FS_Interval
  <2>2. PlacesIn(E, seq) \subseteq 1 .. Len(seq)
    BY <1>1 DEF PlacesIn
  <2> QED
    BY <2>1, <2>2, FS_Subset, FS_CardinalityType
<1>3. ASSUME NEW f \in S
      PROVE  Cardinality(PlacesIn(E, Append(seq, f)))
               = Cardinality(PlacesIn(E, seq)) + (IF f \in E THEN 1 ELSE 0)
  <2> DEFINE last == Len(seq) + 1
             more == Append(seq, f)
  <2>1. /\ DOMAIN more = 1 .. last /\ \A n \in 1 .. Len(seq) : more[n] = seq[n]
        /\ more[last] = f
    BY AppendProperties, <1>1
  <2>2. 1 .. last = (1 .. Len(seq)) \cup {last} /\ last \notin 1 .. Len(seq)
    BY <1>1
  <2> HIDE DEF last, more
  <2>3. CASE f \in E
    <3>1. PlacesIn(E, more) = PlacesIn(E, seq) \cup {last} /\ last \notin PlacesIn(E, seq)
      BY <1>1, <2>1, <2>2, <2>3 DEF PlacesIn
    <3> QED
      BY <1>2, <2>3, <3>1, FS_AddElement DEF more
  <2>4. CASE f \notin E
    <3>1. PlacesIn(E, more) = PlacesIn(E, seq)
      BY <1>1, <2>1, <2>2, <2>4 DEF PlacesIn
    <3> QED
      BY <1>2, <2>4, <3>1 DEF more
  <2> QED
    BY <2>3, <2>4
<1> QED
  BY <1>2, <1>3

LEMMA PlacesCounted ==
  ASSUME NEW S, NEW seq \in Seq(S), NEW e
  PROVE  /\ IsFiniteSet(PlacesOf(e, seq)) /\ Cardinality(PlacesOf(e, seq)) \in Nat
         /\ \A f \in S : Cardinality(PlacesOf(e, Append(seq, f)))
                           = Cardinality(PlacesOf(e, seq)) + (IF f = e THEN 1 ELSE 0)
<1> DEFINE E == {e}
<1>1. PlacesOf(e, seq) = PlacesIn(E, seq) /\ \A f \in S : PlacesOf(e, Append(seq, f)) = PlacesIn(E, Append(seq, f))
  BY DEF PlacesOf, PlacesIn
<1>2. \A f : f \in E <=> f = e
  OBVIOUS
<1> HIDE DEF E
<1>3. /\ IsFiniteSet(PlacesIn(E, seq)) /\ Cardinality(PlacesIn(E, seq)) \in Nat
      /\ \A f \in S : Cardinality(PlacesIn(E, Append(seq, f)))
                        = Cardinality(PlacesIn(E, seq)) + (IF f \in E THEN 1 ELSE 0)
  BY PlacesInCounted
<1> QED
  BY <1>1, <1>2, <1>3

\* A message that is sent is a Join, or the input that has come.
LEMMA SendCounted ==
  ASSUME ConnectionTypeOK, InputsCounted, NEW kind \in Outgoing, Send(kind), UNCHANGED pressed,
         kind # "Join" => input.phase = "given" /\ kind = pressed[Len(pressed)]
  PROVE  InputsCounted'
<1>1. called \in Seq(Outgoing) /\ called' = Append(called, kind) /\ input'.phase = "sending"
  BY DEF ConnectionTypeOK, StreamsTyped, Send
<1>2. ASSUME NEW k \in Input
      PROVE  Cardinality(PlacesOf(k, called')) <= Cardinality(PlacesOf(k, pressed))
  <2> DEFINE c == Cardinality(PlacesOf(k, called))
             p == Cardinality(PlacesOf(k, pressed))
  <2>1. c \in Nat /\ Cardinality(PlacesOf(k, called')) = c + (IF kind = k THEN 1 ELSE 0)
    BY <1>1, PlacesCounted
  <2>2. p \in Nat
    BY PlacesCounted DEF ConnectionTypeOK, ClientTyped
  <2>3. c + (IF input.phase = "given" /\ pressed[Len(pressed)] = k THEN 1 ELSE 0) <= p
    BY DEF InputsCounted
  <2> HIDE DEF c, p
  <2>4. kind = k => input.phase = "given" /\ pressed[Len(pressed)] = k
    BY DEF Input
  <2> QED
    BY <2>1, <2>2, <2>3, <2>4 DEF p
<1>3. \A k \in Input : Cardinality(PlacesOf(k, called')) + 0 <= Cardinality(PlacesOf(k, pressed'))
  <2> SUFFICES ASSUME NEW k \in Input
               PROVE  Cardinality(PlacesOf(k, called')) + 0 <= Cardinality(PlacesOf(k, pressed'))
    OBVIOUS
  <2>1. called' \in Seq(Outgoing)
    BY <1>1
  <2>2. Cardinality(PlacesOf(k, called')) \in Nat
    BY <2>1, PlacesCounted
  <2> QED
    BY <1>2, <2>2
<1> QED
  BY <1>1, <1>3 DEF InputsCounted, PlacesOf

\* Without an input that has come, inputs and messages are what they were.
LEMMA CountedStays ==
  ASSUME ConnectionTypeOK, InputsCounted, UNCHANGED <<called, pressed>>,
         \/ input'.phase # "given"
         \/ UNCHANGED <<input, buf_udp>>
  PROVE  InputsCounted'
<1>1. CASE input'.phase # "given"
  <2>1. ASSUME NEW k \in Input
        PROVE  Cardinality(PlacesOf(k, called)) + 0 <= Cardinality(PlacesOf(k, pressed))
    <3>1. Cardinality(PlacesOf(k, called)) \in Nat
      BY PlacesCounted DEF ConnectionTypeOK, StreamsTyped
    <3>2. Cardinality(PlacesOf(k, pressed)) \in Nat
      BY PlacesCounted DEF ConnectionTypeOK, ClientTyped
    <3>3. Cardinality(PlacesOf(k, called)) + (IF input.phase = "given" /\ pressed[Len(pressed)] = k THEN 1 ELSE 0)
            <= Cardinality(PlacesOf(k, pressed))
      BY DEF InputsCounted
    <3> QED
      BY <3>1, <3>2, <3>3
  <2> QED
    BY <1>1, <2>1 DEF InputsCounted, PlacesOf
<1>2. CASE UNCHANGED <<input, buf_udp>>
  BY <1>2 DEF InputsCounted, PlacesOf
<1> QED
  BY <1>1, <1>2

LEMMA InputArrivesCounted ==
  ASSUME ConnectionTypeOK, InputsCounted, NEW kind \in Input, InputArrives(kind)
  PROVE  InputsCounted'
<1>1. /\ pressed \in Seq(Input) /\ called \in Seq(Outgoing) /\ called' = called
      /\ input \in [phase : {"asked", "given", "sending", "sent"}, kind : Outgoing \cup {"none"}, taken : Nat]
      /\ input.phase = "asked" /\ input' = [input EXCEPT !.phase = "given"]
      /\ pressed' = Append(pressed, kind) /\ buf_udp' = <<"input", Len(pressed) + 1>>
  BY DEF ConnectionTypeOK, ClientTyped, StreamsTyped, InputArrives
<1>2. /\ input'.phase = "given" /\ Len(pressed') = Len(pressed) + 1 /\ pressed'[Len(pressed')] = kind
  BY <1>1, AppendProperties
<1>3. ASSUME NEW k \in Input
      PROVE  Cardinality(PlacesOf(k, called)) + (IF kind = k THEN 1 ELSE 0) <= Cardinality(PlacesOf(k, pressed'))
  <2> DEFINE c == Cardinality(PlacesOf(k, called))
             p == Cardinality(PlacesOf(k, pressed))
  <2>1. c \in Nat
    BY <1>1, PlacesCounted
  <2>2. p \in Nat /\ Cardinality(PlacesOf(k, pressed')) = p + (IF kind = k THEN 1 ELSE 0)
    BY <1>1, PlacesCounted
  <2>3. c + (IF input.phase = "given" /\ pressed[Len(pressed)] = k THEN 1 ELSE 0) <= p
    BY DEF InputsCounted
  <2>4. c + 0 <= p
    <3> HIDE DEF c, p
    <3> QED
      BY <1>1, <2>3
  <2> HIDE DEF p
  <2>5. c + (IF kind = k THEN 1 ELSE 0) <= p + (IF kind = k THEN 1 ELSE 0)
    <3> HIDE DEF c
    <3> QED
      BY <2>1, <2>2, <2>4
  <2> QED
    BY <2>2, <2>5
<1> QED
  BY <1>1, <1>2, <1>3 DEF InputsCounted, PlacesOf

LEMMA InputsStep ==
  ASSUME ConnectionTypeOK, Apart', overlaps \subseteq overlaps', Step, InputsSound
  PROVE  InputsSound'
<1> SUFFICES ASSUME Without({"inputs"})'
             PROVE  InputsCounted'
  BY DEF InputsSound
<1>1. InputsCounted
  BY DEF InputsSound, Without
<1>2. ~ (reader'.phase = "drawing" /\ input'.phase = "given")
  BY DEF Apart, Without
<1>3. /\ input \in [phase : {"asked", "given", "sending", "sent"}, kind : Outgoing \cup {"none"}, taken : Nat]
      /\ reader \in Reader
  BY DEF ConnectionTypeOK, ClientTyped, ReaderTyped
<1>4. CASE /\ UNCHANGED client
           /\ \/ \E kind \in ServerMessage : SendToClient(kind)
              \/ SocketTakes \/ WriteGoesOn \/ ReadMessage \/ SocketGives \/ Receive
  <2>1. UNCHANGED <<called, pressed, input, buf_udp>>
    BY <1>4 DEF client, SendToClient, SocketTakes, WriteGoesOn, ReadMessage, SocketGives, Receive
  <2> QED
    BY <1>1, <2>1, CountedStays
<1>5. CASE ReaderTakes \/ ReadsOn \/ DrawingSent \/ DrawingResumed
  <2>1. UNCHANGED <<called, pressed, input, buf_udp>>
    BY <1>5 DEF ReaderTakes, ReadsOn, DrawingSent, DrawingResumed
  <2> QED
    BY <1>1, <2>1, CountedStays
<1>6. CASE PieceRead
  <2>1. PieceGoesOn \/ PieceEnds \/ PieceAstray
    BY <1>6, PieceReadMeans
  <2>2. UNCHANGED <<called, pressed, input>>
    BY <1>6, PieceReadMeans
  <2>3. buf_udp' = buf_udp \/ reader'.phase = "drawing"
    BY <1>3, <2>1 DEF PieceGoesOn, PieceEnds, PieceAstray, Resolve, Reader
  <2> QED
    BY <1>1, <1>2, <2>2, <2>3, CountedStays
<1>7. ASSUME NEW kind \in Input, InputArrives(kind)
      PROVE  InputsCounted'
  BY <1>1, <1>7, InputArrivesCounted
<1>8. CASE InputRead
  <2>1. input.phase = "given" /\ UNCHANGED pressed
    BY <1>8 DEF InputRead
  <2>2. CASE InputSeen = "Invalid"
    <3>1. input'.phase # "given" /\ called' = called
      BY <1>8, <2>2 DEF InputRead, AskInput
    <3> QED
      BY <1>1, <2>1, <3>1, CountedStays
  <2>3. CASE InputSeen # "Invalid"
    <3> DEFINE kind == IF in_lobby THEN "Join" ELSE InputSeen
    <3>1. kind \in Outgoing
      BY <2>1, <2>3, InputSeenTyped DEF Outgoing
    <3>2. Send(kind)
      BY <1>8, <2>3 DEF InputRead
    <3>3. InputSeen = pressed[Len(pressed)]
      <4>1. buf_udp = <<"input", Len(pressed)>>
        BY <1>1, <2>1 DEF InputsCounted
      <4> QED
        BY <4>1 DEF InputSeen
    <3>4. kind # "Join" => kind = pressed[Len(pressed)]
      BY <3>3
    <3> HIDE DEF kind
    <3> QED
      BY <1>1, <2>1, <3>1, <3>2, <3>4, SendCounted
  <2> QED
    BY <2>2, <2>3
<1>9. CASE SendTaken
  <2>1. UNCHANGED <<called, pressed>> /\ input'.phase = "sent"
    BY <1>3, <1>9 DEF SendTaken
  <2> QED
    BY <1>1, <2>1, CountedStays
<1>10. CASE SendResumed
  <2>1. UNCHANGED pressed
    BY <1>10 DEF SendResumed
  <2>2. CASE input.kind # "Join" /\ in_lobby
    <3>1. Send("Join") /\ "Join" \in Outgoing
      BY <1>10, <2>2 DEF SendResumed, Outgoing
    <3> QED
      BY <1>1, <2>1, <3>1, SendCounted
  <2>3. CASE ~ (input.kind # "Join" /\ in_lobby)
    <3>1. input'.phase # "given" /\ called' = called
      BY <1>10, <2>3 DEF SendResumed, AskInput
    <3> QED
      BY <1>1, <2>1, <3>1, CountedStays
  <2> QED
    BY <2>2, <2>3
<1> QED
  BY <1>4, <1>5, <1>6, <1>7, <1>8, <1>9, <1>10 DEF Step

\* What is left to become a Join does, at most once for an input.
LEMMA JoinsStep ==
  ASSUME ConnectionTypeOK, Apart', overlaps \subseteq overlaps', Step, InputsSound, JoinsSound
  PROVE  JoinsSound'
<1> SUFFICES ASSUME Without({"inputs"})'
             PROVE  JoinsCounted'
  BY DEF JoinsSound
<1>1. InputsCounted /\ JoinsCounted
  BY DEF InputsSound, JoinsSound, Without
<1>2. /\ input \in [phase : {"asked", "given", "sending", "sent"}, kind : Outgoing \cup {"none"}, taken : Nat]
      /\ pressed \in Seq(Input) /\ called \in Seq(Outgoing) /\ Len(pressed) \in Nat
      /\ input.phase = "given" => pressed # <<>>
  BY DEF ConnectionTypeOK, ClientTyped, StreamsTyped
<1> DEFINE c == Cardinality(PlacesOf("Join", called))
           p == Cardinality(PlacesIn(Proper, pressed))
<1>3. /\ c \in Nat /\ \A k \in Outgoing : Cardinality(PlacesOf("Join", Append(called, k)))
                                            = c + (IF k = "Join" THEN 1 ELSE 0)
      /\ p \in Nat /\ \A k \in Input : Cardinality(PlacesIn(Proper, Append(pressed, k)))
                                         = p + (IF k \in Proper THEN 1 ELSE 0)
  BY <1>2, PlacesCounted, PlacesInCounted
<1>4. c + (IF JoinDue THEN 1 ELSE 0) <= p
  BY <1>1 DEF JoinsCounted
<1>5. ASSUME UNCHANGED <<called, pressed>>, JoinDue' => JoinDue
      PROVE  JoinsCounted'
  <2>1. PlacesOf("Join", called)' = PlacesOf("Join", called) /\ PlacesIn(Proper, pressed)' = PlacesIn(Proper, pressed)
    BY <1>5 DEF PlacesOf, PlacesIn
  <2> HIDE DEF c, p
  <2>2. c + (IF JoinDue' THEN 1 ELSE 0) <= p
    BY <1>3, <1>4, <1>5
  <2> QED
    BY <2>1, <2>2 DEF JoinsCounted, c, p
<1>6. ASSUME UNCHANGED pressed, JoinDue, NEW kind \in Outgoing, Send(kind)
      PROVE  JoinsCounted'
  <2>1. called' = Append(called, kind) /\ input'.phase = "sending" /\ input'.kind = kind
    BY <1>6 DEF Send
  <2>2. JoinDue' <=> kind # "Join"
    BY <2>1 DEF JoinDue
  <2>3. /\ Cardinality(PlacesOf("Join", called)') = c + (IF kind = "Join" THEN 1 ELSE 0)
        /\ PlacesIn(Proper, pressed)' = PlacesIn(Proper, pressed)
    BY <1>3, <1>6, <2>1 DEF PlacesOf, PlacesIn
  <2> HIDE DEF c
  <2>4. Cardinality(PlacesOf("Join", called)') + (IF JoinDue' THEN 1 ELSE 0) = c + 1
    BY <1>3, <2>2, <2>3
  <2> QED
    BY <1>4, <1>6, <2>3, <2>4 DEF JoinsCounted
<1>7. CASE /\ UNCHANGED client
           /\ \/ \E kind \in ServerMessage : SendToClient(kind)
              \/ SocketTakes \/ WriteGoesOn \/ ReadMessage \/ SocketGives \/ Receive
  <2>1. UNCHANGED <<called, pressed, input>>
    BY <1>7 DEF client, SendToClient, SocketTakes, WriteGoesOn, ReadMessage, SocketGives, Receive
  <2> QED
    BY <1>5, <2>1 DEF JoinDue
<1>8. CASE ReaderTakes \/ ReadsOn \/ PieceRead \/ DrawingSent \/ DrawingResumed
  <2>1. UNCHANGED <<called, pressed, input>>
    BY <1>8 DEF ReaderTakes, ReadsOn, PieceRead, DrawingSent, DrawingResumed
  <2> QED
    BY <1>5, <2>1 DEF JoinDue
<1>9. ASSUME NEW kind \in Input, InputArrives(kind)
      PROVE  JoinsCounted'
  <2>1. /\ input.phase = "asked" /\ called' = called /\ pressed' = Append(pressed, kind)
        /\ input'.phase = "given"
    BY <1>2, <1>9 DEF InputArrives
  <2>2. pressed'[Len(pressed')] = kind
    BY <1>2, <2>1, AppendProperties
  <2>3. ~ JoinDue /\ (JoinDue' <=> kind \in Proper)
    BY <2>1, <2>2 DEF JoinDue, Proper
  <2>4. PlacesOf("Join", called)' = PlacesOf("Join", called)
    BY <2>1 DEF PlacesOf
  <2>5. Cardinality(PlacesIn(Proper, pressed)') = p + (IF kind \in Proper THEN 1 ELSE 0)
    BY <1>3, <2>1 DEF PlacesIn
  <2> HIDE DEF p
  <2>6. c <= p
    <3> HIDE DEF c
    <3> QED
      BY <1>3, <1>4, <2>3
  <2>7. c + (IF JoinDue' THEN 1 ELSE 0) <= p + (IF kind \in Proper THEN 1 ELSE 0)
    <3> HIDE DEF c
    <3> QED
      BY <1>3, <2>3, <2>6
  <2> QED
    BY <2>4, <2>5, <2>7 DEF JoinsCounted
<1>10. CASE InputRead
  <2>1. input.phase = "given" /\ UNCHANGED pressed
    BY <1>10 DEF InputRead
  <2>2. InputSeen = pressed[Len(pressed)]
    <3>1. buf_udp = <<"input", Len(pressed)>>
      BY <1>1, <2>1 DEF InputsCounted
    <3> QED
      BY <3>1 DEF InputSeen
  <2>3. CASE InputSeen = "Invalid"
    <3>1. input'.phase = "asked" /\ called' = called
      BY <1>10, <2>3 DEF InputRead, AskInput
    <3>2. ~ JoinDue'
      BY <3>1 DEF JoinDue
    <3> QED
      BY <1>5, <2>1, <3>1, <3>2
  <2>4. CASE InputSeen # "Invalid"
    <3> DEFINE kind == IF in_lobby THEN "Join" ELSE InputSeen
    <3>1. kind \in Outgoing
      BY <2>1, <2>4, InputSeenTyped DEF Outgoing
    <3>2. Send(kind)
      BY <1>10, <2>4 DEF InputRead
    <3>3. JoinDue
      BY <2>1, <2>2, <2>4 DEF JoinDue
    <3> HIDE DEF kind
    <3> QED
      BY <1>6, <2>1, <3>1, <3>2, <3>3
  <2> QED
    BY <2>3, <2>4
<1>11. CASE SendTaken
  <2>1. UNCHANGED <<called, pressed>> /\ input'.phase = "sent" /\ input'.kind = input.kind /\ input.phase = "sending"
    BY <1>2, <1>11 DEF SendTaken
  <2> QED
    BY <1>5, <2>1 DEF JoinDue
<1>12. CASE SendResumed
  <2>1. UNCHANGED pressed /\ input.phase = "sent"
    BY <1>12 DEF SendResumed
  <2>2. CASE input.kind # "Join" /\ in_lobby
    <3>1. Send("Join") /\ "Join" \in Outgoing /\ JoinDue
      BY <1>12, <2>1, <2>2 DEF SendResumed, Outgoing, JoinDue
    <3> QED
      BY <1>6, <2>1, <3>1
  <2>3. CASE ~ (input.kind # "Join" /\ in_lobby)
    <3>1. input'.phase = "asked" /\ called' = called
      BY <1>12, <2>3 DEF SendResumed, AskInput
    <3>2. ~ JoinDue'
      BY <3>1 DEF JoinDue
    <3> QED
      BY <1>5, <2>1, <3>1, <3>2
  <2> QED
    BY <2>2, <2>3
<1> QED
  BY <1>7, <1>8, <1>9, <1>10, <1>11, <1>12 DEF Step

---------------------------------------------------------------------------
(* Messages and their drawings.                                            *)

LEMMA DrawableCounted ==
  ASSUME NEW j \in Nat
  PROVE  /\ IsFiniteSet(Drawable(j)) /\ Cardinality(Drawable(j)) \in Nat
         /\ Drawable(j) \subseteq 1 .. j
         /\ j \in Drawable(j) => Cardinality(Drawable(j)) # 0
         /\ \A i \in 0 .. j : Drawable(i) \subseteq Drawable(j)
         /\ \A i \in 0 .. (j - 1) : j \in Drawable(j) => Cardinality(Drawable(i)) < Cardinality(Drawable(j))
<1>1. Drawable(j) \subseteq 1 .. j
  BY DEF Drawable
<1>2. IsFiniteSet(Drawable(j)) /\ Cardinality(Drawable(j)) \in Nat
  <2>1. IsFiniteSet(1 .. j)
    BY FS_Interval
  <2> QED
    BY <1>1, <2>1, FS_Subset, FS_CardinalityType
<1>3. j \in Drawable(j) => Cardinality(Drawable(j)) # 0
  BY <1>2, FS_EmptySet
<1>4. \A i \in 0 .. j : Drawable(i) \subseteq Drawable(j)
  BY DEF Drawable
<1>5. ASSUME NEW i \in 0 .. (j - 1), j \in Drawable(j)
      PROVE  Cardinality(Drawable(i)) < Cardinality(Drawable(j))
  <2>1. Drawable(i) \subseteq Drawable(j) /\ j \notin Drawable(i)
    BY <1>4 DEF Drawable
  <2>2. /\ Cardinality(Drawable(i)) <= Cardinality(Drawable(j)) /\ IsFiniteSet(Drawable(i))
        /\ Cardinality(Drawable(i)) = Cardinality(Drawable(j)) => Drawable(i) = Drawable(j)
    BY <1>2, <2>1, FS_Subset
  <2>3. Cardinality(Drawable(i)) \in Nat
    BY <2>2, FS_CardinalityType
  <2> QED
    BY <1>2, <1>5, <2>1, <2>2, <2>3
<1> QED
  BY <1>1, <1>2, <1>3, <1>4, <1>5

\* What has been read stays drawable or not.
DrawableNext(j) == {i \in 1 .. j : told'[read'[i]] # "GameStarted"}

LEMMA DrawableStays ==
  ASSUME ConnectionTypeOK, Longer, read' = read \/ \E n \in 1 .. Len(told) : read' = Append(read, n)
  PROVE  /\ Len(read) \in Nat
         /\ \A j \in 0 .. Len(read) : DrawableNext(j) = Drawable(j)
<1>1. read \in Seq(1 .. Len(told)) /\ Len(read) \in Nat /\ StreamsTyped
  BY DEF ConnectionTypeOK, ClientTyped
<1>2. \A i \in 1 .. Len(read) : read'[i] = read[i] /\ read[i] \in 1 .. Len(told)
  <2>1. CASE read' = read
    BY <1>1, <2>1
  <2>2. ASSUME NEW n \in 1 .. Len(told), read' = Append(read, n)
        PROVE  \A i \in 1 .. Len(read) : read'[i] = read[i]
    BY <1>1, <2>2, AppendProperties
  <2>3. \A i \in 1 .. Len(read) : read[i] \in 1 .. Len(told)
    BY <1>1
  <2> QED
    BY <2>1, <2>2, <2>3
<1>3. \A n \in 1 .. Len(told) : told'[n] = told[n]
  BY <1>1, BytesStay
<1>4. ASSUME NEW j \in 0 .. Len(read)
      PROVE  DrawableNext(j) = Drawable(j)
  <2>1. \A i \in 1 .. j : told'[read'[i]] = told[read[i]]
    <3>1. \A i \in 1 .. j : i \in 1 .. Len(read)
      BY <1>1
    <3> QED
      BY <1>2, <1>3, <3>1
  <2> QED
    BY <2>1 DEF Drawable, DrawableNext
<1> QED
  BY <1>1, <1>4

\* Nothing is read or drawn.
LEMMA DrawnStays ==
  ASSUME ConnectionTypeOK, Longer, DrawnInOrder, UNCHANGED <<read, drawn>>,
         \/ reader.phase # "drawing" /\ reader'.phase # "drawing"
         \/ reader' = reader /\ buf_udp' = buf_udp
  PROVE  DrawnInOrder'
<1>1. Len(read) \in Nat /\ \A j \in 0 .. Len(read) : DrawableNext(j) = Drawable(j)
  BY DrawableStays
<1>2. DrawableNext(Len(read)) = Drawable(Len(read)) /\ Drawable(Len(read)) \subseteq 1 .. Len(read)
  BY <1>1, DrawableCounted
<1>3. \A j \in Drawable(Len(read)) : DrawableNext(j) = Drawable(j)
  BY <1>1, <1>2
<1>4. /\ Cardinality(DrawableNext(Len(read'))) = Len(drawn') + (IF reader'.phase = "drawing" THEN 1 ELSE 0)
      /\ reader'.phase = "drawing" =>
           /\ Len(read') \in DrawableNext(Len(read'))
           /\ buf_udp' = <<"drawing", read'[Len(read')]>>
  BY <1>2 DEF DrawnInOrder
<1>5. \A j \in DrawableNext(Len(read')) :
        Cardinality(DrawableNext(j)) <= Len(drawn') => drawn'[Cardinality(DrawableNext(j))] = read'[j]
  BY <1>2, <1>3 DEF DrawnInOrder
<1> QED
  BY <1>4, <1>5 DEF DrawnInOrder, Drawable, DrawableNext

\* A message is read, and to be drawn next unless it is a GameStarted.
LEMMA PieceReadDrawn ==
  ASSUME ConnectionTypeOK, PieceRead, DrawnInOrder
  PROVE  DrawnInOrder'
<1>1. /\ reader.phase = "given"
      /\ PieceGoesOn \/ PieceEnds \/ PieceAstray
      /\ UNCHANGED <<drawn, told, called>>
  BY PieceReadMeans
<1>2. reader \in Reader /\ Longer /\ StreamsTyped /\ drawn \in Seq(0 .. Len(told)) /\ read \in Seq(1 .. Len(told))
  BY <1>1 DEF ConnectionTypeOK, ClientTyped, ReaderTyped, Longer
<1>3. CASE PieceGoesOn \/ PieceAstray
  <2>1. read' = read /\ reader'.phase # "drawing"
    BY <1>2, <1>3 DEF PieceGoesOn, PieceAstray, Asking, Reader
  <2> QED
    BY <1>1, <1>2, <2>1, DrawnStays
<1>4. CASE PieceEnds
  <2> DEFINE L == Len(read)
  <2>1. Resolve(Number) /\ Number \in 1 .. Len(told) /\ read' = Append(read, Number)
    <3>1. Number # 0 /\ Number \in 0 .. Len(told)
      BY <1>1, <1>4, NumberTyped DEF PieceEnds, PieceFound
    <3> QED
      BY <1>2, <1>4, <3>1 DEF PieceEnds, Resolve, StreamsTyped
  <2>2. /\ L \in Nat /\ Len(read') = L + 1 /\ read'[L + 1] = Number
        /\ \A i \in 1 .. L : read'[i] = read[i]
    BY <1>2, <2>1, AppendProperties
  <2>3. \A j \in 0 .. L : DrawableNext(j) = Drawable(j)
    BY <1>2, <2>1, DrawableStays
  <2>4. /\ IsFiniteSet(Drawable(L)) /\ Cardinality(Drawable(L)) \in Nat /\ Drawable(L) \subseteq 1 .. L
        /\ DrawableNext(L) = Drawable(L)
    BY <2>2, <2>3, DrawableCounted
  <2>5. Cardinality(Drawable(L)) = Len(drawn)
    <3>1. Cardinality(Drawable(L)) = Len(drawn) + 0
      BY <1>1 DEF DrawnInOrder
    <3> QED
      BY <1>2, <3>1
  <2>6. ASSUME NEW j \in Drawable(L), Cardinality(DrawableNext(j)) <= Len(drawn')
        PROVE  drawn'[Cardinality(DrawableNext(j))] = read'[j]
    <3>1. j \in 1 .. L /\ DrawableNext(j) = Drawable(j)
      BY <2>2, <2>3, <2>4
    <3> QED
      BY <1>1, <2>2, <2>6, <3>1 DEF DrawnInOrder
  <2> HIDE DEF L
  <2>7. CASE told[Number] = "GameStarted"
    <3>1. reader'.phase = "asked"
      BY <2>1, <2>7 DEF Resolve, NextMessage, Asking
    <3>2. DrawableNext(L + 1) = Drawable(L)
      <4>1. \A i \in 1 .. (L + 1) : told'[read'[i]] # "GameStarted" => i \in 1 .. L
        BY <1>1, <2>2, <2>7
      <4>2. DrawableNext(L + 1) = DrawableNext(L)
        BY <2>2, <4>1 DEF DrawableNext
      <4> QED
        BY <2>4, <4>2
    <3>3. Cardinality(DrawableNext(Len(read'))) = Len(drawn') + (IF reader'.phase = "drawing" THEN 1 ELSE 0)
      BY <1>1, <1>2, <2>2, <2>5, <3>1, <3>2
    <3>4. \A j \in DrawableNext(Len(read')) :
            Cardinality(DrawableNext(j)) <= Len(drawn') => drawn'[Cardinality(DrawableNext(j))] = read'[j]
      BY <2>2, <2>6, <3>2
    <3> QED
      BY <3>1, <3>3, <3>4 DEF DrawnInOrder, Drawable, DrawableNext
  <2>8. CASE told[Number] # "GameStarted"
    <3>1. reader'.phase = "drawing" /\ buf_udp' = <<"drawing", Number>>
      BY <1>2, <2>1, <2>8 DEF Resolve, Reader
    <3>2. DrawableNext(L + 1) = Drawable(L) \cup {L + 1} /\ L + 1 \notin Drawable(L)
      <4>1. told'[read'[L + 1]] # "GameStarted" /\ 1 .. (L + 1) = (1 .. L) \cup {L + 1}
        BY <1>1, <2>2, <2>8
      <4>2. DrawableNext(L + 1) = DrawableNext(L) \cup {L + 1}
        BY <2>2, <4>1 DEF DrawableNext
      <4>3. L + 1 \notin 1 .. L
        BY <2>2
      <4> QED
        BY <2>4, <4>2, <4>3
    <3>3. Cardinality(DrawableNext(L + 1)) = Len(drawn) + 1
      BY <2>4, <2>5, <3>2, FS_AddElement
    <3>4. Cardinality(DrawableNext(Len(read'))) = Len(drawn') + (IF reader'.phase = "drawing" THEN 1 ELSE 0)
      BY <1>1, <2>2, <3>1, <3>3
    <3>5. \A j \in DrawableNext(Len(read')) :
            Cardinality(DrawableNext(j)) <= Len(drawn') => drawn'[Cardinality(DrawableNext(j))] = read'[j]
      <4>1. ~ (Cardinality(DrawableNext(L + 1)) <= Len(drawn'))
        BY <1>1, <1>2, <3>3
      <4> QED
        BY <2>2, <2>6, <3>2, <4>1
    <3>6. Len(read') \in DrawableNext(Len(read')) /\ buf_udp' = <<"drawing", read'[Len(read')]>>
      BY <2>2, <3>1, <3>2
    <3> QED
      BY <3>4, <3>5, <3>6 DEF DrawnInOrder, Drawable, DrawableNext
  <2> QED
    BY <2>7, <2>8
<1> QED
  BY <1>1, <1>3, <1>4

\* The drawing that leaves is that of the last message.
LEMMA DrawingSentDrawn ==
  ASSUME ConnectionTypeOK, DrawingSent, DrawnInOrder
  PROVE  DrawnInOrder'
<1> DEFINE L == Len(read)
           n == Cardinality(Drawable(L))
<1>1. /\ reader \in Reader /\ read \in Seq(1 .. Len(told)) /\ drawn \in Seq(0 .. Len(told))
      /\ reader.phase = "drawing" /\ reader'.phase = "drawn" /\ UNCHANGED <<read, told>>
      /\ drawn' = Append(drawn, IF buf_udp[1] = "drawing" THEN buf_udp[2] ELSE 0)
  BY DEF ConnectionTypeOK, ClientTyped, ReaderTyped, DrawingSent, Reader
<1>2. /\ n = Len(drawn) + 1 /\ L \in Drawable(L) /\ buf_udp = <<"drawing", read[L]>>
      /\ Len(drawn) \in Nat /\ L \in Nat
  BY <1>1 DEF DrawnInOrder
<1>3. drawn' = Append(drawn, read[L])
  BY <1>1, <1>2
<1>4. /\ Len(drawn') = n /\ drawn'[n] = read[L] /\ n \in Nat
      /\ \A i \in 1 .. Len(drawn) : drawn'[i] = drawn[i]
  <2>1. read[L] \in 0 .. Len(told)
    <3>1. L \in 1 .. L
      BY <1>2, DrawableCounted
    <3>2. read[L] \in 1 .. Len(told) /\ Len(told) \in Nat
      BY <1>1, <3>1 DEF ConnectionTypeOK, StreamsTyped
    <3> QED
      BY <3>2
  <2> QED
    BY <1>1, <1>2, <1>3, <2>1, AppendProperties
<1>5. ASSUME NEW j \in Drawable(L)
      PROVE  Cardinality(Drawable(j)) <= Len(drawn') => drawn'[Cardinality(Drawable(j))] = read[j]
  <2>1. j \in 1 .. L
    BY <1>2, DrawableCounted
  <2>2. CASE j = L
    BY <1>4, <2>2
  <2>3. CASE j # L
    <3>1. j \in 0 .. (L - 1) /\ j \in Nat /\ j \in Drawable(j)
      BY <1>2, <2>1, <2>3 DEF Drawable
    <3>2. Cardinality(Drawable(j)) < n /\ Cardinality(Drawable(j)) \in Nat \ {0}
      BY <1>2, <3>1, DrawableCounted
    <3>3. Cardinality(Drawable(j)) \in 1 .. Len(drawn) /\ Cardinality(Drawable(j)) <= Len(drawn)
      <4> DEFINE c == Cardinality(Drawable(j))
      <4>1. c < n /\ c \in Nat \ {0}
        BY <3>2
      <4> HIDE DEF c, n
      <4>2. c \in 1 .. Len(drawn) /\ c <= Len(drawn)
        BY <1>2, <4>1
      <4> QED
        BY <4>2 DEF c
    <3>4. drawn[Cardinality(Drawable(j))] = read[j]
      BY <3>3 DEF DrawnInOrder
    <3> QED
      BY <1>4, <3>3, <3>4
  <2> QED
    BY <2>2, <2>3
<1>6. Cardinality(Drawable(L)) = Len(drawn') + 0
  BY <1>2, <1>4
<1> QED
  BY <1>1, <1>5, <1>6 DEF DrawnInOrder, Drawable

LEMMA DrawnStep ==
  ASSUME ConnectionTypeOK, Apart', overlaps \subseteq overlaps', Step, DrawnSound
  PROVE  DrawnSound'
<1> SUFFICES ASSUME Without({"inputs"})'
             PROVE  DrawnInOrder'
  BY DEF DrawnSound
<1>1. DrawnInOrder
  BY DEF DrawnSound, Without
<1>2. ~ (reader'.phase = "drawing" /\ input'.phase = "given")
  BY DEF Apart, Without
<1>3. /\ input \in [phase : {"asked", "given", "sending", "sent"}, kind : Outgoing \cup {"none"}, taken : Nat]
      /\ reader \in Reader
  BY DEF ConnectionTypeOK, ClientTyped, ReaderTyped
<1>4. CASE /\ UNCHANGED client
           /\ \/ \E kind \in ServerMessage : SendToClient(kind)
              \/ SocketTakes \/ WriteGoesOn \/ ReadMessage \/ SocketGives \/ Receive
  <2>1. Longer
    BY <1>4 DEF Longer, SendToClient, SocketTakes, WriteGoesOn, ReadMessage, SocketGives, Receive
  <2>2. UNCHANGED <<read, drawn, reader, buf_udp>>
    BY <1>4 DEF client
  <2> QED
    BY <1>1, <2>1, <2>2, DrawnStays
<1>5. CASE ReaderTakes \/ ReadsOn \/ DrawingResumed
  <2>1. /\ UNCHANGED <<read, drawn>> /\ Longer
        /\ reader.phase # "drawing" /\ reader'.phase # "drawing"
    <3>1. CASE ReaderTakes
      BY <1>3, <3>1 DEF ReaderTakes, Reader, Longer
    <3>2. CASE ReadsOn
      BY <3>2 DEF ReadsOn, Asking, Longer
    <3>3. CASE DrawingResumed
      BY <3>3 DEF DrawingResumed, NextMessage, Asking, Longer
    <3> QED
      BY <1>5, <3>1, <3>2, <3>3
  <2> QED
    BY <1>1, <2>1, DrawnStays
<1>6. CASE PieceRead
  BY <1>1, <1>6, PieceReadDrawn
<1>7. CASE DrawingSent
  BY <1>1, <1>7, DrawingSentDrawn
<1>8. ASSUME NEW kind \in Input, InputArrives(kind)
      PROVE  DrawnInOrder'
  <2>1. /\ UNCHANGED <<read, drawn, reader>> /\ Longer /\ input'.phase = "given"
    BY <1>3, <1>8 DEF InputArrives, Longer
  <2> QED
    BY <1>1, <1>2, <2>1, DrawnStays
<1>9. CASE InputRead \/ SendTaken \/ SendResumed
  <2>1. UNCHANGED <<read, drawn, reader, buf_udp, told>>
    BY <1>9 DEF InputRead, SendTaken, SendResumed
  <2>2. called' = called \/ \E kind \in Outgoing : called' = Append(called, kind)
    <3>1. ASSUME InputRead, InputSeen # "Invalid"
          PROVE  \E kind \in Outgoing : called' = Append(called, kind)
      <4>1. (IF in_lobby THEN "Join" ELSE InputSeen) \in Outgoing
        BY <3>1, InputSeenTyped DEF InputRead, Outgoing
      <4> QED
        BY <3>1, <4>1 DEF InputRead, Send
    <3>2. "Join" \in Outgoing
      BY DEF Outgoing
    <3> QED
      BY <1>9, <3>1, <3>2 DEF InputRead, SendTaken, SendResumed, Send
  <2> QED
    BY <1>1, <2>1, <2>2, DrawnStays DEF Longer
<1> QED
  BY <1>4, <1>5, <1>6, <1>7, <1>8, <1>9 DEF Step

---------------------------------------------------------------------------
(* The invariant.                                                          *)

LEMMA InvariantInit == ASSUME ConnectionInit PROVE ConnectionInv
<1>1. /\ told = <<>> /\ down = <<>> /\ called = <<>> /\ up = <<>> /\ overlaps = {}
      /\ writes = <<>> /\ resumed = <<>> /\ buf_len = 0 /\ read_idx = 0 /\ up_taken = 0 /\ heard = <<>>
      /\ receive.at = 0 /\ receive.phase = "none"
      /\ buf_len_tcp = 0 /\ read_idx_tcp = 0 /\ read = <<>> /\ drawn = <<>> /\ pressed = <<>>
      /\ input.phase = "asked"
  BY DEF ConnectionInit, SessionInit, ClientInit, NoReceive, AskInput
<1>2. /\ reader.phase = "asked" /\ reader.number = 0 /\ reader.piece = 1 /\ reader.already = 0
      /\ reader.at = 0 /\ reader.want = 1 /\ reader.got = 0
  <2>1. reader = [phase |-> "asked", number |-> 0, piece |-> 1, already |-> 0,
                  at |-> 0 + 0, want |-> 1 - 0, got |-> 0]
    BY DEF ConnectionInit, ClientInit, Asking
  <2> QED
    BY <2>1
<1>3. ConnectionTypeOK
  BY TypeInit
<1>4. Apart
  BY <1>1, <1>2 DEF Apart, MidMessage
<1>5. Writing = <<"down", 1, 1>> /\ Sending = <<"up", 1, 1>>
  BY <1>1 DEF Writing, Sending
<1>6. DownSound
  <2>1. DOMAIN Append(down, Writing) = {1}
    BY <1>1
  <2>2. Follows(Append(down, Writing), "down", DownSizes)
    BY <2>1 DEF Follows
  <2> QED
    BY <1>1, <2>2 DEF DownSound, OneWrite
<1>7. ReaderSound
  <2>1. Base = 0 /\ Taken = 0 /\ Current = 1
    BY <1>1, <1>2 DEF Base, Start, Taken, Current
  <2>2. Due = <<"down", 1, 1>>
    BY <1>3, <2>1, AfterNone DEF Due, ConnectionTypeOK
  <2>3. PieceSound
    <3>1. 1 .. (reader.already + reader.got) = {}
      BY <1>2
    <3> QED
      BY <1>1, <1>2, <2>1, <3>1 DEF PieceSound
  <2> QED
    BY <1>1, <1>2, <1>5, <2>2, <2>3 DEF ReaderSound, InOrder
<1>8. UpSound
  <2>1. DOMAIN Append(up, Sending) = {1}
    BY <1>1
  <2>2. Follows(Append(up, Sending), "up", UpSizes)
    BY <2>1 DEF Follows
  <2> QED
    BY <1>1, <1>5, <2>2 DEF UpSound, SentInOrder
<1>9. HeardSound
  BY <1>1 DEF HeardSound, FirstHeard
<1>10. InputsSound
  <2>1. ASSUME NEW kind
        PROVE  PlacesOf(kind, called) = {} /\ PlacesOf(kind, pressed) = {}
    BY <1>1 DEF PlacesOf
  <2>2. \A kind \in Input : Cardinality(PlacesOf(kind, called)) + 0 <= Cardinality(PlacesOf(kind, pressed))
    BY <2>1, FS_EmptySet
  <2> QED
    BY <1>1, <2>2 DEF InputsSound, InputsCounted
<1>11. JoinsSound
  <2>1. PlacesOf("Join", called) = {} /\ PlacesIn(Proper, pressed) = {} /\ ~ JoinDue
    BY <1>1 DEF PlacesOf, PlacesIn, JoinDue
  <2>2. Cardinality(PlacesOf("Join", called)) + 0 <= Cardinality(PlacesIn(Proper, pressed))
    BY <2>1, FS_EmptySet
  <2> QED
    BY <2>1, <2>2 DEF JoinsSound, JoinsCounted
<1>12. DrawnSound
  <2>1. Drawable(Len(read)) = {}
    BY <1>1 DEF Drawable
  <2>2. Cardinality(Drawable(Len(read))) = Len(drawn) + 0
    BY <1>1, <2>1, FS_EmptySet
  <2> QED
    BY <1>2, <2>1, <2>2 DEF DrawnSound, DrawnInOrder
<1> QED
  BY <1>3, <1>4, <1>6, <1>7, <1>8, <1>9, <1>10, <1>11, <1>12 DEF ConnectionInv

\* Each part holds after a step because of the parts before it and before the step.
LEMMA InvariantStep ==
  ASSUME ConnectionInv, Next
  PROVE  ConnectionInv'
<1>1. ConnectionTypeOK' /\ Step /\ "overflow" \notin overlaps
  BY TypeStep, NextIsStep DEF ConnectionInv
<1>2. overlaps \subseteq overlaps' /\ Apart'
  BY <1>1, StepNotes DEF ConnectionInv, ConnectionTypeOK
<1>3. DownSound'
  BY <1>1, <1>2, DownStep DEF ConnectionInv
<1>4. ReaderSound'
  BY <1>1, <1>2, ReaderStep DEF ConnectionInv
<1>5. UpSound'
  BY <1>1, <1>2, UpStep DEF ConnectionInv
<1>6. HeardSound'
  BY <1>1, <1>2, HeardStep DEF ConnectionInv, ConnectionTypeOK
<1>7. InputsSound'
  BY <1>1, <1>2, InputsStep DEF ConnectionInv
<1>8. JoinsSound'
  BY <1>1, <1>2, JoinsStep DEF ConnectionInv
<1>9. DrawnSound'
  BY <1>1, <1>2, DrawnStep DEF ConnectionInv
<1> QED
  BY <1>1, <1>2, <1>3, <1>4, <1>5, <1>6, <1>7, <1>8, <1>9 DEF ConnectionInv

\* A step that is none changes no part.
LEMMA InvariantStays ==
  ASSUME ConnectionInv, UNCHANGED vars
  PROVE  ConnectionInv'
<1>1. /\ UNCHANGED <<told, down, called, up, overlaps>>
      /\ UNCHANGED <<buffer, buf_len, read_idx, writes, resumed, receive, up_taken, heard>>
      /\ UNCHANGED <<in_lobby, buf_tcp, buf_len_tcp, read_idx_tcp, buf_udp, reader, read, drawn, pressed, input>>
  BY DEF vars, session, client
<1>2. ConnectionTypeOK'
  BY TypeStep DEF ConnectionInv
<1>3. Apart'
  BY <1>1 DEF ConnectionInv, Apart, MidMessage
<1>4. DownSound'
  BY <1>1, DownStays DEF ConnectionInv, DownSound, Without
<1>5. ReaderSound'
  BY <1>1, InputInOrder DEF ConnectionInv, ReaderSound, Without, session, Endless, Reading
<1>6. UpSound'
  BY <1>1, SentStays DEF ConnectionInv, UpSound, Without
<1>7. HeardSound'
  BY <1>1, HeardStays DEF ConnectionInv, HeardSound, Without, ConnectionTypeOK, StreamsTyped
<1>8. InputsSound'
  BY <1>1, CountedStays DEF ConnectionInv, InputsSound, Without
<1>9. JoinsSound'
  BY <1>1 DEF ConnectionInv, JoinsSound, JoinsCounted, JoinDue, PlacesOf, PlacesIn, Without
<1>10. DrawnSound'
  <2>1. Longer
    BY <1>1 DEF Longer
  <2> QED
    BY <1>1, <2>1, DrawnStays DEF ConnectionInv, DrawnSound, Without
<1> QED
  BY <1>2, <1>3, <1>4, <1>5, <1>6, <1>7, <1>8, <1>9, <1>10 DEF ConnectionInv

(***************************************************************************)
(* The inductive invariant: for each operation of the session and of the   *)
(* client, what its part of a buffer holds while nothing has met it there. *)
(***************************************************************************)
THEOREM ConnectionInvariant == Spec => []ConnectionInv
<1>1. ConnectionInit => ConnectionInv
  BY InvariantInit
<1>2. ConnectionInv /\ [Next]_vars => ConnectionInv'
  BY InvariantStep, InvariantStays
<1> QED
  BY <1>1, <1>2, PTL DEF Spec

(***************************************************************************)
(* Whatever meets in a buffer of the session or of the client, the indices *)
(* stay natural numbers and no message is spoken of that was not sent.     *)
(***************************************************************************)
THEOREM ConnectionTypes == Spec => []ConnectionTypeOK
<1>1. ConnectionInv => ConnectionTypeOK
  BY DEF ConnectionInv
<1> QED
  BY <1>1, ConnectionInvariant, PTL

(***************************************************************************)
(* What the client has read are the first messages that the session was    *)
(* given to send, each once and in order, however the transfers are cut    *)
(* and interleaved, unless two operations have met in a buffer             *)
(* (read_message of Client, send_message of GameSession); and it draws     *)
(* them in that order.  Strings that a char cannot say and messages beyond *)
(* the buffers are among those sent: the reader stops in the former, and   *)
(* with the latter the model ends.                                         *)
(***************************************************************************)
THEOREM ReadsInOrder == Spec => []ReadAsSent
<1>1. ASSUME ConnectionInv, Without({"writes", "receive", "sends"})
      PROVE  reader.phase # "astray" /\ read = [i \in 1 .. Len(read) |-> i]
  <2>1. read \in Seq(1 .. Len(told)) /\ reader.phase # "astray" /\ \A i \in DOMAIN read : read[i] = i
    BY <1>1 DEF ConnectionInv, ReaderSound, ConnectionTypeOK, ClientTyped, InOrder, Endless, Reading
  <2>2. read = [i \in 1 .. Len(read) |-> read[i]] /\ \A i \in 1 .. Len(read) : read[i] = i
    BY <2>1
  <2>3. [i \in 1 .. Len(read) |-> read[i]] = [i \in 1 .. Len(read) |-> i]
    BY <2>2
  <2> QED
    BY <2>1, <2>2, <2>3
<1>2. ASSUME ConnectionInv, Without({"inputs"})
      PROVE  /\ Cardinality(Drawable(Len(read))) - Len(drawn) \in {0, 1}
             /\ \A j \in Drawable(Len(read)) :
                  Cardinality(Drawable(j)) <= Len(drawn) => drawn[Cardinality(Drawable(j))] = read[j]
  <2>1. DrawnInOrder /\ drawn \in Seq(0 .. Len(told))
    BY <1>2 DEF ConnectionInv, DrawnSound, ConnectionTypeOK, ClientTyped
  <2>2. Cardinality(Drawable(Len(read))) = Len(drawn) + (IF reader.phase = "drawing" THEN 1 ELSE 0)
    BY <2>1 DEF DrawnInOrder
  <2>3. Len(drawn) \in Nat
    BY <2>1
  <2>4. Cardinality(Drawable(Len(read))) - Len(drawn) \in {0, 1}
    BY <2>2, <2>3
  <2> QED
    BY <2>1, <2>4 DEF DrawnInOrder
<1>3. ConnectionInv => ReadAsSent
  BY <1>1, <1>2 DEF ReadAsSent
<1> QED
  BY <1>3, ConnectionInvariant, PTL

(***************************************************************************)
(* What the client writes is its messages, one after the other and byte by *)
(* byte, and the session hears the first of them, unless the operations it *)
(* depends on have met or come in parts (send_join and its siblings of     *)
(* Client, read_message of GameSession); and it sends no input that has    *)
(* not been made, and no Join without one.  A name that a char cannot say  *)
(* is never heard as another: it ends the server.                          *)
(***************************************************************************)
THEOREM HearsInOrder == Spec => []HeardAsSent
<1>1. ASSUME ConnectionInv, Without({"sends", "short"})
      PROVE  /\ up # <<>> => up[1] = <<"up", 1, 1>>
             /\ \A i \in DOMAIN up : up[i][2] <= Len(called) /\ (i > 1 => up[i] = NextUp(up[i - 1]))
  <2>1. SentInOrder /\ StreamsTyped
    BY <1>1 DEF ConnectionInv, UpSound, ConnectionTypeOK
  <2> DEFINE stream == Append(up, Sending)
  <2>2. /\ Len(up) \in Nat /\ DOMAIN up = 1 .. Len(up) /\ DOMAIN stream = 1 .. (Len(up) + 1)
        /\ \A i \in 1 .. Len(up) : stream[i] = up[i]
    BY <2>1, BytesArePlaces, UpSizesTyped, AppendProperties, LenProperties
  <2>3. stream[1] = <<"up", 1, 1>> /\ Follows(stream, "up", UpSizes)
    BY <2>1 DEF SentInOrder
  <2>4. /\ DOMAIN UpSizes = 1 .. Len(called) /\ Len(called) \in Nat
        /\ \A n \in 1 .. Len(called) : UpSizes[n] = ClientMessage[called[n]] /\ UpSizes[n] \in Nat \ {0}
    BY <2>1, UpSizesTyped
  <2> HIDE DEF stream
  <2>5. up # <<>> => up[1] = <<"up", 1, 1>>
    <3>1. up # <<>> => 1 \in 1 .. Len(up)
      BY <2>1 DEF StreamsTyped
    <3> QED
      BY <2>2, <2>3, <3>1
  <2>6. ASSUME NEW i \in DOMAIN up
        PROVE  GoesOn(up[i], stream[i + 1], 1, "up", UpSizes)
    <3>1. i \in DOMAIN stream /\ i + 1 \in DOMAIN stream /\ i < i + 1 /\ (i + 1) - i = 1
      BY <2>2
    <3>2. GoesOn(stream[i], stream[i + 1], (i + 1) - i, "up", UpSizes)
      BY <2>3, <3>1 DEF Follows
    <3> QED
      BY <2>2, <3>1, <3>2
  <2>7. \A i \in DOMAIN up : up[i][2] <= Len(called)
    BY <2>4, <2>6 DEF GoesOn
  <2>8. ASSUME NEW i \in DOMAIN up, i > 1
        PROVE  up[i] = NextUp(up[i - 1])
    <3>1. i - 1 \in DOMAIN up /\ (i - 1) + 1 = i /\ stream[i] = up[i]
      BY <2>2, <2>8
    <3> DEFINE b == up[i - 1]
    <3>2. GoesOn(b, up[i], 1, "up", UpSizes)
      BY <2>6, <3>1
    <3>3. /\ b[2] \in 1 .. Len(called) /\ b[3] \in 1 .. UpSizes[b[2]]
          /\ UpSizes[b[2]] = ClientMessage[called[b[2]]] /\ UpSizes[b[2]] \in Nat
          /\ b[3] + 1 <= UpSizes[b[2]] => up[i] = <<"up", b[2], b[3] + 1>>
          /\ b[3] + 1 = UpSizes[b[2]] + 1 => up[i] = <<"up", b[2] + 1, 1>>
      BY <2>4, <3>2 DEF GoesOn
    <3> HIDE DEF b
    <3>4. NextUp(b) = IF b[3] < UpSizes[b[2]] THEN <<"up", b[2], b[3] + 1>> ELSE <<"up", b[2] + 1, 1>>
      BY <3>3 DEF NextUp
    <3>5. up[i] = NextUp(b)
      <4>1. CASE b[3] < UpSizes[b[2]]
        BY <3>3, <3>4, <4>1
      <4>2. CASE ~ (b[3] < UpSizes[b[2]])
        <5>1. b[3] + 1 = UpSizes[b[2]] + 1
          BY <3>3, <4>2
        <5> QED
          BY <3>3, <3>4, <4>2, <5>1
      <4> QED
        BY <4>1, <4>2
    <3> QED
      BY <3>5 DEF b
  <2> QED
    BY <2>5, <2>7, <2>8
<1>2. ASSUME ConnectionInv, Without({"sends", "short", "receive"})
      PROVE  heard \in {<<>>, <<1>>}
  BY <1>2 DEF ConnectionInv, HeardSound, FirstHeard
<1>3. ASSUME ConnectionInv, Without({"inputs"}), NEW kind \in Input
      PROVE  Cardinality({n \in DOMAIN called : called[n] = kind})
               <= Cardinality({n \in DOMAIN pressed : pressed[n] = kind})
  <2> DEFINE c == Cardinality(PlacesOf(kind, called))
             p == Cardinality(PlacesOf(kind, pressed))
  <2>1. c \in Nat
    BY <1>3, PlacesCounted DEF ConnectionInv, ConnectionTypeOK, StreamsTyped
  <2>2. p \in Nat
    BY <1>3, PlacesCounted DEF ConnectionInv, ConnectionTypeOK, ClientTyped
  <2>3. c + (IF input.phase = "given" /\ pressed[Len(pressed)] = kind THEN 1 ELSE 0) <= p
    BY <1>3 DEF ConnectionInv, InputsSound, InputsCounted
  <2> HIDE DEF c, p
  <2>4. c <= p
    BY <2>1, <2>2, <2>3
  <2> QED
    BY <2>4 DEF c, p, PlacesOf
<1>4. ASSUME ConnectionInv, Without({"inputs"})
      PROVE  Cardinality({n \in DOMAIN called : called[n] = "Join"})
               <= Cardinality({n \in DOMAIN pressed : pressed[n] # "Invalid"})
  <2> DEFINE c == Cardinality(PlacesOf("Join", called))
             p == Cardinality(PlacesIn(Proper, pressed))
  <2>1. called \in Seq(Outgoing) /\ pressed \in Seq(Input)
    BY <1>4 DEF ConnectionInv, ConnectionTypeOK, StreamsTyped, ClientTyped
  <2>2. c \in Nat /\ p \in Nat
    BY <2>1, PlacesCounted, PlacesInCounted
  <2>3. c + (IF JoinDue THEN 1 ELSE 0) <= p
    BY <1>4 DEF ConnectionInv, JoinsSound, JoinsCounted
  <2>4. PlacesIn(Proper, pressed) = {n \in DOMAIN pressed : pressed[n] # "Invalid"}
    BY <2>1 DEF PlacesIn, Proper
  <2>5. c <= p
    <3> HIDE DEF c, p
    <3> QED
      BY <2>2, <2>3
  <2> QED
    BY <2>4, <2>5 DEF PlacesOf
<1>5. ConnectionInv => HeardAsSent
  BY <1>1, <1>2, <1>3, <1>4 DEF HeardAsSent
<1> QED
  BY <1>5, ConnectionInvariant, PTL
=============================================================================
