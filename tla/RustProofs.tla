-------------------------------- MODULE RustProofs -----------------------------
(***************************************************************************)
(* Theorems about the Rust programs.  Gui: for every capacity of the       *)
(* channel, every socket and every set of messages, what is received       *)
(* reaches draw in order and without a gap, and the screen shows the       *)
(* newest of what draw has seen.  Random: the numbers of the generator,    *)
(* for every seed.                                                         *)
(***************************************************************************)
EXTENDS Gui, Random, SequenceTheorems, FiniteSetTheorems, TLAPS

(***************************************************************************)
(* Numbers of receipts run on from the event queue over the channel to the *)
(* hand of the thread.                                                     *)
(***************************************************************************)
HandSize == IF thread = "receiving" THEN 0 ELSE 1

Numbered ==
  /\ Len(decoded) = sends + Len(channel) + HandSize
  /\ Len(older) + Len(newer) <= sends
  /\ \A k \in 1 .. Len(channel) : channel[k] = sends + k
  /\ \A k \in 1 .. Len(newer) : newer[k] = sends - Len(newer) + k
  /\ \A k \in 1 .. Len(older) : older[k] = sends - Len(newer) - Len(older) + k

(***************************************************************************)
(* What draw has not passed is still kept; once it has run in a frame, it  *)
(* is in the newer of the two queues, which the next update keeps.         *)
(***************************************************************************)
Kept ==
  /\ seen <= sends
  /\ sends - seen <= Len(older) + Len(newer)
  /\ "draw" \notin frame => sends - seen <= Len(newer)

GInv == GuiTypeOK /\ Numbered /\ Kept /\ OneMessageShown

--------------------------------------------------------------------------------
(***************************************************************************)
(* The end of a sequence.                                                  *)
(***************************************************************************)
LEMMA EndOfSeq ==
  ASSUME NEW S, NEW s \in Seq(S), NEW m \in 0 .. Len(s)
  PROVE  /\ SubSeq(s, m + 1, Len(s)) \in Seq(S)
         /\ Len(SubSeq(s, m + 1, Len(s))) = Len(s) - m
         /\ \A k \in 1 .. (Len(s) - m) : SubSeq(s, m + 1, Len(s))[k] = s[m + k]
<1>1. Len(s) \in Nat
  BY LenProperties
<1>2. \A k \in 1 .. Len(s) : s[k] \in S
  BY ElementOfSeq
<1> QED  BY <1>1, <1>2, SubSeqProperties

(***************************************************************************)
(* What the reader of draw finds is numbered from seen + 1 to sends.       *)
(***************************************************************************)
LEMMA UnreadNumbered ==
  ASSUME GuiTypeOK, Numbered, Kept
  PROVE  /\ Unread \in Seq(Nat)
         /\ Len(Unread) = sends - seen
         /\ \A k \in 1 .. (sends - seen) : Unread[k] = seen + k
<1> DEFINE events == older \o newer
           n == Len(events)
           passed == n - (sends - seen)
<1>1. /\ older \in Seq(Nat) /\ newer \in Seq(Nat)
      /\ Len(older) \in Nat /\ Len(newer) \in Nat
      /\ sends \in Nat /\ seen \in Nat
  BY LenProperties DEF GuiTypeOK
<1>2. /\ events \in Seq(Nat) /\ n = Len(older) + Len(newer)
      /\ \A k \in 1 .. n : events[k] = IF k <= Len(older) THEN older[k]
                                       ELSE newer[k - Len(older)]
  BY <1>1, ConcatProperties
<1>3. \A k \in 1 .. n : events[k] = sends - n + k
  <2> TAKE k \in 1 .. n
  <2>1. CASE k <= Len(older)
    <3>1. k \in 1 .. Len(older)
      BY <2>1, <1>1, <1>2
    <3>2. older[k] = sends - Len(newer) - Len(older) + k
      BY <3>1 DEF Numbered
    <3> HIDE DEF events
    <3> QED  BY <3>2, <2>1, <1>1, <1>2
  <2>2. CASE ~ k <= Len(older)
    <3>1. k - Len(older) \in 1 .. Len(newer)
      BY <2>2, <1>1, <1>2
    <3>2. newer[k - Len(older)] = sends - Len(newer) + (k - Len(older))
      BY <3>1 DEF Numbered
    <3> HIDE DEF events
    <3> QED  BY <3>2, <2>2, <1>1, <1>2
  <2> QED  BY <2>1, <2>2
<1>4. passed \in 0 .. n
  BY <1>1, <1>2 DEF Kept
<1>5. Unread = SubSeq(events, passed + 1, n)
  <2>1. ~ passed < 0
    BY <1>4, <1>2
  <2> QED  BY <2>1 DEF Unread
<1> HIDE DEF events
<1>6. /\ n \in Nat /\ passed \in Int /\ n - passed = sends - seen
  BY <1>1, <1>2
<1> HIDE DEF n, passed
<1>7. /\ SubSeq(events, passed + 1, n) \in Seq(Nat)
      /\ Len(SubSeq(events, passed + 1, n)) = n - passed
      /\ \A k \in 1 .. (n - passed) : SubSeq(events, passed + 1, n)[k] = events[passed + k]
  BY <1>2, <1>4, <1>6, EndOfSeq DEF n
<1>8. \A k \in 1 .. (n - passed) : events[passed + k] = seen + k
  <2> TAKE k \in 1 .. (n - passed)
  <2>1. passed + k \in 1 .. n
    BY <1>4, <1>6
  <2>2. events[passed + k] = sends - n + (passed + k)
    BY <2>1, <1>3
  <2> QED  BY <2>2, <1>1, <1>6
<1> QED  BY <1>5, <1>6, <1>7, <1>8

--------------------------------------------------------------------------------
LEMMA GuiStarts == GuiInit => GInv
<1> SUFFICES ASSUME GuiInit PROVE GInv
  OBVIOUS
<1>1. /\ <<>> \in Seq(Displays \cup {Garbage}) /\ <<>> \in Seq(Displays)
      /\ <<>> \in Seq(Nat) /\ <<>> \in Seq([key : Keys, down : BOOLEAN])
      /\ Len(<<>>) = 0
  OBVIOUS
<1>2. GuiTypeOK
  <2>1. /\ socket \in Seq(Displays \cup {Garbage}) /\ decoded \in Seq(Displays)
        /\ keyboard \in Seq([key : Keys, down : BOOLEAN])
        /\ pressed \in Seq([key : Keys, down : BOOLEAN])
    BY <1>1 DEF GuiInit
  <2>2. /\ channel \in Seq(Nat) /\ Len(channel) <= Capacity
        /\ older \in Seq(Nat) /\ newer \in Seq(Nat) /\ shown \in 0 .. Len(decoded)
    BY <1>1, CapacityAssumption DEF GuiInit
  <2>3. /\ thread \in {"receiving", "sending", "panicked"} /\ open \in BOOLEAN
        /\ frame \in SUBSET System /\ taking \in BOOLEAN
        /\ sends \in Nat /\ seen \in Nat
    BY DEF GuiInit
  <2> QED  BY <2>1, <2>2, <2>3 DEF GuiTypeOK
<1>3. Numbered /\ Kept /\ OneMessageShown
  BY DEF GuiInit, Numbered, HandSize, Kept, OneMessageShown
<1> QED  BY <1>2, <1>3 DEF GInv

(***************************************************************************)
(* Steps that leave the messages where they are.                           *)
(***************************************************************************)
LEMMA MessagesStay ==
  ASSUME GInv,
         UNCHANGED <<decoded, thread, channel, eventVars, screenVars>>,
         "draw" \in frame => "draw" \in frame'
  PROVE  Numbered' /\ Kept' /\ OneMessageShown'
<1>1. UNCHANGED <<older, newer, sends, seen, shown, screen, decoded, thread, channel>>
  BY DEF eventVars, screenVars
<1>2. Numbered'
  BY <1>1 DEF GInv, Numbered, HandSize
<1>3. Kept'
  BY <1>1 DEF GInv, Kept
<1>4. OneMessageShown'
  BY <1>1 DEF GInv, OneMessageShown
<1> QED  BY <1>2, <1>3, <1>4

(***************************************************************************)
(* The steps that move a message.                                          *)
(***************************************************************************)
LEMMA ReceiveKeeps == GInv /\ Receive => GInv'
<1> SUFFICES ASSUME GInv, Receive PROVE GInv'
  OBVIOUS
<1> USE DEF GInv, Receive
<1>1. UNCHANGED <<channel, open, frame, older, newer, taking, sends, seen, shown, screen,
                  keyboard, pressed, inputs>>
  BY DEF eventVars, screenVars, keyVars
<1>2. /\ Head(socket) \in Displays \cup {Garbage}
      /\ socket' \in Seq(Displays \cup {Garbage})
  BY HeadTailProperties DEF GuiTypeOK
<1>3. CASE Head(socket) = Garbage
  <2>1. UNCHANGED <<decoded, thread>>
    BY <1>3
  <2>2. GuiTypeOK'
    BY <1>1, <1>2, <2>1 DEF GuiTypeOK
  <2>3. Numbered' /\ Kept' /\ OneMessageShown'
    BY <1>1, <2>1, MessagesStay DEF eventVars, screenVars
  <2> QED  BY <2>2, <2>3
<1>4. CASE Head(socket) # Garbage
  <2>1. /\ decoded' = Append(decoded, Head(socket)) /\ thread' = "sending"
        /\ Head(socket) \in Displays
    BY <1>2, <1>4
  <2>2. /\ decoded' \in Seq(Displays) /\ Len(decoded') = Len(decoded) + 1
        /\ \A k \in 1 .. Len(decoded) : decoded'[k] = decoded[k]
        /\ Len(decoded) \in Nat
    BY <2>1, AppendProperties, LenProperties DEF GuiTypeOK
  <2>3. GuiTypeOK'
    BY <1>1, <1>2, <2>1, <2>2 DEF GuiTypeOK
  <2>4. Numbered'
    <3>1. Len(channel) \in Nat /\ sends \in Nat
      BY LenProperties DEF GuiTypeOK
    <3>2. Len(decoded') = sends' + Len(channel') + HandSize'
      BY <1>1, <2>1, <2>2, <3>1 DEF Numbered, HandSize
    <3> QED  BY <1>1, <3>2 DEF Numbered
  <2>5. Kept'
    BY <1>1 DEF Kept
  <2>6. OneMessageShown'
    BY <1>1, <2>2 DEF OneMessageShown, GuiTypeOK
  <2> QED  BY <2>3, <2>4, <2>5, <2>6
<1> QED  BY <1>3, <1>4

LEMMA SendKeeps == GInv /\ Send => GInv'
<1> SUFFICES ASSUME GInv, Send PROVE GInv'
  OBVIOUS
<1> USE DEF GInv, Send
<1>1. UNCHANGED <<socket, decoded, open, frame, older, newer, taking, sends, seen, shown,
                  screen, keyboard, pressed, inputs>>
  BY DEF eventVars, screenVars, keyVars
<1>2. /\ channel \in Seq(Nat) /\ Len(channel) \in Nat /\ Len(decoded) \in Nat
      /\ sends \in Nat
  BY LenProperties DEF GuiTypeOK
<1>3. /\ channel' \in Seq(Nat) /\ Len(channel') = Len(channel) + 1
      /\ \A k \in 1 .. Len(channel) : channel'[k] = channel[k]
      /\ channel'[Len(channel) + 1] = Len(decoded)
  BY <1>2, AppendProperties
<1>4. GuiTypeOK'
  BY <1>1, <1>2, <1>3, CapacityAssumption DEF GuiTypeOK
<1>5. Len(decoded) = sends + Len(channel) + 1
  BY DEF Numbered, HandSize
<1>6. \A k \in 1 .. Len(channel') : channel'[k] = sends' + k
  <2> TAKE k \in 1 .. Len(channel')
  <2>1. CASE k \in 1 .. Len(channel)
    BY <2>1, <1>1, <1>3 DEF Numbered
  <2>2. CASE k = Len(channel) + 1
    BY <2>2, <1>1, <1>2, <1>3, <1>5
  <2> QED  BY <2>1, <2>2, <1>2, <1>3
<1>7. Len(decoded') = sends' + Len(channel') + HandSize'
  BY <1>1, <1>2, <1>3, <1>5 DEF HandSize
<1>8. Numbered'
  BY <1>1, <1>6, <1>7 DEF Numbered
<1>9. Kept' /\ OneMessageShown'
  BY <1>1 DEF Kept, OneMessageShown
<1> QED  BY <1>4, <1>8, <1>9

LEMMA TakeKeeps == GInv /\ ReadStreamTakes => GInv'
<1> SUFFICES ASSUME GInv, ReadStreamTakes PROVE GInv'
  OBVIOUS
<1> USE DEF GInv, ReadStreamTakes
<1>1. UNCHANGED <<socket, decoded, thread, open, frame, older, seen, shown, screen,
                  keyboard, pressed, inputs>>
  BY DEF receiverVars, screenVars, keyVars
<1>2. /\ channel \in Seq(Nat) /\ Len(channel) \in Nat /\ newer \in Seq(Nat)
      /\ Len(newer) \in Nat /\ Len(older) \in Nat /\ sends \in Nat /\ seen \in Nat
  BY LenProperties DEF GuiTypeOK
<1>3. /\ Head(channel) \in Nat /\ channel' \in Seq(Nat)
      /\ Len(channel') = Len(channel) - 1
      /\ \A k \in 1 .. Len(channel') : channel'[k] = channel[k + 1]
  BY <1>2, HeadTailProperties
<1>4. /\ newer' \in Seq(Nat) /\ Len(newer') = Len(newer) + 1
      /\ \A k \in 1 .. Len(newer) : newer'[k] = newer[k]
      /\ newer'[Len(newer) + 1] = Head(channel)
  BY <1>2, <1>3, AppendProperties
<1>5. Len(channel) >= 1
  BY <1>2, EmptySeq
<1>6. Head(channel) = sends + 1
  <2>1. Head(channel) = channel[1]
    BY <1>2
  <2>2. 1 \in 1 .. Len(channel)
    BY <1>5, <1>2
  <2> QED  BY <2>1, <2>2 DEF Numbered
<1>7. GuiTypeOK'
  BY <1>1, <1>2, <1>3, <1>4, CapacityAssumption DEF GuiTypeOK
<1>8. Numbered'
  <2>1. Len(decoded') = sends' + Len(channel') + HandSize'
    <3>1. Len(decoded) = sends + Len(channel) + HandSize /\ HandSize' = HandSize
          /\ HandSize \in Nat
      BY <1>1 DEF Numbered, HandSize
    <3> QED  BY <3>1, <1>1, <1>2, <1>3
  <2>2. Len(older') + Len(newer') <= sends'
    BY <1>1, <1>2, <1>4 DEF Numbered
  <2>3. \A k \in 1 .. Len(channel') : channel'[k] = sends' + k
    <3> TAKE k \in 1 .. Len(channel')
    <3>1. k + 1 \in 1 .. Len(channel)
      BY <1>2, <1>3
    <3>2. channel[k + 1] = sends + (k + 1)
      BY <3>1 DEF Numbered
    <3> QED  BY <3>2, <1>2, <1>3
  <2>4. \A k \in 1 .. Len(newer') : newer'[k] = sends' - Len(newer') + k
    <3> TAKE k \in 1 .. Len(newer')
    <3>1. CASE k \in 1 .. Len(newer)
      <4>1. newer[k] = sends - Len(newer) + k
        BY <3>1 DEF Numbered
      <4> QED  BY <4>1, <3>1, <1>2, <1>4
    <3>2. CASE k = Len(newer) + 1
      BY <3>2, <1>2, <1>4, <1>6
    <3> QED  BY <3>1, <3>2, <1>2, <1>4
  <2>5. \A k \in 1 .. Len(older') : older'[k] = sends' - Len(newer') - Len(older') + k
    <3> TAKE k \in 1 .. Len(older')
    <3>1. older[k] = sends - Len(newer) - Len(older) + k
      BY <1>1 DEF Numbered
    <3> QED  BY <3>1, <1>1, <1>2, <1>4
  <2> QED  BY <2>1, <2>2, <2>3, <2>4, <2>5 DEF Numbered
<1>9. Kept'
  BY <1>1, <1>2, <1>4 DEF Kept
<1>10. OneMessageShown'
  BY <1>1 DEF OneMessageShown
<1> QED  BY <1>7, <1>8, <1>9, <1>10

LEMMA DrawKeeps == GInv /\ Draw => GInv' /\ shown' >= shown
<1> SUFFICES ASSUME GInv, Draw PROVE GInv' /\ shown' >= shown
  OBVIOUS
<1> USE DEF GInv
<1>1. UNCHANGED <<socket, decoded, thread, channel, open, older, newer, taking, sends,
                  keyboard, pressed, inputs>>
  BY DEF Draw, receiverVars, keyVars
<1>2. seen' = sends /\ frame' = frame \ {"draw"}
  BY DEF Draw, Ran
<1>3. /\ Unread \in Seq(Nat) /\ Len(Unread) = sends - seen
      /\ \A k \in 1 .. (sends - seen) : Unread[k] = seen + k
  BY UnreadNumbered
<1>4. /\ sends \in Nat /\ seen \in Nat /\ shown \in Nat /\ seen <= sends
      /\ Len(older) \in Nat /\ Len(newer) \in Nat /\ Len(channel) \in Nat
      /\ Len(decoded) \in Nat
  BY LenProperties DEF GuiTypeOK, Kept
<1>5. shown = seen
  BY DEF OneMessageShown
<1>6. /\ shown' = sends
      /\ screen' = IF shown' = 0 THEN Waiting ELSE Renderables(decoded[shown'])
  <2>1. CASE Unread = <<>>
    <3>1. sends = seen
      BY <2>1, <1>3, <1>4
    <3>2. UNCHANGED <<shown, screen>>
      BY <2>1 DEF Draw, screenVars
    <3> QED  BY <3>1, <3>2, <1>5 DEF OneMessageShown
  <2>2. CASE Unread # <<>>
    <3>1. sends - seen \in Nat /\ sends - seen # 0
      BY <2>2, <1>3, <1>4, EmptySeq
    <3>2. Newest = sends
      <4>1. sends - seen \in 1 .. (sends - seen)
        BY <3>1
      <4>2. Unread[sends - seen] = seen + (sends - seen)
        BY <4>1, <1>3
      <4> QED  BY <4>2, <1>3, <1>4 DEF Newest
    <3>3. shown' = Newest /\ screen' = Renderables(decoded[Newest])
      BY <2>2 DEF Draw, Redrawn
    <3>4. sends # 0
      BY <3>1, <1>4
    <3> QED  BY <3>2, <3>3, <3>4
  <2> QED  BY <2>1, <2>2
<1>7. GuiTypeOK'
  <2>1. shown' \in 0 .. Len(decoded')
    <3>1. Len(decoded) = sends + Len(channel) + HandSize /\ HandSize \in Nat
      BY DEF Numbered, HandSize
    <3> QED  BY <3>1, <1>1, <1>4, <1>6
  <2> QED  BY <2>1, <1>1, <1>2, <1>4 DEF GuiTypeOK
<1>8. Numbered'
  BY <1>1 DEF Numbered, HandSize
<1>9. Kept'
  BY <1>1, <1>2, <1>4 DEF Kept
<1>10. OneMessageShown'
  BY <1>1, <1>2, <1>6 DEF OneMessageShown
<1> QED  BY <1>4, <1>5, <1>6, <1>7, <1>8, <1>9, <1>10

LEMMA FrameKeeps == GInv /\ NextFrame => GInv'
<1> SUFFICES ASSUME GInv, NextFrame PROVE GInv'
  OBVIOUS
<1> USE DEF GInv, NextFrame
<1>1. UNCHANGED <<socket, decoded, thread, channel, open, taking, sends, seen, shown, screen,
                  keyboard, pressed, inputs>>
  BY DEF receiverVars, screenVars, keyVars
<1>2. /\ older' = newer /\ newer' = <<>> /\ frame' = System
      /\ Len(<<>>) = 0 /\ <<>> \in Seq(Nat)
  OBVIOUS
<1>3. /\ sends \in Nat /\ seen \in Nat /\ Len(older) \in Nat /\ Len(newer) \in Nat
  BY LenProperties DEF GuiTypeOK
<1>4. GuiTypeOK'
  BY <1>1, <1>2 DEF GuiTypeOK, System
<1>5. Numbered'
  <2>1. Len(decoded') = sends' + Len(channel') + HandSize'
    BY <1>1 DEF Numbered, HandSize
  <2>2. Len(older') + Len(newer') <= sends'
    BY <1>1, <1>2, <1>3 DEF Numbered
  <2>3. \A k \in 1 .. Len(older') : older'[k] = sends' - Len(newer') - Len(older') + k
    <3> TAKE k \in 1 .. Len(older')
    <3>1. newer[k] = sends - Len(newer) + k
      BY <1>2 DEF Numbered
    <3> QED  BY <3>1, <1>1, <1>2, <1>3
  <2>4. \A k \in 1 .. Len(newer') : newer'[k] = sends' - Len(newer') + k
    BY <1>2
  <2>5. \A k \in 1 .. Len(channel') : channel'[k] = sends' + k
    BY <1>1 DEF Numbered
  <2> QED  BY <2>1, <2>2, <2>3, <2>4, <2>5 DEF Numbered
<1>6. Kept'
  <2>1. sends - seen <= Len(newer)
    BY DEF Kept
  <2> QED  BY <2>1, <1>1, <1>2, <1>3 DEF Kept, System
<1>7. OneMessageShown'
  BY <1>1 DEF OneMessageShown
<1> QED  BY <1>4, <1>5, <1>6, <1>7

(***************************************************************************)
(* Every step keeps the invariant, and none takes the screen back.         *)
(***************************************************************************)
LEMMA GuiKeeps == GInv /\ [GuiNext]_guiVars => GInv' /\ shown' >= shown
<1> SUFFICES ASSUME GInv, [GuiNext]_guiVars PROVE GInv' /\ shown' >= shown
  OBVIOUS
<1> USE DEF GInv
<1>0. shown \in Nat
  BY LenProperties DEF GuiTypeOK
<1>1. CASE Arrives
  <2>1. UNCHANGED <<decoded, thread, channel, open, frame, eventVars, screenVars, keyVars>>
    BY <1>1 DEF Arrives
  <2>2. socket' \in Seq(Displays \cup {Garbage})
    BY <1>1, AppendProperties DEF Arrives, GuiTypeOK
  <2>3. GuiTypeOK'
    BY <2>1, <2>2 DEF GuiTypeOK, eventVars, screenVars, keyVars
  <2> QED  BY <1>0, <2>1, <2>3, MessagesStay DEF screenVars
<1>2. CASE Receive
  BY <1>0, <1>2, ReceiveKeeps DEF Receive, screenVars
<1>3. CASE Send
  BY <1>0, <1>3, SendKeeps DEF Send, screenVars
<1>4. CASE Panics
  <2>1. /\ UNCHANGED <<socket, decoded, channel, open, frame, eventVars, screenVars, keyVars>>
        /\ thread = "sending" /\ thread' = "panicked"
    BY <1>4 DEF Panics
  <2>2. UNCHANGED <<older, newer, taking, sends, seen, shown, screen, keyboard, pressed>>
    BY <2>1 DEF eventVars, screenVars, keyVars
  <2>3. GuiTypeOK'
    BY <2>1, <2>2 DEF GuiTypeOK
  <2>4. Numbered'
    BY <2>1, <2>2 DEF Numbered, HandSize
  <2>5. Kept' /\ OneMessageShown'
    BY <2>1, <2>2 DEF Kept, OneMessageShown
  <2> QED  BY <1>0, <2>2, <2>3, <2>4, <2>5
<1>5. CASE ReadStreamTakes
  BY <1>0, <1>5, TakeKeeps DEF ReadStreamTakes, screenVars
<1>6. CASE ReadStreamDone
  <2>1. /\ UNCHANGED <<socket, decoded, thread, channel, open, older, newer, sends, seen,
                       shown, screen, keyboard, pressed>>
        /\ frame' = frame \ {"read_stream"} /\ taking' = FALSE
    BY <1>6 DEF ReadStreamDone, Ran, receiverVars, screenVars, keyVars
  <2>2. GuiTypeOK'
    BY <2>1 DEF GuiTypeOK
  <2>3. Numbered' /\ Kept' /\ OneMessageShown'
    BY <2>1 DEF Numbered, HandSize, Kept, OneMessageShown
  <2> QED  BY <1>0, <2>1, <2>2, <2>3
<1>7. CASE Draw
  BY <1>7, DrawKeeps
<1>8. CASE SendInput
  <2>1. UNCHANGED <<receiverVars, channel, open, frame, eventVars, screenVars, pressed>>
    BY <1>8 DEF SendInput
  <2>2. keyboard' \in Seq([key : Keys, down : BOOLEAN])
    BY <1>8, HeadTailProperties DEF SendInput, GuiTypeOK
  <2>3. GuiTypeOK'
    BY <2>1, <2>2 DEF GuiTypeOK, receiverVars, eventVars, screenVars
  <2> QED  BY <1>0, <2>1, <2>3, MessagesStay DEF receiverVars, screenVars
<1>9. CASE SendInputDone
  <2>1. /\ UNCHANGED <<receiverVars, channel, open, eventVars, screenVars, keyVars>>
        /\ frame' = frame \ {"send_input"}
    BY <1>9 DEF SendInputDone, Ran
  <2>2. GuiTypeOK'
    BY <2>1 DEF GuiTypeOK, receiverVars, eventVars, screenVars, keyVars
  <2> QED  BY <1>0, <2>1, <2>2, MessagesStay DEF receiverVars, screenVars
<1>10. CASE NextFrame
  BY <1>0, <1>10, FrameKeeps DEF NextFrame, screenVars
<1>11. CASE KeyEvent
  <2>1. UNCHANGED <<receiverVars, channel, open, frame, eventVars, screenVars>>
    BY <1>11 DEF KeyEvent
  <2>2. /\ keyboard' \in Seq([key : Keys, down : BOOLEAN])
        /\ pressed' \in Seq([key : Keys, down : BOOLEAN])
    <3>1. PICK key \in Keys, down \in BOOLEAN :
            /\ keyboard' = Append(keyboard, [key |-> key, down |-> down])
            /\ pressed' = Append(pressed, [key |-> key, down |-> down])
      BY <1>11 DEF KeyEvent
    <3>2. [key |-> key, down |-> down] \in [key : Keys, down : BOOLEAN]
      OBVIOUS
    <3> QED  BY <3>1, <3>2, AppendProperties DEF GuiTypeOK
  <2>3. GuiTypeOK'
    BY <2>1, <2>2 DEF GuiTypeOK, receiverVars, eventVars, screenVars
  <2> QED  BY <1>0, <2>1, <2>3, MessagesStay DEF receiverVars, screenVars
<1>12. CASE CloseWindow
  <2>1. /\ UNCHANGED <<receiverVars, channel, frame, eventVars, screenVars, keyVars>>
        /\ open' = FALSE
    BY <1>12 DEF CloseWindow
  <2>2. GuiTypeOK'
    BY <2>1 DEF GuiTypeOK, receiverVars, eventVars, screenVars, keyVars
  <2> QED  BY <1>0, <2>1, <2>2, MessagesStay DEF receiverVars, screenVars
<1>13. CASE UNCHANGED guiVars
  <2>1. UNCHANGED <<receiverVars, channel, open, frame, eventVars, screenVars, keyVars>>
    BY <1>13 DEF guiVars
  <2>2. GuiTypeOK'
    BY <2>1 DEF GuiTypeOK, receiverVars, eventVars, screenVars, keyVars
  <2> QED  BY <1>0, <2>1, <2>2, MessagesStay DEF receiverVars, screenVars
<1> QED
  BY <1>1, <1>2, <1>3, <1>4, <1>5, <1>6, <1>7, <1>8, <1>9, <1>10, <1>11, <1>12, <1>13
     DEF GuiNext, Thread, FrameLoop, ReadStream, SendsInput

--------------------------------------------------------------------------------
LEMMA GuiInvariant == GuiSpec => []GInv
<1>1. GInv /\ [GuiNext]_guiVars => GInv'
  BY GuiKeeps
<1> QED  BY GuiStarts, <1>1, PTL DEF GuiSpec

(***************************************************************************)
(* The channel never holds more than its capacity, and numbers, queues and *)
(* systems are of their types, for every capacity, socket and set of       *)
(* messages.                                                               *)
(***************************************************************************)
THEOREM GuiTypes == GuiSpec => []GuiTypeOK
<1>1. GInv => GuiTypeOK
  BY DEF GInv
<1> QED  BY GuiInvariant, <1>1, PTL

(***************************************************************************)
(* However many messages there are and however the thread and the systems  *)
(* interleave, none that was decoded is lost or overtaken before draw has  *)
(* passed it.                                                              *)
(***************************************************************************)
THEOREM InOrderWithoutGap == GuiSpec => []NothingLost
<1>1. GInv => NothingLost
  <2> SUFFICES ASSUME GInv PROVE NothingLost
    OBVIOUS
  <2> DEFINE waiting == Unread \o channel
             n == Len(decoded) - seen
  <2>1. /\ Unread \in Seq(Nat) /\ Len(Unread) = sends - seen
        /\ \A k \in 1 .. (sends - seen) : Unread[k] = seen + k
    BY UnreadNumbered DEF GInv
  <2>2. /\ sends \in Nat /\ seen \in Nat /\ seen <= sends
        /\ channel \in Seq(Nat) /\ Len(channel) \in Nat /\ Len(decoded) \in Nat
    BY LenProperties DEF GInv, GuiTypeOK, Kept
  <2>3. /\ waiting \in Seq(Nat) /\ Len(waiting) = sends - seen + Len(channel)
        /\ \A k \in 1 .. Len(waiting) : waiting[k] = seen + k
    <3>1. /\ waiting \in Seq(Nat) /\ Len(waiting) = Len(Unread) + Len(channel)
          /\ \A k \in 1 .. (Len(Unread) + Len(channel)) :
               waiting[k] = IF k <= Len(Unread) THEN Unread[k] ELSE channel[k - Len(Unread)]
      BY <2>1, <2>2, ConcatProperties
    <3> HIDE DEF waiting
    <3>2. \A k \in 1 .. Len(waiting) : waiting[k] = seen + k
      <4> TAKE k \in 1 .. Len(waiting)
      <4>1. CASE k <= Len(Unread)
        BY <4>1, <3>1, <2>1, <2>2
      <4>2. CASE ~ k <= Len(Unread)
        <5>1. k - Len(Unread) \in 1 .. Len(channel)
          BY <4>2, <3>1, <2>1, <2>2
        <5>2. channel[k - Len(Unread)] = sends + (k - Len(Unread))
          BY <5>1 DEF GInv, Numbered
        <5> QED  BY <5>2, <4>2, <3>1, <2>1, <2>2
      <4> QED  BY <4>1, <4>2
    <3> QED  BY <3>1, <3>2, <2>1
  <2> HIDE DEF waiting
  <2>4. Len(decoded) = sends + Len(channel) + HandSize
    BY DEF GInv, Numbered
  <2>5. CASE thread = "receiving"
    <3>1. Hand = <<>> /\ n = Len(waiting)
      BY <2>2, <2>3, <2>4, <2>5 DEF Hand, HandSize
    <3>2. waiting \o Hand = waiting
      BY <3>1, <2>3, ConcatEmptySeq
    <3>3. waiting = [k \in 1 .. Len(waiting) |-> waiting[k]]
      BY <2>3
    <3>4. waiting = [k \in 1 .. Len(waiting) |-> seen + k]
      BY <3>3, <2>3
    <3> QED  BY <3>1, <3>2, <3>4 DEF NothingLost, waiting
  <2>6. CASE thread # "receiving"
    <3>1. Hand = <<Len(decoded)>> /\ n = Len(waiting) + 1
      BY <2>2, <2>3, <2>4, <2>6 DEF Hand, HandSize
    <3>2. waiting \o Hand = Append(waiting, Len(decoded))
      BY <3>1, <2>2, <2>3, AppendIsConcat
    <3>3. /\ Append(waiting, Len(decoded)) \in Seq(Nat)
          /\ Len(Append(waiting, Len(decoded))) = n
          /\ \A k \in 1 .. Len(waiting) : Append(waiting, Len(decoded))[k] = seen + k
          /\ Append(waiting, Len(decoded))[n] = Len(decoded)
      BY <3>1, <2>2, <2>3, AppendProperties
    <3>4. \A k \in 1 .. n : Append(waiting, Len(decoded))[k] = seen + k
      <4> TAKE k \in 1 .. n
      <4>1. CASE k \in 1 .. Len(waiting)
        BY <4>1, <3>3
      <4>2. CASE k = n
        BY <4>2, <3>3, <2>2
      <4> HIDE DEF n
      <4> QED  BY <4>1, <4>2, <3>1, <2>3
    <3>5. Append(waiting, Len(decoded)) \in [1 .. n -> Nat]
      <4> HIDE DEF n
      <4> QED  BY <3>3, LenProperties
    <3> QED  BY <3>2, <3>4, <3>5 DEF NothingLost, waiting
  <2> QED  BY <2>5, <2>6
<1> QED  BY GuiInvariant, <1>1, PTL

(***************************************************************************)
(* The screen shows the newest message that draw has passed and nothing    *)
(* else.                                                                   *)
(***************************************************************************)
THEOREM ScreenIsNewest == GuiSpec => []OneMessageShown
<1>1. GInv => OneMessageShown
  BY DEF GInv
<1> QED  BY GuiInvariant, <1>1, PTL

(***************************************************************************)
(* The screen never goes back to a message received before the one it      *)
(* shows.                                                                  *)
(***************************************************************************)
THEOREM ScreenGoesForward == GuiSpec => NeverGoesBack
<1>1. GInv /\ [GuiNext]_guiVars => [shown' >= shown]_guiVars
  BY GuiKeeps
<1> QED  BY GuiInvariant, <1>1, PTL DEF GuiSpec, NeverGoesBack

--------------------------------------------------------------------------------
(***************************************************************************)
(* A line of the score is that of a player, in the colour of the player.   *)
(***************************************************************************)
LEMMA ScoreLines ==
  ASSUME NEW d, d.variant = "Game", NEW e \in Renderables(d), e.what = "Score"
  PROVE  \E i \in d.players : e.position = <<i>> /\ e.color = ColorOf(d, i)
<1>1. e \in Scores(d)
  <2>1. \A what, positions, color : e \in Spawned(positions, what, color) => what = "Score"
    BY DEF Spawned
  <2>2. \A text : text # "Score" => e # Label(text)
    BY DEF Label
  <2>3. e \notin Robots(d)
    <3>1. \A i \in DrawnPlayers(d) : e \notin Spawned({d.positions[i]}, "Player", ColorOf(d, i))
      BY <2>1
    <3> QED  BY <3>1 DEF Robots
  <2>4. e \in {Label("Turn")} \cup Scores(d) \cup Spawned(Grid(d), "Grid", "White")
             \cup Spawned(d.blocks, "Block", "DarkGray")
             \cup Spawned(d.explosions, "Explosion", "Black")
             \cup Spawned(d.bombs, "Bomb", "Red") \cup Robots(d)
    BY DEF Renderables
  <2>5. /\ e \notin Spawned(Grid(d), "Grid", "White") /\ e \notin Spawned(d.bombs, "Bomb", "Red")
        /\ e \notin Spawned(d.blocks, "Block", "DarkGray")
        /\ e \notin Spawned(d.explosions, "Explosion", "Black")
    BY <2>1
  <2> QED  BY <2>2, <2>3, <2>4, <2>5
<1>2. PICK i \in DrawnPlayers(d) : e \in Spawned({<<i>>}, "Score", ColorOf(d, i))
  BY <1>1 DEF Scores
<1>3. i \in d.players
  BY <1>2 DEF DrawnPlayers
<1>4. e.position = <<i>> /\ e.color = ColorOf(d, i)
  BY <1>2 DEF Spawned
<1> QED  BY <1>3, <1>4

(***************************************************************************)
(* For any messages, a player who is on two drawings of the same players   *)
(* has one colour on both, whoever is left out of either.                  *)
(***************************************************************************)
THEOREM SameColors == GuiSpec => ColorsKept
<1>1. GuiTypeOK /\ OneMessageShown /\ GuiTypeOK' /\ OneMessageShown'
        => [shown > 0 /\ shown' > shown /\ SamePlayers(decoded[shown], decoded'[shown']) =>
              \A e \in screen, f \in screen' :
                e.what = "Score" /\ f.what = "Score" /\ e.position = f.position =>
                  e.color = f.color]_guiVars
  <2> SUFFICES ASSUME GuiTypeOK, OneMessageShown, GuiTypeOK', OneMessageShown', shown > 0, shown' > shown,
                      SamePlayers(decoded[shown], decoded'[shown']),
                      NEW e \in screen, NEW f \in screen',
                      e.what = "Score", f.what = "Score", e.position = f.position
               PROVE  e.color = f.color
    OBVIOUS
  <2> DEFINE c == decoded[shown]
             d == decoded'[shown']
  <2>1. e \in Renderables(c) /\ f \in Renderables(d)
    <3>1. shown # 0 /\ shown' # 0
      <4>1. shown \in Int /\ shown' \in Int
        BY LenProperties DEF GuiTypeOK
      <4> QED  BY <4>1
    <3> QED  BY <3>1 DEF OneMessageShown
  <2>2. c.variant = "Game" /\ d.variant = "Game" /\ c.players = d.players
    BY DEF SamePlayers
  <2> HIDE DEF c, d
  <2>3. PICK i \in c.players : e.position = <<i>> /\ e.color = ColorOf(c, i)
    BY <2>1, <2>2, ScoreLines
  <2>4. PICK j \in d.players : f.position = <<j>> /\ f.color = ColorOf(d, j)
    BY <2>1, <2>2, ScoreLines
  <2>5. i = j
    <3>1. <<i>>[1] = i /\ <<j>>[1] = j
      OBVIOUS
    <3> QED  BY <2>3, <2>4, <3>1
  <2> QED  BY <2>2, <2>3, <2>4, <2>5 DEF ColorOf
<1> QED  BY GuiTypes, ScreenIsNewest, <1>1, PTL DEF ColorsKept

--------------------------------------------------------------------------------
(***************************************************************************)
(* What send_input has not passed is at the end of what was pressed, in    *)
(* the same order; what it has passed became the inputs.                   *)
(***************************************************************************)
KeysInOrder ==
  /\ inputs \in Seq({InputOf(key) : key \in Keys})
  /\ Len(keyboard) <= Len(pressed)
  /\ \A k \in 1 .. Len(keyboard) :
       keyboard[k] = pressed[Len(pressed) - Len(keyboard) + k]
  /\ InputsInOrder

(***************************************************************************)
(* How the number of inputs grows from one event to the next.              *)
(***************************************************************************)
LEMMA InputsGrow ==
  /\ \A k \in Nat : InputsAmong(k) \in Nat
  /\ \A k \in Nat : k = 0 => InputsAmong(k) = 0
  /\ \A k \in Nat : InputsAmong(k + 1) =
       IF IsInput(pressed[k + 1]) THEN InputsAmong(k) + 1 ELSE InputsAmong(k)
  /\ \A j, k \in Nat : j <= k => InputsAmong(j) <= InputsAmong(k)
<1> DEFINE Among(k) == {j \in 1 .. k : IsInput(pressed[j])}
<1>1. \A k \in Nat : IsFiniteSet(Among(k)) /\ Cardinality(Among(k)) \in Nat
  <2> TAKE k \in Nat
  <2>1. IsFiniteSet(1 .. k)
    BY FS_Interval
  <2>2. IsFiniteSet(Among(k))
    BY <2>1, FS_Subset
  <2> QED  BY <2>2, FS_CardinalityType
<1>2. \A k \in Nat : InputsAmong(k) = Cardinality(Among(k))
  BY DEF InputsAmong
<1>3. \A k \in Nat : k = 0 => InputsAmong(k) = 0
  <2> SUFFICES ASSUME NEW k \in Nat, k = 0 PROVE InputsAmong(k) = 0
    OBVIOUS
  <2>1. Among(k) = {}
    OBVIOUS
  <2> QED  BY <1>2, <2>1, FS_EmptySet
<1>4. \A k \in Nat : InputsAmong(k + 1) =
        IF IsInput(pressed[k + 1]) THEN InputsAmong(k) + 1 ELSE InputsAmong(k)
  <2> TAKE k \in Nat
  <2>1. CASE IsInput(pressed[k + 1])
    <3>1. Among(k + 1) = Among(k) \cup {k + 1} /\ k + 1 \notin Among(k)
      BY <2>1
    <3> HIDE DEF Among
    <3>2. Cardinality(Among(k + 1)) = Cardinality(Among(k)) + 1
      BY <3>1, <1>1, FS_AddElement
    <3> QED  BY <2>1, <3>2, <1>2
  <2>2. CASE ~ IsInput(pressed[k + 1])
    <3>1. Among(k + 1) = Among(k) /\ k + 1 \in Nat
      BY <2>2
    <3> HIDE DEF Among
    <3> QED  BY <2>2, <3>1, <1>2
  <2> QED  BY <2>1, <2>2
<1>5. \A j, k \in Nat : j <= k => InputsAmong(j) <= InputsAmong(k)
  <2> SUFFICES ASSUME NEW j \in Nat, NEW k \in Nat, j <= k
               PROVE  InputsAmong(j) <= InputsAmong(k)
    OBVIOUS
  <2>1. Among(j) \subseteq Among(k)
    OBVIOUS
  <2> HIDE DEF Among
  <2>2. Cardinality(Among(j)) <= Cardinality(Among(k))
    BY <2>1, <1>1, FS_Subset
  <2> QED  BY <2>2, <1>2
<1> QED  BY <1>1, <1>2, <1>3, <1>4, <1>5

(***************************************************************************)
(* A press waits behind those that came before it.                         *)
(***************************************************************************)
LEMMA KeyEventKeeps == GuiTypeOK /\ KeysInOrder /\ KeyEvent => KeysInOrder'
<1> SUFFICES ASSUME GuiTypeOK, KeysInOrder, KeyEvent PROVE KeysInOrder'
  OBVIOUS
<1> DEFINE K == [key : Keys, down : BOOLEAN]
           n == Len(pressed)
           m == Len(keyboard)
<1>1. PICK event \in K : keyboard' = Append(keyboard, event) /\ pressed' = Append(pressed, event)
  <2>1. PICK key \in Keys, down \in BOOLEAN :
          /\ keyboard' = Append(keyboard, [key |-> key, down |-> down])
          /\ pressed' = Append(pressed, [key |-> key, down |-> down])
    BY DEF KeyEvent
  <2> QED  BY <2>1
<1>2. inputs' = inputs
  BY DEF KeyEvent
<1>3. keyboard \in Seq(K) /\ pressed \in Seq(K)
  BY DEF GuiTypeOK
<1>4. n \in Nat /\ m \in Nat /\ m <= n
  BY <1>3, LenProperties DEF KeysInOrder
<1>5. /\ Len(pressed') = n + 1 /\ pressed'[n + 1] = event
      /\ \A k \in 1 .. n : pressed'[k] = pressed[k]
  BY <1>1, <1>3, AppendProperties
<1>6. /\ Len(keyboard') = m + 1 /\ keyboard'[m + 1] = event
      /\ \A k \in 1 .. m : keyboard'[k] = keyboard[k]
  BY <1>1, <1>3, AppendProperties
<1> HIDE DEF n, m
<1>7. \A k \in 1 .. Len(keyboard') :
        keyboard'[k] = pressed'[Len(pressed') - Len(keyboard') + k]
  <2> TAKE k \in 1 .. Len(keyboard')
  <2>1. CASE k = m + 1
    <3>1. Len(pressed') - Len(keyboard') + k = n + 1
      BY <2>1, <1>4, <1>5, <1>6
    <3> QED  BY <2>1, <3>1, <1>5, <1>6
  <2>2. CASE k # m + 1
    <3>1. k \in 1 .. m /\ n - m + k \in 1 .. n /\ Len(pressed') - Len(keyboard') + k = n - m + k
      BY <2>2, <1>4, <1>5, <1>6
    <3>2. keyboard[k] = pressed[n - m + k]
      BY <3>1 DEF KeysInOrder, n, m
    <3> QED  BY <3>1, <3>2, <1>5, <1>6
  <2> QED  BY <2>1, <2>2
<1>8. \A k \in 0 .. n : InputsAmong(k)' = InputsAmong(k)
  <2> TAKE k \in 0 .. n
  <2>1. {j \in 1 .. k : IsInput(pressed'[j])} = {j \in 1 .. k : IsInput(pressed[j])}
    <3>1. \A j \in 1 .. k : pressed'[j] = pressed[j]
      BY <1>4, <1>5
    <3> QED  BY <3>1
  <2> QED  BY <2>1 DEF InputsAmong
<1>9. InputsInOrder'
  <2>1. PICK passed \in 0 .. n : passed = n - m /\ Len(pressed') - Len(keyboard') = passed
    BY <1>4, <1>5, <1>6
  <2>2. Len(inputs) = InputsAmong(passed)
    BY <2>1 DEF KeysInOrder, InputsInOrder, n, m
  <2>3. \A k \in 1 .. passed :
          IsInput(pressed[k]) => inputs[InputsAmong(k)] = InputOf(pressed[k].key)
    BY <2>1 DEF KeysInOrder, InputsInOrder, n, m
  <2>4. Len(inputs') = InputsAmong(passed)'
    BY <1>2, <1>8, <2>1, <2>2
  <2>5. \A k \in 1 .. passed :
          IsInput(pressed'[k]) => inputs'[InputsAmong(k)'] = InputOf(pressed'[k].key)
    <3> TAKE k \in 1 .. passed
    <3>1. k \in 0 .. n /\ k \in 1 .. n
      BY <2>1, <1>4
    <3>2. pressed'[k] = pressed[k] /\ InputsAmong(k)' = InputsAmong(k)
      BY <3>1, <1>5, <1>8
    <3> QED  BY <1>2, <2>3, <3>2
  <2> QED  BY <2>1, <2>4, <2>5 DEF InputsInOrder
<1>10. Len(keyboard') <= Len(pressed')
  BY <1>4, <1>5, <1>6
<1>11. inputs' \in Seq({InputOf(key) : key \in Keys})
  BY <1>2 DEF KeysInOrder
<1> QED  BY <1>7, <1>9, <1>10, <1>11 DEF KeysInOrder

(***************************************************************************)
(* The reader passes one event, which is an input or is none.              *)
(***************************************************************************)
LEMMA SendInputKeeps == GuiTypeOK /\ KeysInOrder /\ SendInput => KeysInOrder'
<1> SUFFICES ASSUME GuiTypeOK, KeysInOrder, SendInput PROVE KeysInOrder'
  OBVIOUS
<1> DEFINE K == [key : Keys, down : BOOLEAN]
           I == {InputOf(key) : key \in Keys}
           n == Len(pressed)
           m == Len(keyboard)
<1>1. keyboard \in Seq(K) /\ pressed \in Seq(K) /\ inputs \in Seq(I)
  BY DEF GuiTypeOK, KeysInOrder
<1>2. /\ keyboard # <<>> /\ keyboard' = Tail(keyboard) /\ pressed' = pressed
      /\ inputs' = inputs \o InputsOf(Head(keyboard))
  BY DEF SendInput
<1>3. n \in Nat /\ m \in Nat /\ m <= n /\ m # 0 /\ Len(inputs) \in Nat
  BY <1>1, <1>2, LenProperties, EmptySeq DEF KeysInOrder
<1>4. /\ Len(keyboard') = m - 1 /\ Head(keyboard) = keyboard[1]
      /\ \A k \in 1 .. (m - 1) : keyboard'[k] = keyboard[k + 1]
  BY <1>1, <1>2, HeadTailProperties
<1>5. PICK passed \in 0 .. n : passed = n - m
  <2>1. n - m \in 0 .. n
    BY <1>3
  <2> QED  BY <2>1
<1>6. passed + 1 \in 1 .. n /\ Len(pressed') - Len(keyboard') = passed + 1
  BY <1>2, <1>3, <1>4, <1>5
<1> DEFINE event == pressed[passed + 1]
<1>7. \A k \in 1 .. m : keyboard[k] = pressed[passed + k]
  BY <1>5 DEF KeysInOrder
<1>8. Head(keyboard) = event
  <2>1. 1 \in 1 .. m
    BY <1>3
  <2> QED  BY <2>1, <1>4, <1>7
<1>9. event \in K
  BY <1>1, <1>6, ElementOfSeq
<1> HIDE DEF n, m, event
<1>10. \A k \in 1 .. Len(keyboard') :
        keyboard'[k] = pressed'[Len(pressed') - Len(keyboard') + k]
  <2> TAKE k \in 1 .. Len(keyboard')
  <2>1. k \in 1 .. (m - 1) /\ k + 1 \in 1 .. m /\ passed + (k + 1) = (passed + 1) + k
    <3>1. k \in 1 .. (m - 1)
      BY <1>4
    <3>2. k \in Nat /\ k + 1 \in 1 .. m
      BY <1>3, <3>1
    <3>3. passed \in Nat
      BY <1>5, <1>3
    <3>4. passed + (k + 1) = (passed + 1) + k
      BY <3>2, <3>3
    <3> QED  BY <3>1, <3>2, <3>4
  <2>2. keyboard'[k] = pressed[passed + (k + 1)]
    BY <2>1, <1>4, <1>7
  <2> QED  BY <2>1, <2>2, <1>2, <1>6
<1>11. \A k \in Nat : InputsAmong(k)' = InputsAmong(k)
  BY <1>2 DEF InputsAmong
<1>12. /\ Len(inputs) = InputsAmong(passed)
       /\ \A k \in 1 .. passed :
            IsInput(pressed[k]) => inputs[InputsAmong(k)] = InputOf(pressed[k].key)
  BY <1>5 DEF KeysInOrder, InputsInOrder, n, m
<1>13. /\ inputs' \in Seq(I)
       /\ Len(inputs') = InputsAmong(passed + 1)
       /\ \A i \in 1 .. Len(inputs) : inputs'[i] = inputs[i]
       /\ IsInput(event) => inputs'[InputsAmong(passed + 1)] = InputOf(event.key)
  <2>1. passed \in Nat /\ event = pressed[passed + 1]
    BY <1>6 DEF event
  <2>2. CASE IsInput(event)
    <3>1. InputsOf(event) = <<InputOf(event.key)>> /\ InputOf(event.key) \in I
      BY <2>2, <1>9 DEF InputsOf, IsInput
    <3>2. inputs' = Append(inputs, InputOf(event.key))
      BY <3>1, <1>1, <1>2, <1>8, AppendIsConcat
    <3>3. InputsAmong(passed + 1) = Len(inputs) + 1
      BY <2>1, <2>2, <1>12, InputsGrow
    <3> QED  BY <3>1, <3>2, <3>3, <1>1, AppendProperties
  <2>3. CASE ~ IsInput(event)
    <3>1. InputsOf(event) = <<>>
      BY <2>3 DEF InputsOf, IsInput
    <3>2. inputs' = inputs
      BY <3>1, <1>1, <1>2, <1>8, ConcatEmptySeq
    <3>3. InputsAmong(passed + 1) = Len(inputs)
      BY <2>1, <2>3, <1>12, InputsGrow
    <3> QED  BY <2>3, <3>2, <3>3, <1>1
  <2> QED  BY <2>2, <2>3
<1>14. \A k \in 1 .. (passed + 1) :
         IsInput(pressed'[k]) => inputs'[InputsAmong(k)'] = InputOf(pressed'[k].key)
  <2> SUFFICES ASSUME NEW k \in 1 .. (passed + 1), IsInput(pressed[k])
               PROVE  inputs'[InputsAmong(k)] = InputOf(pressed[k].key)
    <3>1. \A k \in 1 .. (passed + 1) : k \in Nat
      BY <1>6
    <3> QED  BY <3>1, <1>2, <1>11
  <2>1. CASE k = passed + 1
    BY <2>1, <1>13 DEF event
  <2>2. CASE k # passed + 1
    <3>1. k \in 1 .. passed /\ k \in Nat /\ k - 1 \in Nat /\ passed \in Nat /\ k <= passed
      BY <2>2, <1>6
    <3>2. InputsAmong(k) <= Len(inputs)
      BY <3>1, <1>12, InputsGrow
    <3>3. InputsAmong(k) = InputsAmong(k - 1) + 1 /\ InputsAmong(k - 1) \in Nat
      <4>1. \A j \in Nat : InputsAmong(j) \in Nat /\ (IsInput(pressed[j + 1]) =>
              InputsAmong(j + 1) = InputsAmong(j) + 1)
        BY InputsGrow
      <4>2. (k - 1) + 1 = k
        BY <3>1
      <4> QED  BY <3>1, <4>1, <4>2
    <3>4. InputsAmong(k) \in 1 .. Len(inputs)
      BY <3>2, <3>3, <1>3
    <3> QED  BY <3>1, <3>4, <1>12, <1>13
  <2> QED  BY <2>1, <2>2
<1>15. InputsInOrder'
  <2>1. Len(inputs') = InputsAmong(passed + 1)'
    <3>1. passed + 1 \in Nat
      BY <1>6
    <3> QED  BY <3>1, <1>11, <1>13
  <2> QED  BY <2>1, <1>6, <1>14 DEF InputsInOrder
<1>16. Len(keyboard') <= Len(pressed')
  BY <1>2, <1>3, <1>4 DEF n
<1> QED  BY <1>10, <1>13, <1>15, <1>16 DEF KeysInOrder

(***************************************************************************)
(* However many events come from the keyboard and in whichever frames they *)
(* are read, each press of a key that means something is one input, and    *)
(* the inputs are in the order of the presses.                             *)
(***************************************************************************)
THEOREM PressesInOrder == GuiSpec => []InputsInOrder
<1>1. GuiInit => KeysInOrder
  <2> SUFFICES ASSUME GuiInit PROVE KeysInOrder
    OBVIOUS
  <2>1. keyboard = <<>> /\ pressed = <<>> /\ inputs = <<>>
    BY DEF GuiInit
  <2>2. Len(pressed) = 0 /\ Len(keyboard) = 0 /\ Len(inputs) = 0
    BY <2>1
  <2>3. \A k \in Nat : k = 0 => InputsAmong(k) = 0
    BY InputsGrow
  <2>4. inputs \in Seq({InputOf(key) : key \in Keys})
    BY <2>1
  <2> QED  BY <2>2, <2>3, <2>4 DEF KeysInOrder, InputsInOrder
<1>2. GuiTypeOK /\ KeysInOrder /\ [GuiNext]_guiVars => KeysInOrder'
  <2> SUFFICES ASSUME GuiTypeOK, KeysInOrder, [GuiNext]_guiVars PROVE KeysInOrder'
    OBVIOUS
  <2>1. KeyEvent \/ SendInput \/ UNCHANGED keyVars
    BY DEF GuiNext, Thread, FrameLoop, ReadStream, SendsInput, Arrives, Receive, Send, Panics,
           ReadStreamTakes, ReadStreamDone, Draw, SendInputDone, NextFrame, CloseWindow, guiVars
  <2>2. CASE UNCHANGED keyVars
    BY <2>2 DEF keyVars, KeysInOrder, InputsInOrder, InputsAmong
  <2> QED  BY <2>1, <2>2, KeyEventKeeps, SendInputKeeps
<1>3. KeysInOrder => InputsInOrder
  BY DEF KeysInOrder
<1> QED  BY GuiTypes, <1>1, <1>2, <1>3, PTL DEF GuiSpec

--------------------------------------------------------------------------------
(***************************************************************************)
(* Neither the product nor the cast loses anything: next_u32 is the        *)
(* Lehmer generator of the assignment, for every seed.                     *)
(***************************************************************************)
THEOREM NothingWraps ==
  ASSUME NEW seed \in Seeds
  PROVE  /\ NextU32(seed) = (seed * 48271) % Prime
         /\ NextU32(seed) \in Nat /\ NextU32(seed) < Prime
<1>1. /\ seed * 48271 \in Int
      /\ 0 <= seed * 48271 /\ seed * 48271 < U64
  BY SMT DEF Seeds, U32, U64
<1>2. (seed * 48271) % U64 = seed * 48271
  BY SMT, <1>1 DEF U64
<1>3. (seed * 48271) % Prime \in Nat /\ (seed * 48271) % Prime < Prime
  BY SMT, <1>1 DEF Prime
<1>4. ((seed * 48271) % Prime) % U32 = (seed * 48271) % Prime
  BY SMT, <1>3 DEF Prime, U32
<1> QED
  BY SMT, <1>2, <1>3, <1>4 DEF NextU32

(***************************************************************************)
(* The generator stands still at 0 for the multiples of its modulus and    *)
(* for no other seed; from any other seed on it never gets there           *)
(* (next_u32).                                                             *)
(***************************************************************************)
Stuck == {0, Prime, 2 * Prime}

THEOREM StandsStill ==
  ASSUME NEW seed \in Seeds
  PROVE  /\ NextU32(seed) = 0 <=> seed \in Stuck
         /\ seed \notin Stuck => NextU32(seed) \notin Stuck
<1>1. NextU32(seed) = (seed * 48271) % Prime /\ NextU32(seed) \in Nat /\ NextU32(seed) < Prime
  BY SMT, NothingWraps
<1>2. (seed * 48271) % Prime = 0 <=> seed \in Stuck
  BY SMT DEF Seeds, Stuck, Prime, U32
<1> QED
  BY SMT, <1>1, <1>2 DEF Stuck, Prime

(***************************************************************************)
(* What is drawn from a range that is not empty lies in it, its upper end  *)
(* excluded: the remainder by u16::MAX after the one by the range takes    *)
(* nothing away (range_u16).                                               *)
(***************************************************************************)
THEOREM DrawnFromRange ==
  ASSUME NEW seed \in Seeds, NEW min \in Nat, NEW max \in Nat,
         min < max, max < U16
  PROVE  /\ RangeU16(seed, min, max) = (NextU32(seed) % (max - min)) + min
         /\ RangeU16(seed, min, max) \in min .. (max - 1)
<1> DEFINE v == NextU32(seed)
           r == v % (max - min)
<1>1. v \in Nat /\ max - min \in Nat /\ max - min > 0
  BY SMT, NothingWraps DEF Prime, U16
<1> HIDE DEF v
<1>2. r \in Nat /\ r < max - min
  BY SMT, <1>1
<1> HIDE DEF r
<1>3. r + min \in min .. (max - 1) /\ r + min \in Nat /\ r + min < U16 - 1
  BY SMT, <1>2 DEF U16
<1>4. ((r + min) % (U16 - 1)) % U16 = r + min
  BY SMT, <1>3 DEF U16
<1> QED
  BY SMT, <1>3, <1>4 DEF RangeU16, InRange, r, v
================================================================================
