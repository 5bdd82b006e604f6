----------------------------------- MODULE Gui ---------------------------------
(***************************************************************************)
(* bin/gui.rs: the graphical interface.  A thread of its own receives      *)
(* datagrams, decodes them and sends them into a bounded channel; the      *)
(* systems read_stream, draw and send_input run once in every frame, in an *)
(* order that is not specified.  A step of this module is a step of the    *)
(* thread or of one system; between two steps the others may go on.        *)
(*                                                                         *)
(* Messages travel under the number of their receipt: display k is the     *)
(* k-th that was decoded.  The engine (bevy) is external: the frame, its   *)
(* event queues, key presses, and the window that closes.                  *)
(***************************************************************************)
EXTENDS Drawing

CONSTANTS
  Displays,     \* the DisplayMessages a client may send
  Keys,         \* the key codes of the keyboard
  Capacity,     \* bounded::<DisplayMessage>(10)
  SocketRoom,   \* the datagrams the kernel keeps for the socket
  ReceiptsBound,\* bound: messages decoded
  KeysBound     \* bound: events of the keyboard

ASSUME CapacityAssumption == Capacity \in Nat \ {0}
ASSUME GuiBoundsAssumption ==
  SocketRoom \in Nat /\ ReceiptsBound \in Nat /\ KeysBound \in Nat

VARIABLES
  socket,   \* the datagrams in the socket
  decoded,  \* the messages decoded so far, in order of receipt
  thread,   \* "receiving", "sending" into the channel, or "panicked"
  channel,  \* what the channel holds
  open,     \* whether the window, and with it the receiving end, exists
  frame,    \* the systems that have not yet run in this frame
  older,    \* Events<DisplayMessage>: what was sent before the last update
  newer,    \* and what was sent since
  taking,   \* whether read_stream is at work, and holds the events
  sends,    \* how many events there have been
  seen,     \* how many of them draw's reader has passed
  shown,    \* the message on the screen, 0 before the first
  screen,   \* the entities that are Renderable
  keyboard, \* the keyboard events send_input has not read
  pressed,  \* the events of the keyboard so far (history)
  inputs    \* the InputMessages given to send_to

receiverVars == <<socket, decoded, thread>>
eventVars == <<older, newer, taking, sends, seen>>
screenVars == <<shown, screen>>
keyVars == <<keyboard, pressed, inputs>>
guiVars == <<receiverVars, channel, open, frame, eventVars, screenVars, keyVars>>

Garbage == [variant |-> "garbage"]
System == {"read_stream", "draw", "send_input"}

GuiInit ==
  /\ socket = <<>> /\ decoded = <<>> /\ thread = "receiving"
  /\ channel = <<>> /\ open = TRUE /\ frame = System
  /\ older = <<>> /\ newer = <<>> /\ taking = FALSE /\ sends = 0 /\ seen = 0
  /\ shown = 0 /\ screen = Waiting
  /\ keyboard = <<>> /\ pressed = <<>> /\ inputs = <<>>

--------------------------------------------------------------------------------
(***************************************************************************)
(* Datagrams on their way from the client may be lost, doubled and         *)
(* overtaken: anything may arrive at any time, if there is room.           *)
(***************************************************************************)
Arrives ==
  /\ Len(socket) < SocketRoom
  /\ \E d \in Displays \cup {Garbage} :
       /\ d # Garbage => Len(decoded) + Len(socket) < ReceiptsBound
       /\ socket' = Append(socket, d)
  /\ UNCHANGED <<decoded, thread, channel, open, frame, eventVars, screenVars, keyVars>>

(***************************************************************************)
(* The thread: recv_from with from_bytes, then send, which waits while the *)
(* channel is full and fails when nobody can receive any more.             *)
(***************************************************************************)
Receive ==
  /\ thread = "receiving" /\ socket # <<>>
  /\ socket' = Tail(socket)
  /\ IF Head(socket) = Garbage
     THEN UNCHANGED <<decoded, thread>>
     ELSE decoded' = Append(decoded, Head(socket)) /\ thread' = "sending"
  /\ UNCHANGED <<channel, open, frame, eventVars, screenVars, keyVars>>

\* Mutant: a message that finds the channel full is dropped.
Send_Drops ==
  /\ thread = "sending" /\ open
  /\ thread' = "receiving"
  /\ channel' = IF Len(channel) < Capacity THEN Append(channel, Len(decoded)) ELSE channel
  /\ UNCHANGED <<socket, decoded, open, frame, eventVars, screenVars, keyVars>>

\* Mutant: the channel is not bounded.
Send_Unbounded ==
  /\ thread = "sending" /\ open
  /\ channel' = Append(channel, Len(decoded))
  /\ thread' = "receiving"
  /\ UNCHANGED <<socket, decoded, open, frame, eventVars, screenVars, keyVars>>

Send ==
  /\ thread = "sending" /\ open
  /\ Len(channel) < Capacity
  /\ channel' = Append(channel, Len(decoded))
  /\ thread' = "receiving"
  /\ UNCHANGED <<socket, decoded, open, frame, eventVars, screenVars, keyVars>>

Panics ==
  /\ thread = "sending" /\ ~ open
  /\ thread' = "panicked"
  /\ UNCHANGED <<socket, decoded, channel, open, frame, eventVars, screenVars, keyVars>>

--------------------------------------------------------------------------------
Ran(system) == system \in frame /\ frame' = frame \ {system}

(***************************************************************************)
(* read_stream: try_iter until the channel is empty, one message a step.   *)
(***************************************************************************)
\* Mutant: the newest message is taken, and the rest of them later.
ReadStreamTakes_NewestOnly ==
  /\ "read_stream" \in frame /\ channel # <<>>
  /\ newer' = Append(newer, channel[Len(channel)])
  /\ channel' = SubSeq(channel, 1, Len(channel) - 1)
  /\ sends' = sends + 1
  /\ frame' = frame \ {"read_stream"}
  /\ UNCHANGED <<receiverVars, open, older, taking, seen, screenVars, keyVars>>

ReadStreamTakes ==
  /\ "read_stream" \in frame /\ channel # <<>>
  /\ newer' = Append(newer, Head(channel))
  /\ channel' = Tail(channel)
  /\ sends' = sends + 1
  /\ taking' = TRUE
  /\ UNCHANGED <<receiverVars, open, frame, older, seen, screenVars, keyVars>>

ReadStreamDone ==
  /\ Ran("read_stream") /\ channel = <<>>
  /\ taking' = FALSE
  /\ UNCHANGED <<receiverVars, channel, open, older, newer, sends, seen, screenVars, keyVars>>

(***************************************************************************)
(* EventReader::iter: the events that are kept and that this reader has    *)
(* not passed.                                                             *)
(***************************************************************************)
Unread ==
  LET events == older \o newer
      passed == Len(events) - (sends - seen)
  IN  SubSeq(events, IF passed < 0 THEN 1 ELSE passed + 1, Len(events))

Newest == Unread[Len(Unread)]

(***************************************************************************)
(* draw: of the unread messages only the last is looked at.  What was on   *)
(* the screen is despawned and the message's entities are spawned, all of  *)
(* it at the end of the stage.                                             *)
(***************************************************************************)
\* Mutant: nothing is despawned.
Redrawn_Over(d) == screen \cup Renderables(d)

Redrawn(d) == Renderables(d)

Draw ==
  /\ Ran("draw") /\ ~ taking
  /\ seen' = sends
  /\ IF Unread = <<>>
     THEN UNCHANGED screenVars
     ELSE shown' = Newest /\ screen' = Redrawn(decoded[Newest])
  /\ UNCHANGED <<receiverVars, channel, open, older, newer, taking, sends, keyVars>>

(***************************************************************************)
(* send_input: a datagram for every press of a key that means something,   *)
(* one event a step.                                                       *)
(***************************************************************************)
\* Mutant: a key that is let go counts too.
InputsOf_Released(event) == IF InputOf(event.key) = <<>> THEN <<>> ELSE <<InputOf(event.key)>>

InputsOf(event) ==
  IF event.down /\ InputOf(event.key) # <<>> THEN <<InputOf(event.key)>> ELSE <<>>

SendInput ==
  /\ "send_input" \in frame /\ keyboard # <<>>
  /\ inputs' = inputs \o InputsOf(Head(keyboard))
  /\ keyboard' = Tail(keyboard)
  /\ UNCHANGED <<receiverVars, channel, open, frame, eventVars, screenVars, pressed>>

SendInputDone ==
  /\ Ran("send_input") /\ keyboard = <<>>
  /\ UNCHANGED <<receiverVars, channel, open, eventVars, screenVars, keyVars>>

--------------------------------------------------------------------------------
(***************************************************************************)
(* The engine.  At the start of a frame Events::update lets go of the      *)
(* events sent before the last update.                                     *)
(***************************************************************************)
NextFrame ==
  /\ open /\ frame = {}
  /\ frame' = System
  /\ older' = newer /\ newer' = <<>>
  /\ UNCHANGED <<receiverVars, channel, open, taking, sends, seen, screenVars, keyVars>>

KeyEvent ==
  /\ open /\ frame = {}
  /\ Len(pressed) < KeysBound
  /\ \E key \in Keys, down \in BOOLEAN :
       /\ keyboard' = Append(keyboard, [key |-> key, down |-> down])
       /\ pressed' = Append(pressed, [key |-> key, down |-> down])
  /\ UNCHANGED <<receiverVars, channel, open, frame, eventVars, screenVars, inputs>>

CloseWindow ==
  /\ open /\ frame = {}
  /\ open' = FALSE
  /\ UNCHANGED <<receiverVars, channel, frame, eventVars, screenVars, keyVars>>

ReadStream == ReadStreamTakes \/ ReadStreamDone
SendsInput == SendInput \/ SendInputDone
Thread == Receive \/ Send \/ Panics
FrameLoop == ReadStream \/ Draw \/ SendsInput \/ NextFrame

GuiNext == Arrives \/ Thread \/ FrameLoop \/ KeyEvent \/ CloseWindow

GuiSpec == GuiInit /\ [][GuiNext]_guiVars

(***************************************************************************)
(* The thread and the frame loop both run whenever they can.               *)
(***************************************************************************)
FairGui ==
  /\ GuiSpec
  /\ WF_guiVars(Thread)
  /\ WF_guiVars(FrameLoop)

--------------------------------------------------------------------------------
(***************************************************************************)
(* Types; the channel holds no more than its capacity.                     *)
(***************************************************************************)
GuiTypeOK ==
  /\ socket \in Seq(Displays \cup {Garbage})
  /\ decoded \in Seq(Displays)
  /\ thread \in {"receiving", "sending", "panicked"}
  /\ channel \in Seq(Nat) /\ Len(channel) <= Capacity
  /\ open \in BOOLEAN
  /\ frame \in SUBSET System
  /\ older \in Seq(Nat) /\ newer \in Seq(Nat) /\ taking \in BOOLEAN
  /\ sends \in Nat /\ seen \in Nat
  /\ shown \in 0 .. Len(decoded)
  /\ keyboard \in Seq([key : Keys, down : BOOLEAN])
  /\ pressed \in Seq([key : Keys, down : BOOLEAN])

(***************************************************************************)
(* No message that was decoded is lost or overtaken on its way to draw:    *)
(* those draw has not passed are, in order of receipt and without a gap,   *)
(* in the event queue, in the channel and in the hand of the thread that   *)
(* waits to send.  In particular no event expires before draw has run,     *)
(* though draw may run before read_stream in one frame and after it in the *)
(* next.                                                                   *)
(***************************************************************************)
Hand == IF thread = "receiving" THEN <<>> ELSE <<Len(decoded)>>

NothingLost ==
  Unread \o channel \o Hand = [k \in 1 .. (Len(decoded) - seen) |-> seen + k]

(***************************************************************************)
(* The screen shows one message and nothing of an earlier one, and this    *)
(* message is the newest of those draw has passed (draw).                  *)
(***************************************************************************)
OneMessageShown ==
  /\ shown = seen
  /\ screen = IF shown = 0 THEN Waiting ELSE Renderables(decoded[shown])

(***************************************************************************)
(* The screen never goes back to a message received earlier.               *)
(***************************************************************************)
NeverGoesBack == [][shown' >= shown]_guiVars

(***************************************************************************)
(* From one drawing to the next a player keeps the colour, also when       *)
(* another one is left out for want of a position or a score, as long as   *)
(* the players are the same (draw, lines 346 to 356).                      *)
(***************************************************************************)
SamePlayers(c, d) == c.variant = "Game" /\ d.variant = "Game" /\ c.players = d.players

ColorsKept ==
  [][shown > 0 /\ shown' > shown /\ SamePlayers(decoded[shown], decoded'[shown']) =>
       \A e \in screen, f \in screen' :
         e.what = "Score" /\ f.what = "Score" /\ e.position = f.position =>
           e.color = f.color]_guiVars

(***************************************************************************)
(* Every press of a key that means something is one input, in the order of *)
(* the presses, across frames (send_input).                                *)
(***************************************************************************)
IsInput(event) == event.down /\ InputOf(event.key) # <<>>

InputsAmong(k) == Cardinality({j \in 1 .. k : IsInput(pressed[j])})

InputsInOrder ==
  LET passed == Len(pressed) - Len(keyboard)
  IN  /\ Len(inputs) = InputsAmong(passed)
      /\ \A k \in 1 .. passed :
           IsInput(pressed[k]) => inputs[InputsAmong(k)] = InputOf(pressed[k].key)

(***************************************************************************)
(* Whatever is decoded reaches the screen, it or something newer, unless   *)
(* the window is closed: a full channel does not stop the two sides for    *)
(* good.                                                                   *)
(***************************************************************************)
NewsAreShown ==
  \A n \in 1 .. ReceiptsBound : Len(decoded) >= n ~> shown >= n \/ ~ open
================================================================================
