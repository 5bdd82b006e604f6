# Robots: a verification project

TLA+ models, TLC runs and TLAPS proofs for the game *Robots* of this repository: a server
(`robots-server`) on which players' robots lay bombs and blocks in turns, a client
(`robots-client`) that follows the game, and, in Rust and handed out with the assignment, a
graphical interface that draws it and a verifier that prints messages. Paths are relative to the repository; `README` is the repository's, an
assignment text in Polish.

Six runs show properties that hold of the code, six show where it departs from the
README; those are listed at the end and in `PROJECT.json` under `findings`.

## 1. Inventory

| Component | Source | State | Operations | Talks to |
|---|---|---|---|---|
| Room | `GameRoom.cpp`, `GameRoom.h` | sessions, moves of the turn, lobby or game, ids, generator, board, kept turns, one timer | `join`, `disconnect`, `add_message`, `resolve_join`, the turn timer | sessions, by calls both ways |
| Session | `GameSession.cpp`, `GameSession.h` | socket, one buffer for both directions, the player's id | accept, one receive, writes, their errors | the room; TCP |
| Accepting | `Server.cpp` | acceptor | `do_accept` | sessions |
| Client | `Client.cpp`, `Client.h` | phase, aggregated status, two buffers, two coroutines | five messages, three inputs, two drawings | server over TCP, interface over UDP |
| Data | `GameTypes.h` | | | |
| Command lines | `robots-*.cpp`, `*Parameters.*` | parameters | parsing | |
| Wire format in Rust | `src/src/serialize/`, `src/src/lib.rs` | the input, the counts of what is nested | `to_bytes`, `deserialize`, `from_bytes` | interface, verifier |
| Verifier | `src/src/bin/verifier.rs` | one connection or datagram at a time | accept, receive, print, log | any peer over TCP or UDP |
| Interface | `src/src/bin/gui.rs` | a thread, a bounded channel, a frame loop with its events and entities | receive, send into the channel; `read_stream`, `draw`, `send_input` | client over UDP |
| Generator samples | `src/src/random.rs`, `c/`, `cpp/` | a seed | `next_u32`, `range_u16` | |

**The server** runs one `io_context` on one thread. Between handlers anything may
happen in any order; within one nothing interferes. What is hard: sessions come, go and send at
any moment of a lobby or a game; the room goes through one game after another and has to put
everything back in between; a session that comes late must be told what the others know;
one timer, whose aborted wait ends the process; the geometry of an explosion; numbers of eight
and sixteen bits.

**The client** runs two coroutines on one thread, which interleave at each `co_await`: one
reads the server, aggregates and draws, the other passes on inputs. What is hard: its state is
read before a `co_await` and used after it; what belongs to a turn is cleared after the turn
has been drawn; exceptions of a coroutine that is `detached` vanish; it keeps time for the bombs
by itself; a second game on the same connection.

**The interface** decodes datagrams in a thread of its own and shows them in the frame loop of
a game engine (bevy), whose systems run in no fixed order. What is hard: the channel between the two is
bounded; an event of the engine lives for two frames; of several messages in a frame one is shown,
and the entities of the one before have to go. **The verifier** reads a stream of messages
without any framing: every count that is announced decides where the next message begins.

**What makes them right.** Room: types and ranges; exactly one timer in a game; full games with
ids without gaps; turns numbered and kept; events that tell the room's own state; bombs that explode
once; games that end. Sessions: every connection carries
the protocol's order and nobody is told less than another. Geometry: the blast is the cross
of the rules. Client: what it draws is what the server has; it never meets something unknown;
it follows the server's phases. Interface: what is decoded is shown, or something newer, and never
something older. Wire format: what is read is what was written, and damage does not pass for a message.

The hazards of the code are in `PROJECT.json`, each at its line with the properties that watch
it, or with the reason why none does yet.

## 2. Modules

| Module | Models | Built on |
|---|---|---|
| `GameTypes` | positions, events, bombs, messages; the constants both sides share | |
| `Explosion` | the four loops of `explode_bombs` and of `resolve(BombExploded)`, the cross, and where a blast or what is drawn of it has too many or too few fields | `GameTypes` |
| `Blast` | one explosion at the server, for the rule it does not keep | `Explosion` |
| `GameRoom` | the room and what it sees of its sessions | `Explosion` |
| `Broadcast` | abstract: subscribers, a log, late subscribers | |
| `RoomFeed` | what each connection carries; the room implements `Broadcast` | `GameRoom` |
| `RoomRules` | what the README says of the server's players, bombs and blocks and the code does otherwise | `GameRoom` |
| `Client` | the client: both coroutines, the aggregated status | `Explosion` |
| `ClientPlay` | the client at a server that plays by the rules (external) | `Client` |
| `ClientRules` | what the README says of the state a client aggregates and the code does otherwise | `ClientPlay` |
| `Robots` | the client at this very server, over a connection that can break | `GameRoom`, `Client` |
| `RobotsRules` | what the README says of the two together and they do otherwise | `Robots` |
| `Streams` | the two byte streams of a connection, memory | |
| `SessionBuffer` | a session's buffer, its writes and its receive | `Streams` |
| `ClientBuffers` | the client's two buffers, between its two coroutines | `Streams` |
| `Connection`, `MCConnection` | the two at the ends of a connection; the conversation for the run | `SessionBuffer`, `ClientBuffers` |
| `WireTypes` | the types of `lib.rs` in serde's data model | |
| `Serializer` | the byte sequences `to_bytes` may write for a value | `WireTypes` |
| `Deserializer` | the deserializer at work, one `read_exact` a step | `WireTypes` |
| `Verifier`, `MCVerifier` | the verifier and a peer (external); the messages for the run | `Deserializer`; `Serializer` |
| `Drawing` | the entities a message becomes, the input a key means | |
| `Gui`, `MCGui` | the interface: thread, channel, systems, engine (external); the messages for the run | `Drawing` |
| `Random` | the Rust generator | |
| `ExplosionProofs`, `GameRoomProofs`, `RoomFeedProofs`, `ClientPlayProofs`, `RobotsProofs`, `ConnectionProofs` | theorems | their components, `TLAPS` |
| `RustProofs` | theorems about the interface and the Rust generator | `Gui`, `Random`, `TLAPS` |

### GameRoom

One action per completion handler.

| Action | Code |
|---|---|
| `Connect(s)` | `do_accept`, `GameSession::start`, `GameRoom::join` with its catch-up |
| `Disconnect(s)` | a receive or a write of the session that fails |
| `JoinIgnored`, `JoinLobby`, `JoinStart` | `receive_join`, `resolve_join` in its three cases, the last with all of `init_game` |
| `ReceivePlaceBomb`, `ReceivePlaceBlock`, `ReceiveMove` | the `receive_` functions and `add_message` |
| `ReceiveUnknown` | the default branch of the read handler |
| `NextTurn`, `LastTurn` | the handler of the timer: moves, counting down, explosions, `Turn`, then the next timer or `GameEnded` and `reset_state` |

Variables are the members of the room under their own names. `reading` holds the
sessions whose one `async_receive` is pending, `timer` says whether a wait is, and `sent` is
what the last handler wrote, by session. `_game_status.blocks` is a set: no code looks at
a block's number of copies (`resolve_place_block` adds one to a field that has one). The lists
of destroyed robots and blocks in an event are sets too: the four arms all begin at
the bomb's field, so that what is there is listed up to four times, and the client
ignores the repetition. Sessions are numbered by address, the order in which
`std::map<std::shared_ptr<...>>` plays the moves; an address may be used again when its session is gone.

Left out: names and addresses of players beyond a set of names, the parameters in `Hello`, the
duration of a turn (the timer expires at any time), scores on the server (never written), bytes
(they are in `Connection`).

### Client

`listener` and `input` are the places where the two coroutines wait. `server_listener` runs in
one step from reading a message to the `co_await` of the drawing (`ReceiveTurn`, ...), and in
another from there on (`GameDrawn`, `LobbyDrawn`), since between the two `gui_listener` may run
and the status is not yet cleared. `ReceiveInput` and `InputSent` are `gui_listener` before and
after the `co_await` of a `send_` function. `Throws` is where `at()` throws; the coroutine is
`detached`, so that the listener is then `"dead"` and the program goes on. `DrawingFails` is the
`async_send_to` of a drawing that throws, with the same end; when it does is the system's business and left open.

In `ClientPlay` the other side is not this repository's server but one that follows the rules,
for the client is meant for any; its definitions are marked external. It writes when the
client has read everything: the client reads in order, so that how far a server runs ahead
changes nothing that it draws.

In `Robots` the other side is `GameRoom` with all its habits. What a handler writes to the
client's session appears in `inbox`, until the connection breaks.

### Broadcast and RoomFeed

`Broadcast` is what a room promises, whatever it says: a log that grows within an epoch and goes out
to everyone, is written anew between epochs, and is handed to those who subscribe late.
`RoomFeed` shows that the room implements it, with the epoch `in_progress` and the log
`Catchup`, the messages `GameRoom::join` would send at the moment.

`ClientPlay` also puts the interface's drawing behind the client: `Displayed` is the message that
`send_game` makes of the status, and `NobodyLeftOut` looks at what `Drawing` makes of that message.

### Connection

Above, messages are whole; here they are bytes in the memory of the two programs. An operation of asio is three
steps: it is begun, which fixes an address and a length; the socket performs it, on as many bytes as it can,
at any later moment; its handler runs or its coroutine is resumed, later again. Between any two of them the other coroutine, or another
handler of the room, may run. asio often performs an operation as soon as it is begun, which is one of these orders; it
does not when a socket's buffer is full or another operation waits.

| Step | Code |
|---|---|
| `SendToClient` | the session's `send_hello` and its siblings, each with the `async_write` of `send_message` |
| `SocketTakes`, `WriteGoesOn` | `async_write` at work |
| `ReadMessage`, `SocketGives`, `Receive` | the session's one `async_receive` and its handler |
| `ReaderTakes`, `ReadsOn`, `PieceRead`, `DrawingSent`, `DrawingResumed` | `server_listener` |
| `InputArrives`, `InputRead`, `SendTaken`, `SendResumed` | `gui_listener` |

A byte is its direction, the number of its message and its place in it; a message is the pieces in which the client
reads it, one `read_message` each: `Ends` says how many bytes of it are there after each. `_buf_udp` is used whole, so that it suffices to say whose bytes it
holds. A client that finds other bytes than it should goes astray, and the model says nothing of it any more;
or the bytes are by chance the right ones, and it goes on. `_buf_len_udp` is set and used within a step and left out.
`overlaps` records which operations have met in a buffer.

A string is read by both ends behind its length, which both take for a signed `char` before they widen it to 64 bits. Of its value
only this is kept: a piece that is one of `Texts` and longer than `CharMax` (127) is asked for with `Wrap` (2^64 - 2^8) bytes more
than it has, so that the client waits in its middle for good (`Asked`); and a Join whose name is longer than `CharMax` makes the constructor
of a `std::string` throw in the server, where nothing catches (`Receive`, phase `"thrown"`), and the session takes no further step.
`BuffSize` is `BUFF_SIZE`. Neither program compares with it: a first Turn with the 65,535 blocks that `initial_blocks` allows, of
five bytes each, is built past the end of `_buffer` and read past the end of `_buf_tcp`. The first byte beyond either buffer is
the overlap `overflow`, and with it the model ends, for what then happens is undefined.

### Wire format and verifier

A type is a record of its layout (`WireTypes`). `Serializer` gives all byte sequences that `to_bytes`
may write for a value, more than one where a `HashSet` is walked. `Deserializer` makes the call stack of
the `deserialize_` functions explicit: `focus` is what the innermost call is at, `frames` the `Counted`
accesses around it. Each `read_exact` is one step, which waits for all its bytes, and ends in
`UnexpectedEof` when the input is closed before. `Verifier` adds its two loops and the peer: one that writes
byte by byte, may get a byte of its first message wrong and may close anywhere, or that sends datagrams whole, cut short or with
a byte too many. What visitors make of elements (`Visited`, `MapOf`) is serde's, external.

Abstracted: a byte has `Base` values; a text is a short sequence of bytes, of which one is no UTF-8; what
`FromStr` and `Display` of `SocketAddr` do is given by two constants.

### Gui

| Action | Code |
|---|---|
| `Receive`, `Send`, `Panics` | the thread in `setup`: `recv_from` with `from_bytes`, `send` into the channel, its `unwrap` |
| `ReadStreamTakes`, `ReadStreamDone` | `read_stream`, one message of `try_iter` a step, so that the thread may send in between |
| `Draw` | `draw`: the last unread event, despawning, spawning |
| `SendInput`, `SendInputDone` | `send_input`, one event of the keyboard a step |
| `NextFrame`, `KeyEvent`, `CloseWindow`, `Arrives` | the engine and the network (external) |

`frame` holds the systems that have not run in this frame; they run in any order, and `draw` not
while `read_stream` holds the events. Messages travel under the number of their receipt, so that
order and loss can be told; `decoded` has their contents. `older` and `newer` are the engine's
two event buffers. The keyboard's events wait in `keyboard` until `send_input` reads them, which
it does in every frame.

## 3. Runs

| Run | Module, cfg | Question |
|---|---|---|
| `room` | `RoomFeed` | Is the room consistent in every state of several lobbies and games, and does it forget nothing its events have told? Is everyone told the same, in the order of the protocol? Does every game end? When is the server's blast right, how does it err, and does the client draw the cross from the report? |
| `client` | `ClientPlay` | Is what the client draws what the server has, and does the interface show all of its players? |
| `robots` | `Robots` | Does this client know what this server does, and what can stop it from reading? Does the client come back to the lobby? |
| `connection` | `MCConnection`, `Connection.cfg` | Which operations may meet in the buffers of server and client before a message is spoilt, and does nothing else spoil one? |
| `verifier` | `MCVerifier`, `Verifier.cfg` | Is what is printed what was sent, wherever a peer breaks off or errs, and does the next one get its turn? |
| `gui` | `MCGui`, `Gui.cfg` | Does everything decoded reach the screen in order, whatever the order of the systems, with a full channel? |

What the main properties say:

- `OneTimer`: the timer is armed exactly in a game. A second arming would abort the first wait
  and the process would exit.
- `EventsTellStatus`: robots stand where the room's events put them; a bomb or block that was placed, and that no later
  `BombExploded` took away, is in the status; and the status has none that was not placed in this game. What an explosion took away the room
  keeps as well: that is the departure of run `bomb_rules`, and this property says that there is no other.
- `ExplodesOnce`: a bomb does not explode before it is laid, nor twice, though it is never removed and its timer wraps, nor later
  than `bomb_timer` turns after it is laid. By the README it is exactly then, which is refuted in `bomb_rules`: the code
  counts a turn too many.
- `BlastsAreCrosses`: in spite of the wrong bound in `explode_bombs` every bomb of a game
  explodes in a cross, among all the blocks or any of them, because they all stand in the corner.
- `BlastErrsOneWay`, `ClientDrawsCross`: what a bomb anywhere on the board of a game would do, at the server and,
  from the server's report, at the client.
- `CaughtUp`, `ProtocolOrder`, `RoomBroadcasts`: late sessions know what the early ones know.
- `BoardDrawn`, `FusesDrawn`, `ExplosionsDrawn`, `ScoresDrawn`, `NothingUnknown`: what is drawn.
  The first and last hold for every game on a connection, the others for the first only (see
  the findings on stale bombs and scores).
- `PhaseKnown`, `GameKnown`: a client that has read everything knows whether a game is on, its
  turn, players, robots, blocks and bombs.
- `OnlyPhantomsKill`: on a connection that holds, of what this server sends only the robot 255 kills the client's reader. What else
  ends it is a datagram that cannot be sent. `NothingUnknown` says of a server of the rules that nothing it sends does.
- `NobodyLeftOut`: `draw` leaves out players without a score or a position; this client's messages
  have both for every player, in every game.
- `ReadAsSent`, `HeardAsSent`: in spite of shared buffers, partial transfers and delayed handlers messages come out as they
  went in, each way, unless one of five things happens, each named for each claim: two writes of the session meet; a write meets
  received bytes; the client's sending meets its reading; a drawing meets an input; a transfer is too short. Leave any of them out of the
  claim and TLC finds a message spoilt. They say that nothing else is read or heard than was sent, not that all of it is: a client that
is in the middle of a string too long for a char stays there, a server ends over such a name, and nothing is said of what
comes after an overflow. The two programs do nothing to prevent them: it is the speed of the network and of the
  peer that makes them rare.
- `PrintedAsSent`, `NoFalseAlarm`, `DamageReported`: the verifier prints just what its peer has sent, keeps
  silent when a connection merely ends, and reports a datagram that is cut short or too long.
- `ReadsBack`: whatever bytes come, what is read is a value that `to_bytes` can write, in no more
  bytes than were read, and in just these where the format leaves no choice.
- `NothingLost`: what `draw` has not passed is, in order and without a gap, in the event queue, the channel and the
  thread's hand. In particular no event expires before `draw` has run.
- `OneMessageShown`, `NeverGoesBack`, `ColorsKept`, `InputsInOrder`: the screen is the drawing of one message, the
  newest that `draw` has passed; players keep their colours when another one is left out; each press is one
  input.
- `GameTerminates`, `BackToLobby`, `AcceptsAgain`, `NewsAreShown`: liveness.

**Bounds.** The boards have one to four fields a side, that of `room` two by four with a radius of two: enough for an arm that a block stops, for arms over the
edge and for bombs on, left and right of the diagonal. Two sessions: two players
that disconnect and come back as observers; what a third would add is left to the proofs, which cover every safety property of
this run for any number. Games of two to four turns
and any number of games, so that what a game leaves behind is met in the next; a timer of 2,
with `U16` just above the game's length, so that a timer wraps as early as
it can without running into its next explosion (in the code a game would have to last
65,536 turns for that, and `game_length` is below). The generator of `room` has a modulus of 17, a factor of 6
and a seed that puts a robot off the diagonal and a block in the corner where the bombs go.
All players of the room have one name, which no code compares: their ids tell them apart.
`InboxBound`, `OutboxBound`, `GamesBound`, `TurnsBound` and `BombsBound` bound what is under
way between client and server and what the external server does. In `Robots` a player whose
session is not read any more gives no further inputs. State spaces go from a few thousand
states to 2.5 million.

In `connection` the conversation has four messages, of which one is not drawn and one has a piece of two bytes, and there are
two inputs. A char says no more than 1 and a buffer has five bytes, so that there is a Hello with a string too long for a char, and a Turn
too long for a buffer, in conversations of their own. A client has one name, of one byte here; that a longer one spoils nothing else
is left to the proof. `Bounds` is a constraint on the states that are explored further: overlaps of one kind, two writes at a time, and no
second input with an overlap. What a claim says without overlaps is thus checked in full, and what it says in spite of one that it does not name, for
that one alone.

In `verifier` a byte has six values (`Base`): one for each of the five variants of a server's message,
and one that is no variant of any type and occurs in no UTF-8 text. A text is then of at most five bytes, and numbers of two and four
bytes still have bytes of different weight. `MCMessages` has every variant of every message, lists, sets
and maps of none, one and two elements, and the two forms in which a C++ peer may write a set or a map otherwise than
`to_bytes`; `numbers` and `choices` add the signed integers, booleans, options and units that no message has and
the crate's tests read. `WrongBytes` are a
valid and an invalid number, option or variant; `InputBound` lets a message be read while it is being written.
There is no bound on the number of connections.

In `gui` the channel holds two messages instead of ten and three are decoded, so that it fills with one more in the hand
of the thread; `KeysBound` events come from two keys of different meaning. Frames are not
bounded. The two messages differ in bombs, explosions and positions; the single text of a lobby is not
among them.

**Deadlock** is not checked where the system may stop: the addresses in `GameRoom` run
out when each session has died with a move in the lobby that keeps its object alive, and
the external server stops after `GamesBound` games. That a game never stops is `GameTerminates`.

**Fairness.** `GameRoom`: weak fairness of the turn timer, a `steady_timer` on an event loop that no
handler blocks; nothing is asked of clients. It is spelled out as `TimerFires` (a timer that stays
armed from some moment on expires again and again), which is weak fairness of `TurnTimer` because
that action is enabled just when `timer` is TRUE, and which spares TLC the enabling of a large
action. `Robots`: the same, as `TimerExpires`, and weak fairness of the client's reading coroutine, `ReaderGoesOn`, which waits for its socket
and for a UDP send only; the steps are spelled out too, by what they alone change, for TLC evaluates that faster.
`Verifier`: weak fairness of the process, not of its peers. `Gui`: weak fairness of the thread and, separately, of the frame
loop, which the engine drives; none of arrivals, keys or the closing of the window.
No fairness of inputs, other sessions, or of noticing that a connection has broken.

Every property has a mutant in `PROJECT.json`: a change of the kind one makes by mistake that
the run refutes. Mutants stand before the definitions they change.

## 4. Proofs

For every value of the constants that satisfies the named assumptions
(`BoardAssumption`, `PlayersAssumption`, `TimerAssumption`, `RadiusAssumption`, `SessionsAssumption`,
`LengthAssumption`, `BlocksAssumption`, `RandomAssumption`: board and counts positive,
`bomb_timer` and `game_length` within sixteen bits; `MineAssumption`, `NameAssumption`: the client's session and name are a
session and a name of the server's; `BoundsAssumption`, `OutboxAssumption`: the bounds of the external server and of the outbox are
natural numbers, of any size; `StreamsAssumption`: a message begins with the one byte that
tells its kind, and its pieces are not empty, a Join fits the buffer, and no buffer has `Wrap` bytes; TLC evaluates them in each run):

- `ExplosionProofs`: arms are connected and a cross is the union of its arms, so the client's four
  loops compute the cross (`ClientBlastIsCross`); the server's wrong bound makes its arm
  upwards too short where column <= row and too long where column >= row
  (`ReachErrsOneWay`), and with it the blast (`BlastLeftOfDiagonal`, `BlastRightOfDiagonal`).
  `ErrsOneWay` and `ClientIsRight` are these facts for every set of blocks, as the properties of run `room` need them.
- `GameRoomProofs`: nine theorems about `Spec`, from one inductive invariant
  `IInv`, the conjunction of
  - `TypeOK`, `OneTimer`, `GameIsFull`, `TurnsNumbered`, the properties themselves;
  - `Acting`: a session that is still read has no id and no move, one with an id has no move: a session gets one message in
    its life, and a player has spent it on Join;
  - `Corner`: the robot of id 255 stands in the corner whenever it exists, and so does every bomb.
    It needs `Acting`: bombs are laid by sessions of id 255 only, whose moves all place bombs or blocks.

  The proof goes action by action (`NextTurn`, `LastTurn` and `JoinStart` have lemmas of their own).
  The loops over moves, bombs and blocks are recursive functions; that they are
  defined by their equations, and stay within a type or a property that every step keeps, is
  shown in `ExplosionProofs` (`RecursionExists`, `RecursionRange`).

  `CornerBombsAreCrosses` then combines `Corner` with the geometry: the corner is on the diagonal;
  `BlastsErrOneWay` and `ClientsDrawCrosses` need of the state only that its blocks are on the board.
  Its last part shows `EventsTellStatus` and `ExplodesOnce` of `Spec` too, on top of `IInv`, from `EventInv`, the conjunction of
  - `Emptied`: between games no robot, bomb, block or turn is left of the last one, for `init_game` adds to what it finds;
  - `Standing`: in a game every robot has a place, the status has just what was placed (`Tells`), and bomb 0's timer is
    `Left(d)` when d turns have passed since it was first laid (`Burning`); below zero that goes on from the top;
  - `BurnsDown`: bomb 0 has exploded in the turn that the code's own count gives, if the turns kept go so far, and in no other.

  These say how the code departs, where the properties say what holds in spite of it. `ExplodesOnce` does not say what a timer is at, so
  that it is not inductive: whether the next turn has an explosion
  depends on `Burning`, and that there is no second one on `game_length` being below the wrap. Within a
  turn `Faithful` goes from move to move: the status so far is what the turn's events so far make of the
  turn before.
- `RoomFeedProofs`: `FeedSpec` implements `Broadcast` (`RoomImplementsBroadcast`), everybody is told the same
  (`CaughtUp`), in the order of the protocol (`ProtocolOrder`). The invariant is `FeedInv`: a session that is not attached has an
  empty feed, which `Connect` then begins; and `OrderInv`: the last message of a feed says which phase the
  room is in, so that what the next handler sends may follow it.
- `ClientPlayProofs`: the seven properties of run `client` about `PlaySpec`, on any board, with any radius and number of players, games,
  turns and bombs: `BoardRight`, `NeverUnknown`, `EverybodyDrawn` and `PlayTypes` in every game, `ExplosionsRight`,
  `ScoresRight` and `FusesRight` in the first. Each property but the types speaks of the moment of a drawing, or of the message that comes
  next, and none of what will become of a status on the way there, so that none is inductive. The invariant `PlayInv` (`PlayInvariant`) is
  - `Served`: the types of the server, and no bomb laid in a turn that is still to come;
  - `Kept`: the types of the client;
  - `Phases`: where the two are, one after the other: between games (`Idle`), a game called (`Called`) and heard of
    (`Ready`), a turn under way (`Coming`), drawn (`Shown`) and done with (`Resting`), or the reader ended by a drawing that could not be sent (`Over`). Of a turn under way it says what the status will
    be when the client has replayed it (`Pictured`), and that no event of it throws. What is then right (`Right`) is in every game the
    positions, the blocks and that every bomb that has still to explode is known; in the first also the scores, and that
    the bombs are just these, with the time they have left.

  The work is in `PlayTurn`, where the server makes up a turn: any number of explosions, then the bombs of some players, or a block, or a move. The proof follows the
  client through its events, first the reports (`Burnt`): after each one the explosions are the crosses so far, the destroyed robots are counted
  once, and the bombs are those not yet reported; each cross comes from `ClientBlastIsCross`, though the client knows the
  destroyed blocks only, for those are the ones that stop an arm (`CrossBlocksSuffice`). Then come the bombs laid (`Placed`). TLC has checked the parts of `PlayInv` on the run's
  instance and with a `BombTimer` of 0, 1 and 3.

  `FusesRight` has the hypothesis `BombTimer # 0`, and needs it: with 0, a bomb that the external server lays after the
  explosions of a turn has missed its own, and the client, which forgets a bomb only at its explosion, goes on drawing
  it, with a timer that wraps. The other theorems hold for 0 too.
- `RobotsProofs`: four theorems about `RobotsSpec`, the server and this client over a connection that can break: the client knows the
  phase (`PhaseFollowed`) and the game (`GameFollowed`), its reader dies of the robot 255 only (`PhantomsKill`), and what it
  aggregates has its type (`ClientTypes`). They cover any board, any number of sessions, players and games, wherever the
  client connects. `PhaseKnown` and `GameKnown` speak of a client that has read everything; what a message that is still under way
  will do to it they do not say, so that neither is inductive. The invariant `RobotsInv` (`RobotsInvariance`) is
  `IInv` and `EventInv` of the room with
  - `Saying`: what the kept turns say: every player's place in the first turn and no other later, a bomb in the corner only,
    an explosion only of a bomb laid before and always on the robot 255, which exists before any bomb;
  - `Linked`, `Known`: before the connection the client is new; after it, what it knows has its type, and as long as
    its reader lives it has read of no explosion, for the first one kills it. So it knows one bomb at most, in the corner, and no
    score but 0 (`KnownStatus`); and an explosion under way is of a bomb it knows or will have heard of (`Announced`);
  - `Seated`: players are told in the order of their ids, and of each one the client has heard or will hear;
  - `Followed`: between games what is under way leaves the client in a lobby without blocks (`Blank`). In a game either
    the client is in it, has taken the first j turns (`Taken(j)`), and the rest is under way, in order (`Coming(j)`); or it is still before
    `GameStarted`, and all turns come after that (`BeforeGame`). With an empty inbox j is the number of all turns, and the
    two properties follow.

  `Replay` is a recursion over the events of a turn; the proof goes event by event (`Learnt`), and shows that it ends in a
  status just when there is no explosion. TLC has checked the parts of `RobotsInv` on the run's instance and on one with
  two players.
- `ConnectionProofs`: `ReadAsSent` (`ReadsInOrder`) and `HeardAsSent` (`HearsInOrder`) of `Spec` in `Connection`, for
  messages of any length in any pieces, any string among them, any char and buffer, any conversation and any number of inputs, a Join of any
  length that fits the buffer. The properties are about what is read and heard; where a string is too long for a char the reader stays, or the server
  ends, and beyond an overflow there is no next step. The run explores overlaps one kind
  at a time; the theorems have no such bound. Neither property mentions a buffer, so that neither is inductive; the invariant `ConnectionInv` (`ConnectionInvariant`) is
  the conjunction of
  - `ConnectionTypeOK` and `Apart`: what cannot be the case as long as an overlap is not noted;
  - `DownSound`: unless writes meet one another or received bytes, the session's buffer holds the message that is
    being written, and the bytes on their way down go on from what the client has taken, each following the one before (`Follows`);
  - `ReaderSound`: unless the client's sending has met its reading too, what stands in `_buf_tcp` from the index on is the
    part of the message that has been read, the index and the length are where it puts them, and the next byte from the socket is
    the next byte of that message; or it waits in a string for more bytes than any buffer has (`Endless`), and will not go on;
  - `UpSound`, `HeardSound`: the same for the other direction, whose bytes leave from `_buf_tcp` and come into the session's buffer;
  - `InputsSound`, `JoinsSound`: a message of each kind that has been sent has an input before it that asked for it; the one that
    is being looked at is not counted yet. For a Join that may be an input of any kind, as long as it has not led to one (`JoinDue`);
  - `DrawnSound`: the drawing that has not left is of the last message read, and the rest were sent in order.

  Each part speaks under the overlaps it excludes only, and `overlaps` never shrinks; a step has one lemma for each part. TLC has checked
  `ConnectionInv` part by part on the run's instance.
- `RustProofs`: six theorems about `GuiSpec`, for every capacity, socket and set of messages
  (`CapacityAssumption`, `GuiBoundsAssumption`), from the inductive invariant `GInv`, the conjunction of `GuiTypeOK`, `OneMessageShown` and
  - `Numbered`: the numbers of receipt run on from the two event buffers over the channel to the thread's hand;
  - `Kept`: what `draw` has not passed is still in the buffers, and once `draw` has run in a frame, all of it is in the
    newer one. This is what makes up for the missing order of the systems: the next update drops
    the older buffer only.

  `NothingLost` follows from these two but is not inductive: it does not say in which buffer an unread event is.
  `ColorsKept` (`SameColors`) needs no more than this: a colour depends on the player's place in the message's map of players. `InputsInOrder`
  (`PressesInOrder`) has an invariant of its own, `KeysInOrder`: the keyboard's queue is the rest of the presses.

  Three theorems are about `Random`: `next_u32` loses nothing in its 64-bit product and its cast
  (`NothingWraps`); it gives 0 for the multiples of its modulus and no other of the 2^32 seeds, and never comes to 0
  from another (`StandsStill`); `range_u16` stays in its range (`DrawnFromRange`). These need no assumption and no
  run: the numbers are beyond TLC's.

With these, every safety property of the room, of what it sends, of the connection, of this client behind either server and of the
interface is proved. Only model-checked are the properties of `Verifier` (`PrintedAsSent`, `NoFalseAlarm`,
`DamageReported`, `ReadsBack`): they compare what is read with the encodings of `Serializer`, a RECURSIVE operator on the
depth of a value, and say what a recursion computes rather than what each of its steps keeps. Liveness (`GameTerminates`,
`BackToLobby`, `AcceptsAgain`, `NewsAreShown`) is out of the prover's reach, for it has no ENABLED.

## 5. Where the code departs from the README

Eight departures have a run in which TLC finds the README's claim violated; `PROJECT.json`
quotes each claim and its line.

| Run | Property | The code |
|---|---|---|
| `players_heard` | `PlayersAreHeard` | reads each session once, so that a player is never heard |
| `bomb_rules` | `ARuleOfBombsHolds` | explodes a bomb a turn early (`GameRoom.cpp:251`); keeps the bomb and the blocks it destroyed (`GameRoom.cpp:222`); gives every bomb the id 0 and so loses all but the first of a game (`GameRoom.cpp:62`) |
| `blast_cross` | `BlastIsCross` | takes one bound of the explosion from the wrong coordinate |
| `stale_bombs` | `ExistingBombsDrawn` | keeps the bombs of the last game in the client and draws them |
| `turns_drawn` | `TurnsAreDrawn` | lets the client's reader die of the robot 255 |
| `late_join` | `InputsOfAGameDoNotJoin` | sends `Join` for an input of the game before |

`ARuleOfBombsHolds` is the disjunction of four rules, `FuseLasts`, `BombsAreRemoved`, `BlocksAreRemoved` and `BombsAreApart`. Each implies it, and
a state in which it is false violates all four: the state TLC finds, after a game in which two observers lay bombs, refutes them at once.

Further departures are translated as the code has them and have no run of their own:

| Line | The code |
|---|---|
| `GameSession.cpp:102` | makes a direction of movement a bomb |
| `GameRoom.cpp:32`, `GameRoom.cpp:56` | plays what observers send, and what was sent in the lobby |
| `GameSession.cpp:52` | keeps a session after an unknown message |
| `GameRoom.cpp:71` | lays a block only where one is |
| `GameRoom.cpp:168` | reports a robot destroyed and leaves it where it is |
| `GameRoom.cpp:259`, `GameRoom.cpp:274` | sends no scores; puts the seed back after each game |
| `Client.cpp:280`, `Client.cpp:387` | keeps scores and players of the last game in the client |
| `GameSession.cpp:87` | sends an address without its port, which `README:664` allows and `src/src/lib.rs:112` cannot read: the Rust programs refuse such a player |
| `GameSession.cpp:78`, `Client.cpp:104` | takes the length of a string for a signed char, at both ends (`Connection`) |
| `GameSession.cpp:105`, `Client.cpp:57` | builds and reads messages beyond `BUFF_SIZE` (`Connection`) |
| `GameSession.cpp:62`, `Client.cpp:473`, `Client.cpp:615` | lets operations share a buffer, so that those that meet spoil each other's messages (`Connection`) |
| `GameSession.cpp:27`, `Client.cpp:473` | takes what one receive brings for a message, and what one send takes |

The departures of the client are why some properties speak of the first game of a connection only (`FusesDrawn`,
`ExplosionsDrawn`, `ScoresDrawn`). Where the README and the room differ on bombs, blocks and players, no property of a passing run
claims what the code does instead: `EventsTellStatus` leaves open what an explosion has taken away, `ExplodesOnce` the turn of the explosion, and of
players that are not heard there is `PlayersAreHeard` only.

## 6. Not modelled, and the plan

Done in this order so far: geometry, room, feeds, proofs of both, client, composition of client and
server, wire format and verifier, interface with its proofs and behind the client, the buffers of both ends, proofs of the
composition, of the buffers and of the client at a server that plays by the rules. What is left:

1. The lifetime of a session of which a receive and a write fail one after the other: the first failure drops the
   room's reference, and the handler of the second holds a plain `this`. In `GameRoom` a session ends in one
   step, in `Connection` the connection holds.
2. A drawing that does not fit `_buf_udp`: `Connection` knows of that buffer only whose bytes it holds. In `Client` the
   sending of a drawing may fail at any time.
3. Proofs about `Verifier`. The deserializer would have to be compared with a description of the encodings that is
   no recursion over values, for instance one level of nesting at a time.

Left out of the Rust programs: what is `unimplemented!()` (floats, characters, byte buffers), shapes,
fonts, layers and the wording of texts, errors of sockets that are only logged, and
`From<InputMessage> for ClientMessage`, which nothing calls. A datagram that overtakes another between client and
interface shows an older turn for a while; no code orders them, and no property claims it.

Not planned: parsing of command lines (straight-line), the samples in C and C++, assets. A
`game_length`, size or `players_count` of 0 is accepted on the command line
and excluded by the assumptions; what then happens is in the hazards.
