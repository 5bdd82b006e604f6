----------------------------- MODULE GameRoomProofs ----------------------------
(***************************************************************************)
(* The safety of the room, for every number of sessions and players, every *)
(* board, length of game, fuse and seed.                                   *)
(***************************************************************************)
EXTENDS GameRoom, ExplosionProofs, SequenceTheorems

USE BoardAssumption, PlayersAssumption, RadiusAssumption, SessionsAssumption,
    LengthAssumption, TimerAssumption, BlocksAssumption, RandomAssumption

--------------------------------------------------------------------------------
(***************************************************************************)
(* Types of events, and of a function over 1..n as a sequence.             *)
(***************************************************************************)
LEMMA EventTypes ==
  /\ \A b \in Nat, p \in Position : BombPlaced(b, p) \in Event
  /\ \A b \in Nat, r \in SUBSET AnyId, s \in SUBSET Position :
       BombExploded(b, r, s) \in Event
  /\ \A i \in AnyId, p \in Position : PlayerMoved(i, p) \in Event
  /\ \A p \in Position : BlockPlaced(p) \in Event
  BY DEF BombPlaced, BombExploded, PlayerMoved, BlockPlaced, Event

LEMMA FunctionIsSequence ==
  ASSUME NEW S, NEW n \in Nat, NEW f \in [1 .. n -> S]
  PROVE  f \in Seq(S) /\ Len(f) = n
<1>1. f \in Seq(S)
  BY SeqDef
<1> QED
  BY <1>1, LenProperties

--------------------------------------------------------------------------------
(***************************************************************************)
(* What init_game draws: the recursive definition of random defines a      *)
(* function, its values are numbers, and the positions are on the board.   *)
(***************************************************************************)
LEMMA RandomDefined ==
  ASSUME rng \in Nat
  PROVE  random = [k \in 0 .. Draws |->
                     IF k = 0 THEN rng ELSE (random[k - 1] * Multiplier) % Modulus]
<1> DEFINE step == [x \in (1 .. Draws) \X Nat |-> (x[2] * Multiplier) % Modulus]
<1>0. Draws \in Nat
  BY DEF Draws
<1>1. step \in [(1 .. Draws) \X Nat -> Nat]
  <2>1. \A a \in Nat : (a * Multiplier) % Modulus \in Nat
    OBVIOUS
  <2> QED
    BY <2>1
<1>2. PICK f : IsRecursion(f, Draws, Nat, rng, step)
  <2> HIDE DEF step
  <2> QED
    BY <1>0, <1>1, RecursionExists
<1>3. ASSUME NEW k \in 0 .. Draws
      PROVE  f[k] = IF k = 0 THEN rng ELSE (f[k - 1] * Multiplier) % Modulus
  <2>1. CASE k = 0
    BY <1>2, <2>1 DEF IsRecursion
  <2>2. CASE k # 0
    <3>1. k \in 1 .. Draws /\ f[k - 1] \in Nat
      BY <1>0, <1>2, <2>2 DEF IsRecursion
    <3>2. step[<<k, f[k - 1]>>] = (f[k - 1] * Multiplier) % Modulus
      BY <3>1
    <3> HIDE DEF step
    <3> QED
      BY <1>2, <2>2, <3>1, <3>2 DEF IsRecursion
  <2> QED
    BY <2>1, <2>2
<1>4. f = [k \in 0 .. Draws |->
             IF k = 0 THEN rng ELSE (f[k - 1] * Multiplier) % Modulus]
  <2> HIDE DEF step
  <2> QED
    BY <1>2, <1>3 DEF IsRecursion
<1> QED
  BY <1>4 DEF random

LEMMA RandomType ==
  ASSUME rng \in Nat
  PROVE  \A k \in 0 .. Draws : random[k] \in Nat
<1>0. Draws \in Nat
  BY DEF Draws
<1>1. random[0] \in Nat
  BY <1>0, RandomDefined
<1>2. \A k \in 1 .. Draws : random[k - 1] \in Nat => random[k] \in Nat
  <2> SUFFICES ASSUME NEW k \in 1 .. Draws, random[k - 1] \in Nat
               PROVE  random[k] \in Nat
    OBVIOUS
  <2>1. random[k] = (random[k - 1] * Multiplier) % Modulus
    BY <1>0, RandomDefined
  <2> QED
    BY <2>1
<1> QED
  BY <1>0, <1>1, <1>2, RecursionRange

LEMMA DrawnOnBoard ==
  ASSUME rng \in Nat, NEW k \in 0 .. (PlayersCount + InitialBlocks - 1)
  PROVE  DrawnPosition(k) \in Position
<1>1. 2 * k + 1 \in 0 .. Draws /\ 2 * k + 2 \in 0 .. Draws
  BY DEF Draws
<1>2. random[2 * k + 1] \in Nat /\ random[2 * k + 2] \in Nat
  BY <1>1, RandomType
<1>3. /\ random[2 * k + 1] % SizeX \in 0 .. (SizeX - 1)
      /\ random[2 * k + 2] % SizeY \in 0 .. (SizeY - 1)
  BY <1>2
<1> QED
  BY <1>3 DEF DrawnPosition, Position

LEMMA BlocksOnBoard ==
  ASSUME rng \in Nat, blocks \in SUBSET Position, NEW k \in 0 .. InitialBlocks
  PROVE  BlocksDrawn(k) \in SUBSET Position
<1>1. \A j \in 1 .. k : DrawnBlock(j) \in Position
  BY DrawnOnBoard DEF DrawnBlock
<1> QED
  BY <1>1 DEF BlocksDrawn

LEMMA BlockEventsDefined ==
  ASSUME rng \in Nat
  PROVE  BlockEvents = [k \in 0 .. InitialBlocks |->
           IF k = 0 THEN <<>>
           ELSE IF DrawnBlock(k) \in BlocksDrawn(k - 1)
                THEN BlockEvents[k - 1]
                ELSE Append(BlockEvents[k - 1], BlockPlaced(DrawnBlock(k)))]
<1> DEFINE next(k, events) ==
             IF DrawnBlock(k) \in BlocksDrawn(k - 1)
             THEN events ELSE Append(events, BlockPlaced(DrawnBlock(k)))
           step == [x \in (1 .. InitialBlocks) \X Seq(Event) |-> next(x[1], x[2])]
<1>1. step \in [(1 .. InitialBlocks) \X Seq(Event) -> Seq(Event)]
  <2> SUFFICES ASSUME NEW k \in 1 .. InitialBlocks, NEW events \in Seq(Event)
               PROVE  next(k, events) \in Seq(Event)
    OBVIOUS
  <2>1. DrawnBlock(k) \in Position
    BY DrawnOnBoard DEF DrawnBlock
  <2>2. BlockPlaced(DrawnBlock(k)) \in Event
    BY <2>1, EventTypes
  <2>3. Append(events, BlockPlaced(DrawnBlock(k))) \in Seq(Event)
    BY <2>2, AppendProperties
  <2> QED
    BY <2>3
<1>2. PICK f : IsRecursion(f, InitialBlocks, Seq(Event), <<>>, step)
  <2>1. <<>> \in Seq(Event)
    BY EmptySeq
  <2> HIDE DEF step
  <2> QED
    BY <1>1, <2>1, RecursionExists
<1>3. ASSUME NEW k \in 1 .. InitialBlocks
      PROVE  f[k] = next(k, f[k - 1])
  <2>1. f[k - 1] \in Seq(Event) /\ f[k] = step[<<k, f[k - 1]>>]
    <3> HIDE DEF step
    <3> QED
      BY <1>2 DEF IsRecursion
  <2>2. step[<<k, f[k - 1]>>] = next(k, f[k - 1])
    <3> HIDE DEF next
    <3> QED
      BY <2>1
  <2> HIDE DEF step, next
  <2> QED
    BY <2>1, <2>2
<1>4. ASSUME NEW k \in 0 .. InitialBlocks
      PROVE  f[k] = IF k = 0 THEN <<>> ELSE next(k, f[k - 1])
  <2> HIDE DEF step, next
  <2>1. CASE k = 0
    BY <1>2, <2>1 DEF IsRecursion
  <2>2. CASE k # 0
    <3>1. k \in 1 .. InitialBlocks
      BY <2>2
    <3> QED
      BY <1>3, <2>2, <3>1
  <2> QED
    BY <2>1, <2>2
<1>5. f = [k \in 0 .. InitialBlocks |-> IF k = 0 THEN <<>> ELSE next(k, f[k - 1])]
  <2> HIDE DEF step, next
  <2>1. f \in [0 .. InitialBlocks -> Seq(Event)]
    BY <1>2 DEF IsRecursion
  <2> QED
    BY <1>4, <2>1
<1> QED
  BY <1>5 DEF BlockEvents

LEMMA BlockEventsType ==
  ASSUME rng \in Nat
  PROVE  \A k \in 0 .. InitialBlocks : BlockEvents[k] \in Seq(Event)
<1>1. BlockEvents[0] \in Seq(Event)
  <2>1. BlockEvents[0] = <<>>
    BY BlockEventsDefined
  <2> QED
    BY <2>1, EmptySeq
<1>2. \A k \in 1 .. InitialBlocks :
         BlockEvents[k - 1] \in Seq(Event) => BlockEvents[k] \in Seq(Event)
  <2> SUFFICES ASSUME NEW k \in 1 .. InitialBlocks, BlockEvents[k - 1] \in Seq(Event)
               PROVE  BlockEvents[k] \in Seq(Event)
    OBVIOUS
  <2>1. DrawnBlock(k) \in Position
    BY DrawnOnBoard DEF DrawnBlock
  <2>2. Append(BlockEvents[k - 1], BlockPlaced(DrawnBlock(k))) \in Seq(Event)
    BY <2>1, EventTypes, AppendProperties
  <2>3. \/ BlockEvents[k] = BlockEvents[k - 1]
        \/ BlockEvents[k] = Append(BlockEvents[k - 1], BlockPlaced(DrawnBlock(k)))
    <3>1. k \in 0 .. InitialBlocks /\ k # 0
      OBVIOUS
    <3>2. CASE DrawnBlock(k) \in BlocksDrawn(k - 1)
      BY <3>1, <3>2, BlockEventsDefined
    <3>3. CASE DrawnBlock(k) \notin BlocksDrawn(k - 1)
      BY <3>1, <3>3, BlockEventsDefined
    <3> QED
      BY <3>2, <3>3
  <2> QED
    BY <2>2, <2>3
<1> QED
  BY <1>1, <1>2, RecursionRange

LEMMA StartEventsType ==
  ASSUME rng \in Nat
  PROVE  StartEvents \in Seq(Event)
<1>1. \A k \in 1 .. PlayersCount : PlayerMoved(k - 1, DrawnPosition(k - 1)) \in Event
  <2> SUFFICES ASSUME NEW k \in 1 .. PlayersCount
               PROVE  PlayerMoved(k - 1, DrawnPosition(k - 1)) \in Event
    OBVIOUS
  <2>1. k - 1 \in AnyId
    BY DEF AnyId, PlayerId
  <2>2. DrawnPosition(k - 1) \in Position
    BY DrawnOnBoard
  <2> QED
    BY <2>1, <2>2, EventTypes
<1>2. StartMoves \in [1 .. PlayersCount -> Event]
  BY <1>1 DEF StartMoves
<1>3. StartMoves \in Seq(Event)
  BY <1>2, FunctionIsSequence
<1>4. BlockEvents[InitialBlocks] \in Seq(Event)
  BY BlockEventsType
<1> QED
  BY <1>3, <1>4, ConcatProperties DEF StartEvents

--------------------------------------------------------------------------------
(***************************************************************************)
(* The status that the moves of a turn work on.  The robot that            *)
(* operator[] makes up for a session without a player stays in the corner, *)
(* and so does every bomb, for only such sessions lay bombs.               *)
(***************************************************************************)
Bombs == {bs \in UNION {[D -> Bomb] : D \in SUBSET (0 .. next_bomb)} :
            \A b \in DOMAIN bs : bs[b].position = Origin}

Positions == {ps \in UNION {[D -> Position] : D \in SUBSET AnyId} :
                NoPlayer \in DOMAIN ps => ps[NoPlayer] = Origin}

Status == [bombs : Bombs, blocks : SUBSET Position,
           positions : Positions, events : Seq(Event)]

Acting ==
  \A s \in Session :
    /\ s \in reading => id[s] = NoPlayer /\ moves[s] = NoMove
    /\ moves[s] # NoMove => id[s] = NoPlayer
    /\ moves[s].message \in {"None", "PlaceBomb", "PlaceBlock"}

Corner ==
  /\ next_bomb = 0
  /\ bombs \in Bombs
  /\ player_positions \in Positions

LEMMA CornerOnBoard == Origin \in Position
  BY DEF Origin, Position

LEMMA TouchPositions ==
  ASSUME NEW ps \in Positions
  PROVE  /\ Touch(ps, NoPlayer) \in Positions
         /\ Touch(ps, NoPlayer)[NoPlayer] = Origin
<1> DEFINE D == DOMAIN ps \cup {NoPlayer}
           t == [k \in D |-> IF k \in DOMAIN ps THEN ps[k] ELSE Origin]
<1>1. PICK E \in SUBSET AnyId : ps \in [E -> Position]
  BY DEF Positions
<1>2. Touch(ps, NoPlayer) = t
  BY DEF Touch, Insert
<1>3. D \in SUBSET AnyId
  BY <1>1 DEF AnyId
<1>4. t \in [D -> Position]
  BY <1>1, CornerOnBoard
<1>5. t[NoPlayer] = Origin
  BY DEF Positions
<1>6. t \in Positions
  <2> HIDE DEF t, D
  <2> QED
    BY <1>3, <1>4, <1>5 DEF Positions
<1> QED
  BY <1>2, <1>5, <1>6

LEMMA InsertBomb ==
  ASSUME NEW bs \in Bombs, next_bomb = 0
  PROVE  Insert(bs, next_bomb, [position |-> Origin, timer |-> BombTimer]) \in Bombs
<1> DEFINE new == [position |-> Origin, timer |-> BombTimer]
           D == DOMAIN bs \cup {next_bomb}
           t == [k \in D |-> IF k \in DOMAIN bs THEN bs[k] ELSE new]
<1>1. PICK E \in SUBSET (0 .. next_bomb) : bs \in [E -> Bomb]
  BY DEF Bombs
<1>2. new \in Bomb /\ new.position = Origin
  BY CornerOnBoard DEF Bomb
<1>3. D \in SUBSET (0 .. next_bomb)
  BY <1>1
<1>4. t \in [D -> Bomb]
  <2> HIDE DEF new
  <2> QED
    BY <1>1, <1>2
<1>5. \A b \in D : t[b].position = Origin
  <2> HIDE DEF new
  <2> QED
    BY <1>2 DEF Bombs
<1>6. Insert(bs, next_bomb, new) = t
  BY DEF Insert
<1>7. t \in Bombs
  <2> HIDE DEF t, D, new
  <2> QED
    BY <1>3, <1>4, <1>5 DEF Bombs
<1> QED
  BY <1>6, <1>7

(***************************************************************************)
(* What a resolve function returns is its argument with some of the four   *)
(* fields replaced.                                                        *)
(***************************************************************************)
LEMMA StatusUpdate ==
  ASSUME NEW st \in Status, NEW ps \in Positions, NEW bs \in Bombs,
         NEW bl \in SUBSET Position, NEW es \in Seq(Event)
  PROVE  /\ [st EXCEPT !.positions = ps] \in Status
         /\ [st EXCEPT !.positions = ps, !.bombs = bs, !.events = es] \in Status
         /\ [st EXCEPT !.positions = ps, !.blocks = bl, !.events = es] \in Status
<1> DEFINE Events == Seq(Event)
           Blocks == SUBSET Position
<1>1. /\ st \in [bombs : Bombs, blocks : Blocks, positions : Positions, events : Events]
      /\ bl \in Blocks /\ es \in Events
  BY DEF Status
<1>2. Status = [bombs : Bombs, blocks : Blocks, positions : Positions, events : Events]
  BY DEF Status
<1> HIDE DEF Events, Blocks
<1>3. [st EXCEPT !.positions = ps] \in Status
  BY <1>1, <1>2
<1>4. [st EXCEPT !.positions = ps, !.bombs = bs, !.events = es] \in Status
  BY <1>1, <1>2
<1>5. [st EXCEPT !.positions = ps, !.blocks = bl, !.events = es] \in Status
  BY <1>1, <1>2
<1> QED
  BY <1>3, <1>4, <1>5

(***************************************************************************)
(* One message, resolved.                                                  *)
(***************************************************************************)
LEMMA ResolveStatus ==
  ASSUME TypeOK, Acting, next_bomb = 0, NEW s \in Session, NEW st \in Status
  PROVE  Resolve(st, s) \in Status
<1> DEFINE ps == Touch(st.positions, NoPlayer)
<1>1. st.positions \in Positions /\ st.bombs \in Bombs
      /\ st.blocks \in SUBSET Position /\ st.events \in Seq(Event)
  BY DEF Status
<1>2. ps \in Positions /\ ps[NoPlayer] = Origin
  BY <1>1, TouchPositions
<1>3. CASE moves[s].message = "None"
  BY <1>3 DEF Resolve
<1>4. CASE moves[s].message = "PlaceBomb"
  <2>1. id[s] = NoPlayer
    BY <1>4 DEF Acting, NoMove, ClientMessage
  <2>2. Resolve(st, s) = ResolvePlaceBomb(st, s)
    BY <1>4 DEF Resolve
  <2> DEFINE bs == Insert(st.bombs, next_bomb, [position |-> Origin, timer |-> BombTimer])
             es == Append(st.events, BombPlaced(next_bomb, Origin))
  <2>3. bs \in Bombs
    BY <1>1, InsertBomb
  <2>4. es \in Seq(Event)
    <3>1. BombPlaced(next_bomb, Origin) \in Event
      BY CornerOnBoard, EventTypes
    <3> QED
      BY <1>1, <3>1, AppendProperties
  <2>5. ResolvePlaceBomb(st, s) =
          [st EXCEPT !.positions = ps, !.bombs = bs, !.events = es]
    <3> HIDE DEF ps
    <3>1. Touch(st.positions, id[s]) = ps /\ ps[id[s]] = Origin
      BY <1>2, <2>1 DEF ps
    <3> QED
      BY <3>1 DEF ResolvePlaceBomb
  <2> HIDE DEF ps, bs, es
  <2>6. [st EXCEPT !.positions = ps, !.bombs = bs, !.events = es] \in Status
    BY <1>1, <1>2, <2>3, <2>4, StatusUpdate
  <2> QED
    BY <2>2, <2>5, <2>6
<1>5. CASE moves[s].message = "PlaceBlock"
  <2>1. id[s] = NoPlayer
    BY <1>5 DEF Acting, NoMove, ClientMessage
  <2>2. Resolve(st, s) = ResolvePlaceBlock(st, s)
    BY <1>5 DEF Resolve
  <2> DEFINE es == Append(st.events, BlockPlaced(Origin))
  <2>3. es \in Seq(Event)
    <3>1. BlockPlaced(Origin) \in Event
      BY CornerOnBoard, EventTypes
    <3> QED
      BY <1>1, <3>1, AppendProperties
  <2>4. \/ ResolvePlaceBlock(st, s) =
             [st EXCEPT !.positions = ps, !.blocks = st.blocks \cup {Origin}, !.events = es]
        \/ ResolvePlaceBlock(st, s) = [st EXCEPT !.positions = ps]
    <3> HIDE DEF ps
    <3>1. Touch(st.positions, id[s]) = ps /\ ps[id[s]] = Origin
      BY <1>2, <2>1 DEF ps
    <3> QED
      BY <3>1 DEF ResolvePlaceBlock
  <2>5. st.blocks \cup {Origin} \in SUBSET Position
    BY <1>1, CornerOnBoard
  <2> HIDE DEF ps, es
  <2>6. [st EXCEPT !.positions = ps] \in Status
    BY <1>1, <1>2, <2>3, StatusUpdate
  <2>7. [st EXCEPT !.positions = ps, !.blocks = st.blocks \cup {Origin}, !.events = es]
          \in Status
    BY <1>1, <1>2, <2>3, <2>5, StatusUpdate
  <2> QED
    BY <2>2, <2>4, <2>6, <2>7
<1> QED
  BY <1>3, <1>4, <1>5 DEF Acting

(***************************************************************************)
(* All the messages, resolved in the order of the addresses.               *)
(***************************************************************************)
LEMMA StatusBefore ==
  ASSUME TypeOK, Corner
  PROVE  CurrentStatus \in Status
  BY EmptySeq DEF TypeOK, Corner, CurrentStatus, Status

LEMMA ResolvedDefined ==
  ASSUME TypeOK, Acting, Corner
  PROVE  Resolved = [s \in 0 .. SessionsCount |->
                       IF s = 0 THEN CurrentStatus ELSE Resolve(Resolved[s - 1], s)]
<1> DEFINE step == [x \in (1 .. SessionsCount) \X Status |-> Resolve(x[2], x[1])]
<1>1. step \in [(1 .. SessionsCount) \X Status -> Status]
  <2> SUFFICES ASSUME NEW s \in 1 .. SessionsCount, NEW st \in Status
               PROVE  Resolve(st, s) \in Status
    OBVIOUS
  <2> QED
    BY ResolveStatus DEF Session, Corner
<1>2. PICK f : IsRecursion(f, SessionsCount, Status, CurrentStatus, step)
  <2> HIDE DEF step
  <2> QED
    BY <1>1, StatusBefore, RecursionExists
<1>3. ASSUME NEW s \in 1 .. SessionsCount
      PROVE  f[s] = Resolve(f[s - 1], s)
  <2>1. f[s - 1] \in Status /\ f[s] = step[<<s, f[s - 1]>>]
    <3> HIDE DEF step
    <3> QED
      BY <1>2 DEF IsRecursion
  <2>2. step[<<s, f[s - 1]>>] = Resolve(f[s - 1], s)
    BY <2>1
  <2> HIDE DEF step
  <2> QED
    BY <2>1, <2>2
<1>4. ASSUME NEW s \in 0 .. SessionsCount
      PROVE  f[s] = IF s = 0 THEN CurrentStatus ELSE Resolve(f[s - 1], s)
  <2> HIDE DEF step
  <2>1. CASE s = 0
    BY <1>2, <2>1 DEF IsRecursion
  <2>2. CASE s # 0
    <3>1. s \in 1 .. SessionsCount
      BY <2>2
    <3> QED
      BY <1>3, <2>2, <3>1
  <2> QED
    BY <2>1, <2>2
<1>5. f = [s \in 0 .. SessionsCount |->
             IF s = 0 THEN CurrentStatus ELSE Resolve(f[s - 1], s)]
  <2> HIDE DEF step
  <2>1. f \in [0 .. SessionsCount -> Status]
    BY <1>2 DEF IsRecursion
  <2> QED
    BY <1>4, <2>1
<1> QED
  BY <1>5 DEF Resolved

LEMMA PlayedStatusType ==
  ASSUME TypeOK, Acting, Corner
  PROVE  PlayedStatus \in Status
<1>1. Resolved[0] \in Status
  <2>1. Resolved[0] = CurrentStatus
    BY ResolvedDefined
  <2> QED
    BY <2>1, StatusBefore
<1>2. \A s \in 1 .. SessionsCount : Resolved[s - 1] \in Status => Resolved[s] \in Status
  <2> SUFFICES ASSUME NEW s \in 1 .. SessionsCount, Resolved[s - 1] \in Status
               PROVE  Resolved[s] \in Status
    OBVIOUS
  <2>1. Resolved[s] = Resolve(Resolved[s - 1], s)
    BY ResolvedDefined
  <2>2. Resolve(Resolved[s - 1], s) \in Status
    BY ResolveStatus DEF Session, Corner
  <2> QED
    BY <2>1, <2>2
<1>3. \A s \in 0 .. SessionsCount : Resolved[s] \in Status
  BY <1>1, <1>2, RecursionRange
<1> QED
  BY <1>3 DEF PlayedStatus

LEMMA TickBombs ==
  ASSUME NEW bs \in Bombs
  PROVE  Tick(bs) \in Bombs
<1>1. PICK E \in SUBSET (0 .. next_bomb) : bs \in [E -> Bomb]
  BY DEF Bombs
<1>2. ASSUME NEW b \in E
      PROVE  /\ [bs[b] EXCEPT !.timer = (@ - 1) % U16] \in Bomb
             /\ [bs[b] EXCEPT !.timer = (@ - 1) % U16].position = Origin
  <2>1. bs[b] \in Bomb /\ bs[b].position = Origin
    BY <1>1 DEF Bombs
  <2>2. (bs[b].timer - 1) % U16 \in 0 .. (U16 - 1)
    <3>1. bs[b].timer - 1 \in Int /\ U16 \in Int /\ U16 > 0
      BY <2>1 DEF Bomb
    <3> QED
      BY <3>1
  <2> QED
    BY <2>1, <2>2 DEF Bomb
<1>3. Tick(bs) \in [E -> Bomb]
  BY <1>1, <1>2 DEF Tick
<1>4. \A b \in E : Tick(bs)[b].position = Origin
  BY <1>1, <1>2 DEF Tick
<1> QED
  BY <1>3, <1>4 DEF Bombs

(***************************************************************************)
(* The explosions of a turn, and all its events.                           *)
(***************************************************************************)
LEMMA ExplodeBombEvent ==
  ASSUME NEW st \in Status, NEW b \in Nat
  PROVE  ExplodeBomb(st, b) \in Event
<1> DEFINE p == st.bombs[b].position
           robots == RobotsDestroyed(p, st.blocks, st.positions)
           destroyed == BlocksDestroyed(p, st.blocks)
<1>1. robots \in SUBSET AnyId
  BY DEF Status, Positions, RobotsDestroyed
<1>2. destroyed \in SUBSET Position
  BY DEF Status, BlocksDestroyed
<1>3. ExplodeBomb(st, b) = BombExploded(b, robots, destroyed)
  BY DEF ExplodeBomb
<1> HIDE DEF robots, destroyed
<1> QED
  BY <1>1, <1>2, <1>3, EventTypes

LEMMA ExplosionsDefined ==
  ASSUME TypeOK, Acting, Corner
  PROVE  Explosions = [k \in 0 .. (next_bomb + 1) |->
           IF k = 0 THEN <<>>
           ELSE IF k - 1 \in Exploding(TickedBombs)
                THEN Append(Explosions[k - 1], ExplodeBomb(PlayedStatus, k - 1))
                ELSE Explosions[k - 1]]
<1> DEFINE N == next_bomb + 1
           next(k, events) ==
             IF k - 1 \in Exploding(TickedBombs)
             THEN Append(events, ExplodeBomb(PlayedStatus, k - 1)) ELSE events
           step == [x \in (1 .. N) \X Seq(Event) |-> next(x[1], x[2])]
<1>0. N \in Nat
  BY DEF Corner
<1>1. step \in [(1 .. N) \X Seq(Event) -> Seq(Event)]
  <2> SUFFICES ASSUME NEW k \in 1 .. N, NEW events \in Seq(Event)
               PROVE  next(k, events) \in Seq(Event)
    OBVIOUS
  <2>1. k - 1 \in Nat
    BY <1>0
  <2>2. ExplodeBomb(PlayedStatus, k - 1) \in Event
    BY <2>1, PlayedStatusType, ExplodeBombEvent
  <2>3. Append(events, ExplodeBomb(PlayedStatus, k - 1)) \in Seq(Event)
    BY <2>2, AppendProperties
  <2> QED
    BY <2>3
<1>2. PICK f : IsRecursion(f, N, Seq(Event), <<>>, step)
  <2>1. <<>> \in Seq(Event)
    BY EmptySeq
  <2> HIDE DEF step, N
  <2> QED
    BY <1>0, <1>1, <2>1, RecursionExists
<1> HIDE DEF N
<1>3. ASSUME NEW k \in 1 .. N
      PROVE  f[k] = next(k, f[k - 1])
  <2>1. f[k - 1] \in Seq(Event) /\ f[k] = step[<<k, f[k - 1]>>]
    <3> HIDE DEF step
    <3> QED
      BY <1>0, <1>2 DEF IsRecursion
  <2>2. step[<<k, f[k - 1]>>] = next(k, f[k - 1])
    <3> HIDE DEF next
    <3> QED
      BY <2>1
  <2> HIDE DEF step, next
  <2> QED
    BY <2>1, <2>2
<1>4. ASSUME NEW k \in 0 .. N
      PROVE  f[k] = IF k = 0 THEN <<>> ELSE next(k, f[k - 1])
  <2> HIDE DEF step, next
  <2>1. CASE k = 0
    BY <1>2, <2>1 DEF IsRecursion
  <2>2. CASE k # 0
    <3>1. k \in 1 .. N
      BY <1>0, <2>2
    <3> QED
      BY <1>3, <2>2, <3>1
  <2> QED
    BY <2>1, <2>2
<1>5. f = [k \in 0 .. N |-> IF k = 0 THEN <<>> ELSE next(k, f[k - 1])]
  <2> HIDE DEF step, next
  <2>1. f \in [0 .. N -> Seq(Event)]
    BY <1>2 DEF IsRecursion
  <2> QED
    BY <1>4, <2>1
<1> QED
  BY <1>5 DEF Explosions, N

LEMMA ExplosionsType ==
  ASSUME TypeOK, Acting, Corner
  PROVE  Explosions[next_bomb + 1] \in Seq(Event)
<1> DEFINE N == next_bomb + 1
<1>0. N \in Nat
  BY DEF Corner
<1>1. Explosions[0] \in Seq(Event)
  <2>1. Explosions[0] = <<>>
    BY <1>0, ExplosionsDefined
  <2> QED
    BY <2>1, EmptySeq
<1>2. \A k \in 1 .. N : Explosions[k - 1] \in Seq(Event) => Explosions[k] \in Seq(Event)
  <2> SUFFICES ASSUME NEW k \in 1 .. N, Explosions[k - 1] \in Seq(Event)
               PROVE  Explosions[k] \in Seq(Event)
    OBVIOUS
  <2>1. k - 1 \in Nat
    BY <1>0
  <2>2. Append(Explosions[k - 1], ExplodeBomb(PlayedStatus, k - 1)) \in Seq(Event)
    BY <2>1, PlayedStatusType, ExplodeBombEvent, AppendProperties
  <2>3. \/ Explosions[k] = Explosions[k - 1]
        \/ Explosions[k] = Append(Explosions[k - 1], ExplodeBomb(PlayedStatus, k - 1))
    BY <1>0, ExplosionsDefined
  <2> QED
    BY <2>2, <2>3
<1>3. \A k \in 0 .. N : Explosions[k] \in Seq(Event)
  <2> HIDE DEF N
  <2> QED
    BY <1>0, <1>1, <1>2, RecursionRange
<1> QED
  BY <1>0, <1>3

LEMMA TurnEventsType ==
  ASSUME TypeOK, Acting, Corner
  PROVE  TurnEvents \in Seq(Event)
<1>1. PlayedStatus.events \in Seq(Event)
  BY PlayedStatusType DEF Status
<1> QED
  BY <1>1, ExplosionsType, ConcatProperties DEF TurnEvents

--------------------------------------------------------------------------------
(***************************************************************************)
(* What the room writes is messages.                                       *)
(***************************************************************************)
LEMMA MessageTypes ==
  /\ Hello \in Message
  /\ \A i \in PlayerId, n \in Names : AcceptedPlayer(i, n) \in Message
  /\ \A ps \in PlayerMap : GameStarted(ps) \in Message
  /\ \A n \in Nat, es \in Seq(Event) : Turn(n, es) \in Message
  /\ GameEnded(<<>>) \in Message
<1>1. \A n \in Nat, es \in Seq(Event) : Turn(n, es) \in Message
  <2> DEFINE Events == Seq(Event)
  <2> SUFFICES ASSUME NEW n \in Nat, NEW es \in Events
               PROVE  Turn(n, es) \in Message
    OBVIOUS
  <2>1. Turn(n, es) \in [type : {"Turn"}, turn : Nat, events : Events]
    <3> HIDE DEF Events
    <3> QED
      BY DEF Turn
  <2> QED
    BY <2>1 DEF Message
<1>2. \A ps \in PlayerMap : GameStarted(ps) \in Message
  BY DEF GameStarted, Message
<1> QED
  BY <1>1, <1>2 DEF Hello, AcceptedPlayer, GameEnded, Message

LEMMA SentTypes ==
  /\ Quiet \in [Session -> Seq(Message)]
  /\ \A ms \in Seq(Message) : SendAll(ms) \in [Session -> Seq(Message)]
  /\ \A s \in Session, ms \in Seq(Message) :
       SendTo(s, ms) \in [Session -> Seq(Message)]
<1> DEFINE Messages == Seq(Message)
<1>1. <<>> \in Messages
  BY EmptySeq
<1> HIDE DEF Messages
<1>2. Quiet \in [Session -> Messages]
  BY <1>1 DEF Quiet
<1>3. \A ms \in Messages : SendAll(ms) \in [Session -> Messages]
  BY <1>1 DEF SendAll
<1>4. \A s \in Session, ms \in Messages : SendTo(s, ms) \in [Session -> Messages]
  BY <1>2 DEF SendTo
<1> QED
  BY <1>2, <1>3, <1>4 DEF Messages

LEMMA GameMap ==
  ASSUME TypeOK
  PROVE  game_players \in PlayerMap
  BY DEF TypeOK, PlayerMap

LEMMA CatchupType ==
  ASSUME TypeOK
  PROVE  Catchup \in Seq(Message)
<1>1. TurnMessages \in Seq(Message)
  <2> DEFINE Events == Seq(Event)
  <2>1. Len(turns) \in Nat /\ \A k \in 1 .. Len(turns) : turns[k] \in Seq(Event)
    <3>1. turns \in Seq(Events)
      BY DEF TypeOK
    <3> HIDE DEF Events
    <3>2. Len(turns) \in Nat /\ \A k \in 1 .. Len(turns) : turns[k] \in Events
      BY <3>1
    <3> QED
      BY <3>2 DEF Events
  <2> HIDE DEF Events
  <2>2. \A k \in 1 .. Len(turns) : Turn(k - 1, turns[k]) \in Message
    BY <2>1, MessageTypes
  <2>3. TurnMessages \in [1 .. Len(turns) -> Message]
    BY <2>2 DEF TurnMessages
  <2> QED
    BY <2>1, <2>3, FunctionIsSequence
<1>2. AcceptedPlayers \in Seq(Message)
  <2>1. next_id \in Nat /\ next_id <= PlayersCount
    BY DEF TypeOK
  <2>2. \A k \in 1 .. next_id :
           k - 1 \in PlayerId /\ game_players[k - 1] \in Names
    <3> SUFFICES ASSUME NEW k \in 1 .. next_id
                 PROVE  k - 1 \in PlayerId /\ game_players[k - 1] \in Names
      OBVIOUS
    <3>1. k - 1 \in 0 .. (next_id - 1)
      BY <2>1
    <3>2. game_players \in [0 .. (next_id - 1) -> Names]
      BY DEF TypeOK
    <3> QED
      BY <2>1, <3>1, <3>2 DEF PlayerId
  <2>3. \A k \in 1 .. next_id : AcceptedPlayer(k - 1, game_players[k - 1]) \in Message
    BY <2>2, MessageTypes
  <2>4. AcceptedPlayers \in [1 .. next_id -> Message]
    BY <2>3 DEF AcceptedPlayers
  <2> QED
    BY <2>1, <2>4, FunctionIsSequence
<1>3. <<GameStarted(game_players)>> \in Seq(Message)
  BY GameMap, MessageTypes
<1>4. <<GameStarted(game_players)>> \o TurnMessages \in Seq(Message)
  BY <1>1, <1>3, ConcatProperties
<1> QED
  BY <1>2, <1>4 DEF Catchup

--------------------------------------------------------------------------------
(***************************************************************************)
(* The inductive invariant.  Acting and Corner are what the types need:    *)
(* without them a session that has joined could move its robot or lay a    *)
(* bomb, and the status would depend on where its robot is.                *)
(***************************************************************************)
IInv ==
  /\ TypeOK
  /\ OneTimer
  /\ GameIsFull
  /\ TurnsNumbered
  /\ Acting
  /\ Corner

LEMMA EmptyMap ==
  ASSUME NEW S
  PROVE  DOMAIN <<>> = {} /\ <<>> \in [{} -> S]
  OBVIOUS

LEMMA InitInv == Init => IInv
<1> SUFFICES ASSUME Init
             PROVE  IInv
  OBVIOUS
<1>1. TypeOK
  <2>1. sent \in [Session -> Seq(Message)]
    BY SentTypes DEF Init
  <2>2. turns \in Seq(Seq(Event))
    BY EmptySeq DEF Init
  <2>3. moves \in [Session -> Move]
    BY DEF Init, NoMove, ClientMessage, Move, Direction
  <2>4. id \in [Session -> AnyId]
    BY DEF Init, AnyId
  <2>5. game_players \in [0 .. (next_id - 1) -> Names]
    BY DEF Init
  <2>6. /\ DOMAIN bombs \subseteq 0 .. next_bomb
        /\ bombs \in [DOMAIN bombs -> Bomb]
    BY EmptyMap DEF Init
  <2>7. /\ DOMAIN player_positions \subseteq AnyId
        /\ player_positions \in [DOMAIN player_positions -> Position]
    BY EmptyMap DEF Init
  <2>8. /\ next_id \in 0 .. PlayersCount /\ next_bomb \in Nat /\ rng \in Nat
        /\ turn \in 0 .. (U16 - 1)
    BY DEF Init
  <2> QED
    BY <2>1, <2>2, <2>3, <2>4, <2>5, <2>6, <2>7, <2>8 DEF Init, TypeOK
<1>2. OneTimer /\ GameIsFull /\ TurnsNumbered
  BY DEF Init, OneTimer, GameIsFull, TurnsNumbered
<1>3. Acting
  BY DEF Init, Acting, NoMove, ClientMessage
<1>4. Corner
  <2>1. bombs \in Bombs
    <3>1. bombs \in [{} -> Bomb] /\ DOMAIN bombs = {}
      BY EmptyMap DEF Init
    <3>2. {} \in SUBSET (0 .. next_bomb)
      OBVIOUS
    <3> QED
      BY <3>1, <3>2 DEF Bombs
  <2>2. player_positions \in Positions
    <3>1. player_positions \in [{} -> Position] /\ DOMAIN player_positions = {}
      BY EmptyMap DEF Init
    <3>2. {} \in SUBSET AnyId
      OBVIOUS
    <3> QED
      BY <3>1, <3>2 DEF Positions
  <2> QED
    BY <2>1, <2>2 DEF Init, Corner
<1> QED
  BY <1>1, <1>2, <1>3, <1>4 DEF IInv

(***************************************************************************)
(* The handlers that leave the game alone: a connection, an error, a       *)
(* message that is ignored or kept for the turn.                           *)
(***************************************************************************)
LEMMA StatusKept ==
  ASSUME IInv, UNCHANGED <<statusVars, roomVars>>
  PROVE  OneTimer' /\ GameIsFull' /\ TurnsNumbered' /\ Corner'
  BY DEF IInv, statusVars, roomVars, OneTimer, GameIsFull, TurnsNumbered, Corner,
         Bombs, Positions

LEMMA ConnectInv ==
  ASSUME IInv, NEW s \in Session, Connect(s)
  PROVE  IInv'
<1>1. sent' \in [Session -> Seq(Message)]
  <2>1. <<Hello>> \o Catchup \in Seq(Message)
    <3>1. <<Hello>> \in Seq(Message)
      BY MessageTypes
    <3> QED
      BY <3>1, CatchupType, ConcatProperties DEF IInv
  <2> QED
    BY <2>1, SentTypes DEF Connect
<1>2. TypeOK'
  BY <1>1 DEF Connect, IInv, TypeOK, AnyId, statusVars, roomVars
<1>3. Acting'
  BY DEF Connect, IInv, TypeOK, Acting, AnyId, NoMove, ClientMessage
<1> QED
  BY <1>2, <1>3, StatusKept DEF Connect, IInv

LEMMA QuietStepType ==
  ASSUME TypeOK, players' \in SUBSET Session, reading' \in SUBSET players',
         sent' = Quiet, UNCHANGED <<id, moves, statusVars, roomVars>>
  PROVE  TypeOK'
<1>1. sent' \in [Session -> Seq(Message)]
  BY SentTypes
<1>2. UNCHANGED <<id, moves, in_progress, timer, next_id, next_bomb, rng, turn, turns,
                  blocks, bombs, game_players, player_positions>>
  BY DEF statusVars, roomVars
<1> QED
  BY <1>1, <1>2 DEF TypeOK

LEMMA DisconnectInv ==
  ASSUME IInv, NEW s \in Session, Disconnect(s)
  PROVE  IInv'
<1>1. TypeOK'
  <2>1. players' \in SUBSET Session /\ reading' \in SUBSET players'
    BY DEF Disconnect, IInv, TypeOK
  <2> QED
    BY <2>1, QuietStepType DEF Disconnect, IInv
<1>2. Acting'
  BY DEF Disconnect, IInv, Acting
<1> QED
  BY <1>1, <1>2, StatusKept DEF Disconnect, IInv

LEMMA IgnoredInv ==
  ASSUME IInv, NEW s \in Session, JoinIgnored(s) \/ ReceiveUnknown(s)
  PROVE  IInv'
<1>1. TypeOK'
  <2>1. players' \in SUBSET Session /\ reading' \in SUBSET players'
    BY DEF JoinIgnored, ReceiveUnknown, Receive, IInv, TypeOK
  <2> QED
    BY <2>1, QuietStepType DEF JoinIgnored, ReceiveUnknown, IInv
<1>2. Acting'
  BY DEF JoinIgnored, ReceiveUnknown, Receive, IInv, Acting
<1> QED
  BY <1>1, <1>2, StatusKept DEF JoinIgnored, ReceiveUnknown, IInv

LEMMA AddMessageInv ==
  ASSUME IInv, NEW s \in Session, NEW m \in Move,
         m.message \in {"PlaceBomb", "PlaceBlock"}, AddMessage(s, m)
  PROVE  IInv'
<1>1. TypeOK'
  BY SentTypes DEF AddMessage, Receive, IInv, TypeOK, statusVars, roomVars
<1>2. Acting'
  BY DEF AddMessage, Receive, IInv, TypeOK, Acting
<1> QED
  BY <1>1, <1>2, StatusKept DEF AddMessage, IInv

LEMMA MessagesKept ==
  ASSUME IInv, NEW s \in Session,
         \/ ReceivePlaceBomb(s) \/ ReceivePlaceBlock(s)
         \/ \E d \in Direction : ReceiveMove(s, d)
  PROVE  IInv'
<1>1. CASE ReceivePlaceBomb(s)
  <2>1. PlaceBomb \in Move /\ PlaceBomb.message = "PlaceBomb"
    BY DEF PlaceBomb, ClientMessage, Move, Direction
  <2> QED
    BY <1>1, <2>1, AddMessageInv DEF ReceivePlaceBomb
<1>2. CASE ReceivePlaceBlock(s)
  <2>1. PlaceBlock \in Move /\ PlaceBlock.message = "PlaceBlock"
    BY DEF PlaceBlock, ClientMessage, Move, Direction
  <2> QED
    BY <1>2, <2>1, AddMessageInv DEF ReceivePlaceBlock
<1>3. ASSUME NEW d \in Direction, ReceiveMove(s, d)
      PROVE  IInv'
  <2> DEFINE m == ClientMessage("PlaceBomb", d)
  <2>1. m \in Move /\ m.message = "PlaceBomb"
    BY DEF ClientMessage, Move
  <2> HIDE DEF m
  <2>2. AddMessage(s, m)
    BY <1>3 DEF ReceiveMove, m
  <2> QED
    BY <2>1, <2>2, AddMessageInv
<1> QED
  BY <1>1, <1>2, <1>3

(***************************************************************************)
(* resolve_join accepts a player: the ids stay without a gap, and the      *)
(* number of the players is the next id.                                   *)
(***************************************************************************)
LEMMA AcceptFacts ==
  ASSUME IInv, NEW s \in Session, NEW n \in Names, Accept(s, n)
  PROVE  /\ next_id \in PlayerId /\ next_id' \in 1 .. PlayersCount
         /\ game_players' \in [0 .. (next_id' - 1) -> Names]
         /\ game_players' \in PlayerMap
         /\ Cardinality(DOMAIN game_players') = next_id'
         /\ reading' \in SUBSET players' /\ players' \in SUBSET Session
         /\ id' \in [Session -> AnyId]
         /\ UNCHANGED moves => Acting'
<1>1. next_id \in PlayerId /\ next_id' = next_id + 1 /\ next_id' \in 1 .. PlayersCount
  <2>1. next_id \in 0 .. PlayersCount
    BY DEF IInv, TypeOK
  <2>2. next_id # PlayersCount /\ next_id' = next_id + 1
    BY DEF IInv, GameIsFull, Accept
  <2> QED
    BY <2>1, <2>2 DEF PlayerId
<1>2. 0 .. (next_id' - 1) = 0 .. (next_id - 1) \cup {next_id}
  BY <1>1 DEF PlayerId
<1>3. game_players' = [k \in 0 .. (next_id' - 1) |->
                         IF k \in 0 .. (next_id - 1) THEN game_players[k] ELSE n]
  BY <1>2 DEF IInv, GameIsFull, Accept, Insert
<1>4. game_players' \in [0 .. (next_id' - 1) -> Names]
  BY <1>3 DEF IInv, TypeOK
<1>5. game_players' \in PlayerMap
  BY <1>1, <1>4 DEF PlayerMap
<1>6. Cardinality(DOMAIN game_players') = next_id'
  <2>1. Cardinality(0 .. (next_id' - 1)) = next_id'
    BY <1>1, FS_Interval DEF PlayerId
  <2> QED
    BY <1>4, <2>1
<1>7. reading' \in SUBSET players' /\ players' \in SUBSET Session
  BY DEF IInv, TypeOK, Accept, Receive
<1>8. id' \in [Session -> AnyId]
  BY <1>1 DEF IInv, TypeOK, Accept, AnyId
<1>9. UNCHANGED moves => Acting'
  BY DEF IInv, TypeOK, Acting, Accept, Receive
<1> QED
  BY <1>1, <1>4, <1>5, <1>6, <1>7, <1>8, <1>9

LEMMA JoinLobbyInv ==
  ASSUME IInv, NEW s \in Session, NEW n \in Names, JoinLobby(s, n)
  PROVE  IInv'
<1>1. Accept(s, n)
  BY DEF JoinLobby
<1>2. sent' \in [Session -> Seq(Message)]
  <2>1. <<AcceptedPlayer(next_id, n)>> \in Seq(Message)
    BY <1>1, AcceptFacts, MessageTypes
  <2> QED
    BY <2>1, SentTypes DEF JoinLobby
<1>3. TypeOK'
  <2>1. next_id' \in 0 .. PlayersCount
    BY <1>1, AcceptFacts
  <2>2. /\ turn' \in 0 .. (U16 - 1) /\ turns' \in Seq(Seq(Event))
        /\ in_progress' \in BOOLEAN /\ timer' \in BOOLEAN
        /\ next_bomb' \in Nat /\ rng' \in Nat
        /\ moves' \in [Session -> Move]
    BY DEF JoinLobby, IInv, TypeOK
  <2>3. /\ blocks' \in SUBSET Position
        /\ DOMAIN bombs' \subseteq 0 .. next_bomb'
        /\ bombs' \in [DOMAIN bombs' -> Bomb]
        /\ DOMAIN player_positions' \subseteq AnyId
        /\ player_positions' \in [DOMAIN player_positions' -> Position]
    BY DEF JoinLobby, IInv, TypeOK
  <2> QED
    BY <1>1, <1>2, <2>1, <2>2, <2>3, AcceptFacts DEF TypeOK
<1>4. OneTimer' /\ TurnsNumbered'
  BY DEF JoinLobby, IInv, OneTimer, TurnsNumbered
<1>5. GameIsFull'
  BY <1>1, AcceptFacts DEF JoinLobby, Accept, IInv, GameIsFull
<1>6. Acting'
  BY <1>1, AcceptFacts DEF JoinLobby
<1>7. Corner'
  BY DEF JoinLobby, IInv, Corner, Bombs, Positions
<1> QED
  BY <1>3, <1>4, <1>5, <1>6, <1>7 DEF IInv

(***************************************************************************)
(* The player that fills the lobby starts the game (init_game).            *)
(***************************************************************************)
LEMMA StartPositionsType ==
  ASSUME IInv
  PROVE  StartPositions \in Positions
<1> DEFINE D == PlayerId \cup DOMAIN player_positions
<1>1. PICK E \in SUBSET AnyId : player_positions \in [E -> Position]
  BY DEF IInv, Corner, Positions
<1>2. \A i \in PlayerId : DrawnPosition(i) \in Position
  <2> SUFFICES ASSUME NEW i \in PlayerId
               PROVE  DrawnPosition(i) \in Position
    OBVIOUS
  <2>1. i \in 0 .. (PlayersCount + InitialBlocks - 1)
    BY DEF PlayerId
  <2> QED
    BY <2>1, DrawnOnBoard DEF IInv, TypeOK
<1>3. StartPositions \in [D -> Position]
  BY <1>1, <1>2 DEF StartPositions
<1>4. D \in SUBSET AnyId
  BY <1>1 DEF AnyId
<1>5. NoPlayer \in D => StartPositions[NoPlayer] = Origin
  <2>1. NoPlayer \notin PlayerId
    BY DEF NoPlayer, PlayerId
  <2> QED
    BY <2>1 DEF StartPositions, IInv, Corner, Positions
<1> QED
  BY <1>3, <1>4, <1>5 DEF Positions

LEMMA JoinStartInv ==
  ASSUME IInv, NEW s \in Session, NEW n \in Names, JoinStart(s, n)
  PROVE  IInv'
<1>1. Accept(s, n)
  BY DEF JoinStart
<1>2. rng \in Nat /\ StartEvents \in Seq(Event)
  BY StartEventsType DEF IInv, TypeOK
<1>3. turns' = <<StartEvents>> /\ turn' = 1
  <2>1. turns = <<>>
    BY <1>1 DEF IInv, TurnsNumbered, Accept
  <2>2. SubSeq(turns, 2, Len(turns)) = <<>>
    BY <2>1
  <2>3. <<StartEvents>> \o <<>> = <<StartEvents>>
    BY <1>2, ConcatEmptySeq
  <2> QED
    BY <2>2, <2>3 DEF JoinStart
<1>4. sent' \in [Session -> Seq(Message)]
  <2>1. AcceptedPlayer(next_id, n) \in Message /\ GameStarted(game_players') \in Message
    BY <1>1, AcceptFacts, MessageTypes
  <2>2. Turn(0, StartEvents) \in Message
    BY <1>2, MessageTypes
  <2>3. <<AcceptedPlayer(next_id, n), GameStarted(game_players'),
          Turn(0, StartEvents)>> \in Seq(Message)
    BY <2>1, <2>2
  <2> QED
    BY <2>3, SentTypes DEF JoinStart
<1>5. turns' \in Seq(Seq(Event))
  BY <1>2, <1>3
<1>6. blocks' \in SUBSET Position
  <2>1. blocks \in SUBSET Position /\ InitialBlocks \in 0 .. InitialBlocks
    <3>1. blocks \in SUBSET Position
      BY DEF IInv, TypeOK
    <3>2. InitialBlocks \in 0 .. InitialBlocks
      BY BlocksAssumption
    <3> QED
      BY <3>1, <3>2
  <2>2. BlocksDrawn(InitialBlocks) \in SUBSET Position
    BY <1>2, <2>1, BlocksOnBoard
  <2> QED
    BY <2>2 DEF JoinStart
<1>7. rng' \in Nat
  <2>1. Draws \in 0 .. Draws
    BY DEF Draws
  <2> QED
    BY <1>2, <2>1, RandomType DEF JoinStart
<1>8. player_positions' \in Positions
  BY StartPositionsType DEF JoinStart
<1>9. /\ DOMAIN player_positions' \subseteq AnyId
      /\ player_positions' \in [DOMAIN player_positions' -> Position]
  BY <1>8 DEF Positions
<1>10. TypeOK'
  <2>1. turn' \in 0 .. (U16 - 1)
    BY <1>3
  <2>2. timer' \in BOOLEAN /\ in_progress' \in BOOLEAN
    BY DEF JoinStart, HandleTurn
  <2>3. next_id' \in 0 .. PlayersCount /\ next_bomb' \in Nat
    <3>1. next_id' \in 1 .. PlayersCount
      BY <1>1, AcceptFacts
    <3>2. next_bomb' = next_bomb /\ next_bomb \in Nat
      BY DEF JoinStart, IInv, TypeOK
    <3> QED
      BY <3>1, <3>2
  <2>4. /\ DOMAIN bombs' \subseteq 0 .. next_bomb'
        /\ bombs' \in [DOMAIN bombs' -> Bomb]
        /\ moves' \in [Session -> Move]
    BY DEF JoinStart, IInv, TypeOK
  <2> QED
    BY <1>1, <1>4, <1>5, <1>6, <1>7, <1>9, <2>1, <2>2, <2>3, <2>4, AcceptFacts
       DEF TypeOK
<1>11. OneTimer'
  BY DEF JoinStart, HandleTurn, OneTimer
<1>12. GameIsFull'
  BY <1>1, AcceptFacts DEF JoinStart, GameIsFull
<1>13. TurnsNumbered'
  BY <1>3 DEF JoinStart, TurnsNumbered
<1>14. Acting'
  BY <1>1, AcceptFacts DEF JoinStart
<1>15. Corner'
  <2>1. bombs' \in Bombs' /\ next_bomb' = 0
    BY DEF JoinStart, IInv, Corner, Bombs
  <2> QED
    BY <1>8, <2>1 DEF Corner, Positions
<1> QED
  BY <1>10, <1>11, <1>12, <1>13, <1>14, <1>15 DEF IInv

(***************************************************************************)
(* The timer.                                                              *)
(***************************************************************************)
LEMMA NextTurnInv ==
  ASSUME IInv, NextTurn
  PROVE  IInv'
<1>1. in_progress /\ turn = Len(turns) /\ turn \in 1 .. (GameLength - 1)
  BY DEF IInv, OneTimer, TurnsNumbered, NextTurn
<1>2. PlayedStatus \in Status /\ TurnEvents \in Seq(Event)
  BY PlayedStatusType, TurnEventsType DEF IInv
<1>3. turns' \in Seq(Seq(Event)) /\ Len(turns') = Len(turns) + 1
  <2>1. turns \in Seq(Seq(Event)) /\ turns' = Append(turns, TurnEvents)
    BY DEF IInv, TypeOK, NextTurn
  <2> QED
    BY <1>2, <2>1, AppendProperties
<1>4. turn' = turn + 1 /\ turn' \in 1 .. GameLength /\ turn' \in 0 .. (U16 - 1)
  <2>1. turn' = (turn + 1) % U16
    BY DEF NextTurn
  <2> QED
    BY <1>1, <2>1
<1>5. sent' \in [Session -> Seq(Message)]
  <2>1. Turn(turn, TurnEvents) \in Message
    BY <1>1, <1>2, MessageTypes
  <2>2. <<Turn(turn, TurnEvents)>> \in Seq(Message)
    BY <2>1
  <2> QED
    BY <2>2, SentTypes DEF NextTurn
<1>6. bombs' \in Bombs
  <2>1. PlayedStatus.bombs \in Bombs
    BY <1>2 DEF Status
  <2> QED
    BY <2>1, TickBombs DEF NextTurn, TickedBombs
<1>7. player_positions' \in Positions /\ blocks' \in SUBSET Position
  BY <1>2 DEF NextTurn, Status
<1>8. Corner'
  <2>1. next_bomb' = next_bomb
    BY DEF NextTurn
  <2> QED
    BY <1>6, <1>7, <2>1 DEF IInv, Corner, Bombs, Positions
<1>9. TypeOK'
  <2>1. /\ DOMAIN bombs' \subseteq 0 .. next_bomb'
        /\ bombs' \in [DOMAIN bombs' -> Bomb]
    <3>1. next_bomb' = next_bomb
      BY DEF NextTurn
    <3> QED
      BY <1>6, <3>1 DEF Bombs
  <2>2. /\ DOMAIN player_positions' \subseteq AnyId
        /\ player_positions' \in [DOMAIN player_positions' -> Position]
    BY <1>7 DEF Positions
  <2>3. moves' \in [Session -> Move]
    BY DEF NextTurn, NoMove, ClientMessage, Move, Direction
  <2>4. timer' \in BOOLEAN
    BY DEF NextTurn, HandleTurn
  <2>5. /\ players' \in SUBSET Session /\ reading' \in SUBSET players'
        /\ id' \in [Session -> AnyId]
        /\ in_progress' \in BOOLEAN
        /\ next_id' \in 0 .. PlayersCount /\ next_bomb' \in Nat /\ rng' \in Nat
        /\ game_players' \in [0 .. (next_id' - 1) -> Names]
    BY DEF NextTurn, IInv, TypeOK, sessionVars
  <2> QED
    BY <1>3, <1>4, <1>5, <1>7, <2>1, <2>2, <2>3, <2>4, <2>5 DEF TypeOK
<1>10. OneTimer'
  BY <1>1 DEF NextTurn, HandleTurn, OneTimer
<1>11. GameIsFull'
  BY DEF NextTurn, IInv, GameIsFull
<1>12. TurnsNumbered'
  BY <1>1, <1>3, <1>4 DEF NextTurn, TurnsNumbered
<1>13. Acting'
  BY DEF NextTurn, IInv, Acting, sessionVars, NoMove, ClientMessage
<1> QED
  BY <1>8, <1>9, <1>10, <1>11, <1>12, <1>13 DEF IInv

LEMMA LastTurnInv ==
  ASSUME IInv, LastTurn
  PROVE  IInv'
<1>1. TurnEvents \in Seq(Event) /\ turn \in Nat
  <2>1. TurnEvents \in Seq(Event)
    BY TurnEventsType DEF IInv
  <2>2. turn \in Nat
    BY DEF IInv, TypeOK
  <2> QED
    BY <2>1, <2>2
<1>2. sent' \in [Session -> Seq(Message)]
  <2>1. Turn(turn, TurnEvents) \in Message /\ GameEnded(<<>>) \in Message
    BY <1>1, MessageTypes
  <2>2. <<Turn(turn, TurnEvents), GameEnded(<<>>)>> \in Seq(Message)
    BY <2>1
  <2> QED
    BY <2>2, SentTypes DEF LastTurn
<1>3. bombs' = <<>> /\ player_positions' = <<>> /\ game_players' = <<>> /\ turns' = <<>>
  BY DEF LastTurn, ResetState
<1>4. Corner'
  <2>1. bombs' \in Bombs'
    <3>1. bombs' \in [{} -> Bomb] /\ DOMAIN bombs' = {}
      BY <1>3, EmptyMap
    <3>2. {} \in SUBSET (0 .. next_bomb')
      OBVIOUS
    <3> QED
      BY <3>1, <3>2 DEF Bombs
  <2>2. player_positions' \in Positions
    <3>1. player_positions' \in [{} -> Position] /\ DOMAIN player_positions' = {}
      BY <1>3, EmptyMap
    <3>2. {} \in SUBSET AnyId
      OBVIOUS
    <3> QED
      BY <3>1, <3>2 DEF Positions
  <2>3. next_bomb' = 0
    BY DEF LastTurn, ResetState
  <2> QED
    BY <2>1, <2>2, <2>3 DEF Corner, Positions
<1>5. TypeOK'
  <2>1. /\ DOMAIN bombs' \subseteq 0 .. next_bomb'
        /\ bombs' \in [DOMAIN bombs' -> Bomb]
        /\ DOMAIN player_positions' \subseteq AnyId
        /\ player_positions' \in [DOMAIN player_positions' -> Position]
    BY <1>3, EmptyMap
  <2>2. /\ turns' \in Seq(Seq(Event))
        /\ blocks' \in SUBSET Position
        /\ next_id' = 0 /\ next_bomb' \in Nat /\ rng' \in Nat
        /\ in_progress' \in BOOLEAN /\ timer' \in BOOLEAN
    BY <1>3, EmptySeq DEF LastTurn, ResetState
  <2>3. game_players' \in [0 .. (next_id' - 1) -> Names] /\ next_id' \in 0 .. PlayersCount
    BY <1>3, <2>2
  <2>4. moves' \in [Session -> Move]
    BY DEF LastTurn, NoMove, ClientMessage, Move, Direction
  <2>5. /\ players' \in SUBSET Session /\ reading' \in SUBSET players'
        /\ id' \in [Session -> AnyId]
        /\ turn' \in 0 .. (U16 - 1)
    BY DEF LastTurn, IInv, TypeOK, sessionVars
  <2> QED
    BY <1>2, <2>1, <2>2, <2>3, <2>4, <2>5 DEF TypeOK
<1>6. OneTimer' /\ TurnsNumbered'
  BY DEF LastTurn, ResetState, OneTimer, TurnsNumbered
<1>7. GameIsFull'
  BY <1>3 DEF LastTurn, ResetState, GameIsFull
<1>8. Acting'
  BY DEF LastTurn, IInv, Acting, sessionVars, NoMove, ClientMessage
<1> QED
  BY <1>4, <1>5, <1>6, <1>7, <1>8 DEF IInv

--------------------------------------------------------------------------------
LEMMA StepInv ==
  ASSUME IInv, [Next]_vars
  PROVE  IInv'
<1>1. ASSUME NEW s \in Session, Connect(s) \/ Disconnect(s) \/ JoinIgnored(s)
      PROVE  IInv'
  BY <1>1, ConnectInv, DisconnectInv, IgnoredInv
<1>2. ASSUME NEW s \in Session, NEW n \in Names, JoinLobby(s, n) \/ JoinStart(s, n)
      PROVE  IInv'
  BY <1>2, JoinLobbyInv, JoinStartInv
<1>3. ASSUME NEW s \in Session,
             \/ ReceivePlaceBomb(s) \/ ReceivePlaceBlock(s)
             \/ \E d \in Direction : ReceiveMove(s, d)
      PROVE  IInv'
  BY <1>3, MessagesKept
<1>4. ASSUME NEW s \in Session, ReceiveUnknown(s)
      PROVE  IInv'
  BY <1>4, IgnoredInv
<1>5. CASE TurnTimer
  BY <1>5, NextTurnInv, LastTurnInv DEF TurnTimer
<1>6. CASE UNCHANGED vars
  <2>1. UNCHANGED <<statusVars, roomVars, sessionVars, moves, sent>>
    BY <1>6 DEF vars
  <2>2. TypeOK'
    BY <2>1 DEF IInv, TypeOK, statusVars, roomVars, sessionVars
  <2>3. Acting'
    BY <2>1 DEF IInv, Acting, sessionVars
  <2> QED
    BY <2>1, <2>2, <2>3, StatusKept DEF IInv
<1> QED
  BY <1>1, <1>2, <1>3, <1>4, <1>5, <1>6 DEF Next, SessionStep

LEMMA Invariance == Spec => []IInv
<1> QED
  BY InitInv, StepInv, PTL DEF Spec

(***************************************************************************)
(* Type correctness of the room.                                           *)
(***************************************************************************)
THEOREM TypeCorrect == Spec => []TypeOK
<1>1. IInv => TypeOK
  BY DEF IInv
<1> QED
  BY <1>1, Invariance, PTL

(***************************************************************************)
(* The one timer of the room is never armed twice and never missing: no    *)
(* wait is aborted, and so handle_turn never takes its exit(1).            *)
(***************************************************************************)
THEOREM TimerArmedOnce == Spec => []OneTimer
<1>1. IInv => OneTimer
  BY DEF IInv
<1> QED
  BY <1>1, Invariance, PTL

(***************************************************************************)
(* The lobby fills with ids 0, 1, ... and a game starts exactly when it is *)
(* full, also after other games of the same room (resolve_join,            *)
(* reset_state).                                                           *)
(***************************************************************************)
THEOREM LobbyFills == Spec => []GameIsFull
<1>1. IInv => GameIsFull
  BY DEF IInv
<1> QED
  BY <1>1, Invariance, PTL

(***************************************************************************)
(* The turns kept for late observers are numbered as they were sent, and a *)
(* game never passes game_length (handle_turn, reset_state).               *)
(***************************************************************************)
THEOREM TurnsKept == Spec => []TurnsNumbered
<1>1. IInv => TurnsNumbered
  BY DEF IInv
<1> QED
  BY <1>1, Invariance, PTL

(***************************************************************************)
(* On every board, with every radius and every arrangement of blocks,      *)
(* every bomb of a game would explode in the cross of the rules, in spite  *)
(* of the wrong bound of the loop going up (GameRoom::explode_bombs): all  *)
(* bombs stand in the corner, which is on the diagonal, where the bound    *)
(* happens to be right.                                                    *)
(***************************************************************************)
THEOREM CornerBombsAreCrosses == Spec => []BlastsAreCrosses
<1>1. ASSUME IInv, NEW b \in DOMAIN bombs, NEW bs \in SUBSET blocks
      PROVE  ServerBlast(bombs[b].position, bs) = Cross(bombs[b].position, bs)
  <2>1. bombs[b].position = Origin
    BY <1>1 DEF IInv, Corner, Bombs
  <2>2. Origin.x <= Origin.y /\ Origin.x >= Origin.y
    BY DEF Origin
  <2>3. bs \in SUBSET Position
    BY <1>1 DEF IInv, TypeOK
  <2>4. ServerBlast(Origin, bs) \subseteq Cross(Origin, bs)
    BY <2>2, <2>3, CornerOnBoard, BlastLeftOfDiagonal
  <2>5. Cross(Origin, bs) \subseteq ServerBlast(Origin, bs)
    BY <2>2, <2>3, CornerOnBoard, BlastRightOfDiagonal
  <2> QED
    BY <2>1, <2>4, <2>5
<1>2. IInv => BlastsAreCrosses
  BY <1>1 DEF BlastsAreCrosses
<1> QED
  BY <1>2, Invariance, PTL

(***************************************************************************)
(* On every board a game can come to, the error of the wrong bound has one *)
(* sign on each side of the diagonal, and none on it                       *)
(* (GameRoom::explode_bombs).                                              *)
(***************************************************************************)
THEOREM BlastsErrOneWay == Spec => []BlastErrsOneWay
<1>1. IInv => BlastErrsOneWay
  BY ErrsOneWay DEF IInv, TypeOK, BlastErrsOneWay, BlastTooSmall, BlastTooLarge
<1> QED
  BY <1>1, Invariance, PTL

(***************************************************************************)
(* On every board a game can come to, the client would draw no less than   *)
(* the cross from the server's report, and exactly the cross but for a     *)
(* bomb left of the diagonal (Client::resolve(BombExploded)).              *)
(***************************************************************************)
THEOREM ClientsDrawCrosses == Spec => []ClientDrawsCross
<1>1. ASSUME IInv, NEW p \in Position
      PROVE  /\ p \notin DrawnTooSmall(blocks)
             /\ p \in DrawnTooLarge(blocks) => p.x < p.y
  <2>1. blocks \in SUBSET Position
    BY <1>1 DEF IInv, TypeOK
  <2>2. p \notin DrawnTooSmall(blocks)
    BY <2>1, ClientIsRight DEF DrawnTooSmall
  <2>3. p \in DrawnTooLarge(blocks) => ~ (p.x >= p.y)
    BY <2>1, ClientIsRight DEF DrawnTooLarge
  <2> QED
    BY <2>2, <2>3, BoardAssumption DEF Position
<1>2. IInv => ClientDrawsCross
  BY <1>1 DEF ClientDrawsCross, DrawnTooSmall, DrawnTooLarge
<1> QED
  BY <1>2, Invariance, PTL


--------------------------------------------------------------------------------
(***************************************************************************)
(* What the events of a game say, for every game: they tell the status of  *)
(* the room, and every fuse burns for bomb_timer turns.  First, events as  *)
(* a set.                                                                  *)
(***************************************************************************)
LEMMA RangeOfAppend ==
  ASSUME NEW S, NEW s \in Seq(S), NEW e \in S
  PROVE  Range(Append(s, e)) = Range(s) \cup {e}
<1> DEFINE t == <<e>>
<1>1. t \in Seq(S) /\ Len(t) = 1 /\ t[1] = e /\ Append(s, e) = s \o t
  BY AppendIsConcat
<1> HIDE DEF t
<1>2. Range(t) = {e}
  <2>1. Range(t) = {t[i] : i \in 1 .. 1}
    BY <1>1, RangeEquality
  <2> QED
    BY <1>1, <2>1
<1>3. Range(s \o t) = Range(s) \cup Range(t)
  BY <1>1, RangeConcatenation
<1> QED
  BY <1>1, <1>2, <1>3

LEMMA RangeOfEmpty == Range(<<>>) = {}
  BY DEF Range

LEMMA EventInRange ==
  ASSUME turns \in Seq(Seq(Event)), NEW k \in 1 .. Len(turns)
  PROVE  /\ turns[k] \in Seq(Event)
         /\ \A e : EventAt(e, k) <=> e \in Range(turns[k])
<1>1. turns[k] \in Seq(Event)
  <2> DEFINE Events == Seq(Event)
  <2>1. turns \in Seq(Events)
    OBVIOUS
  <2> HIDE DEF Events
  <2>2. turns[k] \in Events
    BY <2>1, ElementOfSeq
  <2> QED
    BY <2>2 DEF Events
<1>2. Range(turns[k]) = {turns[k][i] : i \in 1 .. Len(turns[k])}
  BY <1>1, RangeEquality
<1> QED
  BY <1>1, <1>2 DEF EventAt

LEMMA EventsDiffer ==
  /\ \A b, p : BombPlaced(b, p).type = "BombPlaced"
  /\ \A b, p, c, q : BombPlaced(b, p) = BombPlaced(c, q) => b = c /\ p = q
  /\ \A p : BlockPlaced(p).type = "BlockPlaced"
  /\ \A p, q : BlockPlaced(p) = BlockPlaced(q) => p = q
  /\ \A i, p : PlayerMoved(i, p).type = "PlayerMoved"
  /\ \A i, p, j, q : PlayerMoved(i, p) = PlayerMoved(j, q) => i = j /\ p = q
  /\ \A b, r, d : BombExploded(b, r, d).type = "BombExploded" /\ BombExploded(b, r, d).bomb = b
<1>1. \A b, p : BombPlaced(b, p).type = "BombPlaced" /\ BombPlaced(b, p).bomb = b
                /\ BombPlaced(b, p).position = p
  BY DEF BombPlaced
<1>2. \A p : BlockPlaced(p).type = "BlockPlaced" /\ BlockPlaced(p).position = p
  BY DEF BlockPlaced
<1>3. \A i, p : PlayerMoved(i, p).type = "PlayerMoved" /\ PlayerMoved(i, p).player = i
                /\ PlayerMoved(i, p).position = p
  BY DEF PlayerMoved
<1>4. \A b, p, c, q : BombPlaced(b, p) = BombPlaced(c, q) => b = c /\ p = q
  BY <1>1
<1>5. \A p, q : BlockPlaced(p) = BlockPlaced(q) => p = q
  BY <1>2
<1>6. \A i, p, j, q : PlayerMoved(i, p) = PlayerMoved(j, q) => i = j /\ p = q
  BY <1>3
<1>7. \A b, r, d : BombExploded(b, r, d).type = "BombExploded" /\ BombExploded(b, r, d).bomb = b
  BY DEF BombExploded
<1> QED
  BY <1>1, <1>2, <1>3, <1>4, <1>5, <1>6, <1>7

--------------------------------------------------------------------------------
(***************************************************************************)
(* Turn 0: a move for every player, and a BlockPlaced for every block.     *)
(***************************************************************************)
LEMMA BlockEventsRange ==
  ASSUME rng \in Nat
  PROVE  Range(BlockEvents[InitialBlocks]) =
           {BlockPlaced(p) : p \in BlocksDrawn(InitialBlocks) \ blocks}
<1> DEFINE Told(k) == {BlockPlaced(p) : p \in BlocksDrawn(k) \ blocks}
           T == {k \in 0 .. InitialBlocks : Range(BlockEvents[k]) = Told(k)}
<1>1. 0 \in T
  <2>1. BlockEvents[0] = <<>>
    BY BlockEventsDefined
  <2>2. BlocksDrawn(0) = blocks
    BY DEF BlocksDrawn
  <2> QED
    BY <2>1, <2>2, RangeOfEmpty
<1>2. ASSUME NEW k \in 0 .. (InitialBlocks - 1), k \in T
      PROVE  k + 1 \in T
  <2> DEFINE d == DrawnBlock(k + 1)
  <2>1. k + 1 \in 1 .. InitialBlocks /\ (k + 1) - 1 = k /\ k + 1 \in 0 .. InitialBlocks
        /\ k + 1 # 0
    OBVIOUS
  <2>2. BlockEvents[k] \in Seq(Event) /\ Range(BlockEvents[k]) = Told(k)
    BY <1>2, BlockEventsType
  <2>3. d \in Position /\ BlockPlaced(d) \in Event
    BY <2>1, DrawnOnBoard, EventTypes DEF DrawnBlock
  <2>4. BlocksDrawn(k + 1) = BlocksDrawn(k) \cup {d}
    <3>1. 1 .. (k + 1) = 1 .. k \cup {k + 1}
      OBVIOUS
    <3> QED
      BY <3>1 DEF BlocksDrawn
  <2> HIDE DEF d
  <2>5. BlockEvents[k + 1] = IF d \in BlocksDrawn(k) THEN BlockEvents[k]
                             ELSE Append(BlockEvents[k], BlockPlaced(d))
    BY <2>1, BlockEventsDefined DEF d
  <2>6. CASE d \in BlocksDrawn(k)
    <3>1. BlocksDrawn(k + 1) = BlocksDrawn(k)
      BY <2>4, <2>6
    <3> QED
      BY <2>1, <2>2, <2>5, <2>6, <3>1
  <2>7. CASE d \notin BlocksDrawn(k)
    <3>1. d \notin blocks
      BY <2>7 DEF BlocksDrawn
    <3>2. Told(k + 1) = Told(k) \cup {BlockPlaced(d)}
      BY <2>4, <3>1
    <3>3. Range(Append(BlockEvents[k], BlockPlaced(d))) = Range(BlockEvents[k]) \cup {BlockPlaced(d)}
      BY <2>2, <2>3, RangeOfAppend
    <3>4. BlockEvents[k + 1] = Append(BlockEvents[k], BlockPlaced(d))
      BY <2>5, <2>7
    <3> QED
      BY <2>1, <2>2, <3>2, <3>3, <3>4
  <2> QED
    BY <2>6, <2>7
<1> HIDE DEF T
<1>3. \A k \in 0 .. InitialBlocks : k \in T
  BY <1>1, <1>2, IntervalInduction
<1>4. InitialBlocks \in T
  BY <1>3
<1> QED
  BY <1>4 DEF T

LEMMA StartEventsRange ==
  ASSUME rng \in Nat
  PROVE  Range(StartEvents) =
           {PlayerMoved(i, DrawnPosition(i)) : i \in PlayerId}
             \cup {BlockPlaced(p) : p \in BlocksDrawn(InitialBlocks) \ blocks}
<1>1. \A k \in 1 .. PlayersCount : PlayerMoved(k - 1, DrawnPosition(k - 1)) \in Event
  <2> SUFFICES ASSUME NEW k \in 1 .. PlayersCount
               PROVE  PlayerMoved(k - 1, DrawnPosition(k - 1)) \in Event
    OBVIOUS
  <2>1. k - 1 \in AnyId
    BY DEF AnyId, PlayerId
  <2>2. DrawnPosition(k - 1) \in Position
    BY DrawnOnBoard
  <2> QED
    BY <2>1, <2>2, EventTypes
<1>2. StartMoves \in [1 .. PlayersCount -> Event]
  BY <1>1 DEF StartMoves
<1>3. StartMoves \in Seq(Event) /\ Len(StartMoves) = PlayersCount
  BY <1>2, FunctionIsSequence
<1>4. Range(StartMoves) = {PlayerMoved(k - 1, DrawnPosition(k - 1)) : k \in 1 .. PlayersCount}
  <2>1. Range(StartMoves) = {StartMoves[k] : k \in 1 .. PlayersCount}
    BY <1>3, RangeEquality
  <2>2. \A k \in 1 .. PlayersCount : StartMoves[k] = PlayerMoved(k - 1, DrawnPosition(k - 1))
    BY DEF StartMoves
  <2> QED
    BY <2>1, <2>2
<1>5. Range(StartMoves) = {PlayerMoved(i, DrawnPosition(i)) : i \in PlayerId}
  <2>1. \A k \in 1 .. PlayersCount : k - 1 \in PlayerId
    BY DEF PlayerId
  <2>2. \A i \in PlayerId : i + 1 \in 1 .. PlayersCount /\ (i + 1) - 1 = i
    BY DEF PlayerId
  <2>3. ASSUME NEW i \in PlayerId
        PROVE  PlayerMoved(i, DrawnPosition(i)) \in Range(StartMoves)
    <3>1. PlayerMoved((i + 1) - 1, DrawnPosition((i + 1) - 1)) \in Range(StartMoves)
      BY <1>4, <2>2
    <3> QED
      BY <2>2, <3>1
  <2>4. ASSUME NEW e \in Range(StartMoves)
        PROVE  e \in {PlayerMoved(i, DrawnPosition(i)) : i \in PlayerId}
    BY <1>4, <2>1
  <2> QED
    BY <2>3, <2>4
<1>6. BlockEvents[InitialBlocks] \in Seq(Event)
  BY BlockEventsType
<1>7. Range(StartEvents) = Range(StartMoves) \cup Range(BlockEvents[InitialBlocks])
  BY <1>3, <1>6, RangeConcatenation DEF StartEvents
<1> QED
  BY <1>5, <1>7, BlockEventsRange

--------------------------------------------------------------------------------
(***************************************************************************)
(* A later turn.  While its messages are resolved, the status differs from *)
(* the room's by the bomb that the events tell of, and the robots of the   *)
(* players stay where they are.                                            *)
(***************************************************************************)
Laid(es) == IF BombPlaced(0, Origin) \in Range(es) THEN {0} ELSE {}

PlacingOnly(es) ==
  \A e \in Range(es) : e = BombPlaced(0, Origin) \/ (e = BlockPlaced(Origin) /\ Origin \in blocks)

Faithful(st) ==
  /\ st \in Status
  /\ st.blocks = blocks
  /\ \A i \in PlayerId : i \in DOMAIN player_positions =>
       i \in DOMAIN st.positions /\ st.positions[i] = player_positions[i]
  /\ PlacingOnly(st.events)
  /\ DOMAIN st.bombs = DOMAIN bombs \cup Laid(st.events)
  /\ \A b \in DOMAIN st.bombs :
       st.bombs[b].timer = IF b \in DOMAIN bombs THEN bombs[b].timer ELSE BombTimer

LEMMA TouchKeeps ==
  ASSUME NEW st, Faithful(st)
  PROVE  \A i \in PlayerId : i \in DOMAIN player_positions =>
           /\ i \in DOMAIN Touch(st.positions, NoPlayer)
           /\ Touch(st.positions, NoPlayer)[i] = player_positions[i]
  BY DEF Touch, Insert, Faithful

LEMMA FaithfulStep ==
  ASSUME IInv, NEW s \in Session, NEW st, Faithful(st)
  PROVE  Faithful(Resolve(st, s))
<1> DEFINE ps == Touch(st.positions, NoPlayer)
           new == Resolve(st, s)
<1>0. st \in Status /\ new \in Status
  BY ResolveStatus DEF Faithful, IInv, Corner
<1>1. st.positions \in Positions /\ st.bombs \in Bombs
      /\ st.blocks \in SUBSET Position /\ st.events \in Seq(Event)
  BY <1>0 DEF Status
<1>2. ps \in Positions /\ ps[NoPlayer] = Origin
  BY <1>1, TouchPositions
<1>3. CASE moves[s].message = "None"
  BY <1>3 DEF Resolve
<1>4. CASE moves[s].message = "PlaceBomb"
  <2>1. id[s] = NoPlayer /\ next_bomb = 0
    BY <1>4 DEF IInv, Acting, Corner, NoMove, ClientMessage
  <2> DEFINE bomb == [position |-> Origin, timer |-> BombTimer]
             bs == Insert(st.bombs, 0, bomb)
             es == Append(st.events, BombPlaced(0, Origin))
  <2>2. Touch(st.positions, id[s]) = ps /\ ps[id[s]] = Origin
    BY <1>2, <2>1
  <2>3. new = [st EXCEPT !.positions = ps, !.bombs = bs, !.events = es]
    <3> HIDE DEF ps
    <3> QED
      BY <1>4, <2>1, <2>2 DEF Resolve, ResolvePlaceBomb
  <2>4. Range(es) = Range(st.events) \cup {BombPlaced(0, Origin)}
    <3>1. BombPlaced(0, Origin) \in Event
      BY CornerOnBoard, EventTypes
    <3> QED
      BY <1>1, <3>1, RangeOfAppend
  <2>5. DOMAIN bs = DOMAIN bombs \cup {0}
    BY DEF Insert, Faithful, Laid
  <2>6. \A b \in DOMAIN bs : bs[b].timer = IF b \in DOMAIN bombs THEN bombs[b].timer ELSE BombTimer
    <3> SUFFICES ASSUME NEW b \in DOMAIN bs
                 PROVE  bs[b].timer = IF b \in DOMAIN bombs THEN bombs[b].timer ELSE BombTimer
      OBVIOUS
    <3>1. CASE b \in DOMAIN st.bombs
      <4>1. bs[b] = st.bombs[b]
        BY <3>1 DEF Insert
      <4> HIDE DEF bs
      <4> QED
        BY <3>1, <4>1 DEF Faithful
    <3>2. CASE b \notin DOMAIN st.bombs
      <4>1. bs[b] = bomb /\ b \notin DOMAIN bombs
        BY <3>2 DEF Insert, Faithful
      <4> HIDE DEF bs
      <4> QED
        BY <4>1
    <3> QED
      BY <3>1, <3>2
  <2> HIDE DEF ps, bs, es
  <2>7. /\ new.positions = ps /\ new.bombs = bs /\ new.events = es
        /\ new.blocks = st.blocks
    BY <1>0, <2>3 DEF Status
  <2> HIDE DEF new
  <2>8. PlacingOnly(es)
    BY <2>4 DEF Faithful, PlacingOnly
  <2>9. Laid(es) = {0}
    BY <2>4 DEF Laid
  <2>10. \A i \in PlayerId : i \in DOMAIN player_positions =>
            i \in DOMAIN ps /\ ps[i] = player_positions[i]
    BY TouchKeeps DEF ps
  <2>11. new \in Status /\ new.blocks = blocks /\ PlacingOnly(new.events)
    BY <1>0, <2>7, <2>8 DEF Faithful, new
  <2>12. DOMAIN new.bombs = DOMAIN bombs \cup Laid(new.events)
    BY <2>5, <2>7, <2>9
  <2>13. \A b \in DOMAIN new.bombs :
            new.bombs[b].timer = IF b \in DOMAIN bombs THEN bombs[b].timer ELSE BombTimer
    BY <2>6, <2>7
  <2>14. \A i \in PlayerId : i \in DOMAIN player_positions =>
            i \in DOMAIN new.positions /\ new.positions[i] = player_positions[i]
    BY <2>7, <2>10
  <2>15. Faithful(new)
    BY <2>11, <2>12, <2>13, <2>14 DEF Faithful
  <2> QED
    BY <2>15 DEF new
<1>5. CASE moves[s].message = "PlaceBlock"
  <2>1. id[s] = NoPlayer
    BY <1>5 DEF IInv, Acting, NoMove, ClientMessage
  <2> DEFINE es == Append(st.events, BlockPlaced(Origin))
  <2>2. Touch(st.positions, id[s]) = ps /\ ps[id[s]] = Origin
    BY <1>2, <2>1
  <2>3. new = IF Origin \in st.blocks
              THEN [st EXCEPT !.positions = ps, !.blocks = st.blocks \cup {Origin},
                              !.events = es]
              ELSE [st EXCEPT !.positions = ps]
    <3> HIDE DEF ps
    <3> QED
      BY <1>5, <2>2 DEF Resolve, ResolvePlaceBlock
  <2>4. Range(es) = Range(st.events) \cup {BlockPlaced(Origin)}
    <3>1. BlockPlaced(Origin) \in Event
      BY CornerOnBoard, EventTypes
    <3> QED
      BY <1>1, <3>1, RangeOfAppend
  <2> HIDE DEF ps, es
  <2>5. /\ new.positions = ps /\ new.bombs = st.bombs /\ new.blocks = st.blocks
        /\ new.events = IF Origin \in st.blocks THEN es ELSE st.events
    <3>1. CASE Origin \in st.blocks
      <4>1. st.blocks \cup {Origin} = st.blocks
        BY <3>1
      <4> QED
        BY <1>0, <2>3, <3>1, <4>1 DEF Status
    <3>2. CASE Origin \notin st.blocks
      BY <1>0, <2>3, <3>2 DEF Status
    <3> QED
      BY <3>1, <3>2
  <2> HIDE DEF new
  <2>6. PlacingOnly(new.events)
    BY <2>4, <2>5 DEF Faithful, PlacingOnly
  <2>7. Laid(new.events) = Laid(st.events)
    <3>1. BombPlaced(0, Origin) # BlockPlaced(Origin)
      <4>1. BombPlaced(0, Origin).type = "BombPlaced" /\ BlockPlaced(Origin).type = "BlockPlaced"
        BY EventsDiffer
      <4> QED
        BY <4>1
    <3> QED
      BY <2>4, <2>5, <3>1 DEF Laid
  <2>8. \A i \in PlayerId : i \in DOMAIN player_positions =>
           i \in DOMAIN ps /\ ps[i] = player_positions[i]
    BY TouchKeeps DEF ps
  <2>9. new \in Status /\ new.blocks = blocks
    BY <1>0, <2>5 DEF Faithful, new
  <2>10. DOMAIN new.bombs = DOMAIN bombs \cup Laid(new.events)
    BY <2>5, <2>7 DEF Faithful
  <2>11. \A b \in DOMAIN new.bombs :
            new.bombs[b].timer = IF b \in DOMAIN bombs THEN bombs[b].timer ELSE BombTimer
    BY <2>5 DEF Faithful
  <2>12. \A i \in PlayerId : i \in DOMAIN player_positions =>
            i \in DOMAIN new.positions /\ new.positions[i] = player_positions[i]
    BY <2>5, <2>8
  <2>13. Faithful(new)
    BY <2>6, <2>9, <2>10, <2>11, <2>12 DEF Faithful
  <2> QED
    BY <2>13 DEF new
<1> QED
  BY <1>3, <1>4, <1>5 DEF IInv, Acting

LEMMA PlayedFaithful ==
  ASSUME IInv
  PROVE  Faithful(PlayedStatus)
<1> DEFINE T == {s \in 0 .. SessionsCount : Faithful(Resolved[s])}
<1>1. 0 \in T
  <2>1. Resolved[0] = CurrentStatus
    BY ResolvedDefined DEF IInv
  <2>2. CurrentStatus \in Status
    BY StatusBefore DEF IInv
  <2>3. /\ CurrentStatus.blocks = blocks /\ CurrentStatus.positions = player_positions
        /\ CurrentStatus.bombs = bombs /\ CurrentStatus.events = <<>>
    BY DEF CurrentStatus
  <2>4. Range(<<>>) = {}
    BY RangeOfEmpty
  <2>5. Faithful(CurrentStatus)
    BY <2>2, <2>3, <2>4 DEF Faithful, PlacingOnly, Laid
  <2> QED
    BY <2>1, <2>5
<1>2. ASSUME NEW k \in 0 .. (SessionsCount - 1), k \in T
      PROVE  k + 1 \in T
  <2>1. k + 1 \in Session /\ k + 1 \in 0 .. SessionsCount /\ k + 1 # 0 /\ (k + 1) - 1 = k
    BY DEF Session
  <2>2. Resolved[k + 1] = Resolve(Resolved[k], k + 1)
    BY <2>1, ResolvedDefined DEF IInv
  <2> QED
    BY <1>2, <2>1, <2>2, FaithfulStep
<1> HIDE DEF T
<1>3. \A k \in 0 .. SessionsCount : k \in T
  BY <1>1, <1>2, IntervalInduction
<1>4. SessionsCount \in T
  BY <1>3
<1> QED
  BY <1>4 DEF T, PlayedStatus

(***************************************************************************)
(* The explosion of bomb 0, the only one there can be, ends the turn.      *)
(***************************************************************************)
Burnt == 0 \in DOMAIN TickedBombs /\ TickedBombs[0].timer = 0

Down(t) == IF t = 0 THEN U16 - 1 ELSE t - 1

LEMMA ExplosionOfZero ==
  ASSUME IInv
  PROVE  /\ TurnEvents = PlayedStatus.events \o Explosions[1]
         /\ Burnt => Explosions[1] = <<ExplodeBomb(PlayedStatus, 0)>>
         /\ ~ Burnt => Explosions[1] = <<>>
<1>1. next_bomb = 0 /\ TypeOK /\ Acting /\ Corner
  BY DEF IInv, Corner
<1>2. TurnEvents = PlayedStatus.events \o Explosions[1]
  BY <1>1 DEF TurnEvents
<1>3. Explosions[0] = <<>>
  BY <1>1, ExplosionsDefined
<1>4. Explosions[1] = IF 0 \in Exploding(TickedBombs)
                      THEN Append(Explosions[0], ExplodeBomb(PlayedStatus, 0))
                      ELSE Explosions[0]
  BY <1>1, ExplosionsDefined
<1>5. Append(<<>>, ExplodeBomb(PlayedStatus, 0)) = <<ExplodeBomb(PlayedStatus, 0)>>
  <2> DEFINE e0 == ExplodeBomb(PlayedStatus, 0)
  <2>1. e0 \in Event
    BY PlayedFaithful, ExplodeBombEvent DEF Faithful
  <2> HIDE DEF e0
  <2>2. Append(<<>>, e0) = <<e0>>
    BY <2>1
  <2> QED
    BY <2>2 DEF e0
<1>6. Burnt <=> 0 \in Exploding(TickedBombs)
  BY DEF Burnt, Exploding
<1> QED
  BY <1>2, <1>3, <1>4, <1>5, <1>6

LEMMA TimersGoDown ==
  ASSUME IInv
  PROVE  /\ DOMAIN TickedBombs = DOMAIN PlayedStatus.bombs
         /\ \A b \in DOMAIN TickedBombs :
              TickedBombs[b].timer =
                Down(IF b \in DOMAIN bombs THEN bombs[b].timer ELSE BombTimer)
<1>1. Faithful(PlayedStatus)
  BY PlayedFaithful
<1>2. DOMAIN TickedBombs = DOMAIN PlayedStatus.bombs
  BY DEF TickedBombs, Tick
<1>3. ASSUME NEW b \in DOMAIN PlayedStatus.bombs
      PROVE  TickedBombs[b].timer = Down(PlayedStatus.bombs[b].timer)
  <2>1. PlayedStatus.bombs[b] \in Bomb
    BY <1>1, <1>3 DEF Faithful, Status, Bombs
  <2> DEFINE t == PlayedStatus.bombs[b].timer
  <2>2. t \in 0 .. (U16 - 1)
    BY <2>1 DEF Bomb
  <2>3. TickedBombs[b].timer = (t - 1) % U16
    BY <1>3, <2>1 DEF TickedBombs, Tick, Bomb
  <2> HIDE DEF t
  <2>4. (t - 1) % U16 = Down(t)
    <3>1. CASE t = 0
      <4>1. (0 - 1) % U16 = U16 - 1
        BY <2>2, Z3
      <4> QED
        BY <3>1, <4>1 DEF Down
    <3>2. CASE t # 0
      BY <2>2, <3>2 DEF Down
    <3> QED
      BY <3>1, <3>2
  <2> QED
    BY <2>3, <2>4 DEF t
<1> QED
  BY <1>1, <1>2, <1>3 DEF Faithful

LEMMA TurnFacts ==
  ASSUME IInv
  PROVE  /\ PlayedStatus.blocks = blocks
         /\ \A i \in PlayerId : i \in DOMAIN player_positions =>
              /\ i \in DOMAIN PlayedStatus.positions
              /\ PlayedStatus.positions[i] = player_positions[i]
         /\ \A e \in Range(TurnEvents) :
              \/ e = BombPlaced(0, Origin)
              \/ e = BlockPlaced(Origin) /\ Origin \in blocks
              \/ e.type = "BombExploded"
         /\ DOMAIN TickedBombs = DOMAIN bombs \cup Laid(TurnEvents)
<1>1. Faithful(PlayedStatus)
  BY PlayedFaithful
<1>2. PlayedStatus.events \in Seq(Event)
  BY <1>1 DEF Faithful, Status
<1> DEFINE e0 == ExplodeBomb(PlayedStatus, 0)
<1>3. e0 \in Event /\ e0.type = "BombExploded"
  <2>1. e0 \in Event
    BY <1>1, ExplodeBombEvent DEF Faithful
  <2>2. e0.type = "BombExploded"
    BY EventsDiffer DEF ExplodeBomb
  <2> QED
    BY <2>1, <2>2
<1> HIDE DEF e0
<1>4. Explosions[1] \in Seq(Event) /\ Range(Explosions[1]) \subseteq {e0}
  <2>1. CASE Burnt
    <3>1. Explosions[1] = <<e0>>
      BY <2>1, ExplosionOfZero DEF e0
    <3>2. <<e0>> \in Seq(Event) /\ Len(<<e0>>) = 1 /\ <<e0>>[1] = e0
      BY <1>3
    <3>3. Range(<<e0>>) = {<<e0>>[i] : i \in 1 .. Len(<<e0>>)}
      BY <3>2, RangeEquality
    <3> QED
      BY <3>1, <3>2, <3>3
  <2>2. CASE ~ Burnt
    <3>1. Explosions[1] = <<>>
      BY <2>2, ExplosionOfZero
    <3> QED
      BY <3>1, RangeOfEmpty, EmptySeq
  <2> QED
    BY <2>1, <2>2
<1>5. Range(TurnEvents) = Range(PlayedStatus.events) \cup Range(Explosions[1])
  <2>1. TurnEvents = PlayedStatus.events \o Explosions[1]
    BY ExplosionOfZero
  <2>2. Range(PlayedStatus.events \o Explosions[1]) =
          Range(PlayedStatus.events) \cup Range(Explosions[1])
    BY <1>2, <1>4, RangeConcatenation
  <2> QED
    BY <2>1, <2>2
<1>6. Laid(TurnEvents) = Laid(PlayedStatus.events)
  <2>1. BombPlaced(0, Origin) # e0
    <3>1. BombPlaced(0, Origin).type = "BombPlaced"
      BY EventsDiffer
    <3> QED
      BY <1>3, <3>1
  <2> QED
    BY <1>4, <1>5, <2>1 DEF Laid
<1>7. \A e \in Range(TurnEvents) :
         \/ e = BombPlaced(0, Origin)
         \/ e = BlockPlaced(Origin) /\ Origin \in blocks
         \/ e.type = "BombExploded"
  BY <1>1, <1>3, <1>4, <1>5 DEF Faithful, PlacingOnly
<1> QED
  BY <1>1, <1>6, <1>7, TimersGoDown DEF Faithful

--------------------------------------------------------------------------------
(***************************************************************************)
(* How many explosions a turn tells of: one of bomb 0 when it has burnt,   *)
(* none otherwise.                                                         *)
(***************************************************************************)
Exploded(es) == {i \in 1 .. Len(es) : es[i].type = "BombExploded" /\ es[i].bomb = 0}

LEMMA OneExplosion ==
  ASSUME IInv
  PROVE  Cardinality(Exploded(TurnEvents)) = IF Burnt THEN 1 ELSE 0
<1>1. Faithful(PlayedStatus)
  BY PlayedFaithful
<1> DEFINE e0 == ExplodeBomb(PlayedStatus, 0)
           es == PlayedStatus.events
           n == Len(es)
<1>2. es \in Seq(Event) /\ n \in Nat
  <2>1. es \in Seq(Event)
    BY <1>1 DEF Faithful, Status
  <2> QED
    BY <2>1, LenProperties
<1>3. e0 \in Event /\ e0.type = "BombExploded" /\ e0.bomb = 0
  <2>1. e0 \in Event
    BY <1>1, ExplodeBombEvent DEF Faithful
  <2>2. e0.type = "BombExploded" /\ e0.bomb = 0
    BY EventsDiffer DEF ExplodeBomb
  <2> QED
    BY <2>1, <2>2
<1>4. \A i \in 1 .. n : es[i].type # "BombExploded"
  <2>1. Range(es) = {es[i] : i \in 1 .. n}
    BY <1>2, RangeEquality
  <2>2. \A e \in Range(es) : e.type # "BombExploded"
    <3>1. BombPlaced(0, Origin).type = "BombPlaced" /\ BlockPlaced(Origin).type = "BlockPlaced"
      BY EventsDiffer
    <3> HIDE DEF es
    <3>2. PlacingOnly(es)
      BY <1>1 DEF Faithful, es
    <3> QED
      BY <3>1, <3>2 DEF PlacingOnly
  <2> HIDE DEF es, n
  <2> QED
    BY <2>1, <2>2
<1>5. TurnEvents = es \o Explosions[1]
  BY ExplosionOfZero
<1>6. CASE Burnt
  <2>1. Explosions[1] = <<e0>>
    BY <1>6, ExplosionOfZero
  <2> HIDE DEF e0, es
  <2>2. <<e0>> \in Seq(Event) /\ Len(<<e0>>) = 1 /\ <<e0>>[1] = e0
    BY <1>3
  <2>3. /\ Len(TurnEvents) = n + 1
        /\ \A i \in 1 .. n + 1 : TurnEvents[i] = IF i <= n THEN es[i] ELSE e0
    <3>1. /\ Len(es \o <<e0>>) = n + 1
          /\ \A i \in 1 .. n + 1 : (es \o <<e0>>)[i] =
                IF i <= n THEN es[i] ELSE <<e0>>[i - n]
      BY <1>2, <2>2, ConcatProperties
    <3>2. \A i \in 1 .. n + 1 : ~ (i <= n) => i - n = 1
      BY <1>2
    <3> QED
      BY <1>5, <2>1, <2>2, <3>1, <3>2
  <2> HIDE DEF n
  <2>4. Exploded(TurnEvents) = {n + 1}
    BY <1>2, <1>3, <1>4, <2>3 DEF Exploded
  <2> QED
    BY <1>6, <2>4, FS_Singleton
<1>7. CASE ~ Burnt
  <2>1. Explosions[1] = <<>>
    BY <1>7, ExplosionOfZero
  <2> HIDE DEF es
  <2>2. TurnEvents = es
    BY <1>2, <1>5, <2>1, ConcatEmptySeq
  <2>3. Exploded(TurnEvents) = {}
    BY <1>4, <2>2 DEF Exploded
  <2> QED
    BY <1>7, <2>3, FS_EmptySet
<1> QED
  BY <1>6, <1>7

--------------------------------------------------------------------------------
(***************************************************************************)
(* What a log ts of turns tells of the status, exactly as the code has it  *)
(* and more than the two properties ask: no block and no bomb is ever      *)
(* taken away.  Bomb 0 is the only bomb a game has, and Left(d) is what is *)
(* on its timer d turns after it was laid, the turn itself counted: below  *)
(* zero it goes on from the top.                                           *)
(***************************************************************************)
Tells(ts, ps, bl, bs) ==
  /\ \A i \in PlayerId : \E k \in 1 .. Len(ts) :
       /\ PlayerMoved(i, ps[i]) \in Range(ts[k])
       /\ \A j \in (k + 1) .. Len(ts), q \in Position : PlayerMoved(i, q) \notin Range(ts[j])
  /\ \A p \in Position :
       p \in bl <=> \E k \in 1 .. Len(ts) : BlockPlaced(p) \in Range(ts[k])
  /\ 0 \in DOMAIN bs <=>
       \E k \in 1 .. Len(ts), p \in Position : BombPlaced(0, p) \in Range(ts[k])

LaidIn(ts, k) == \E p \in Position : BombPlaced(0, p) \in Range(ts[k])

FirstLaidIn(ts, k) == LaidIn(ts, k) /\ \A j \in 1 .. (k - 1) : ~ LaidIn(ts, j)

Left(d) == IF d <= BombTimer THEN BombTimer - d ELSE U16 + BombTimer - d

Burning(ts, bs) ==
  0 \in DOMAIN bs =>
    \E j \in 1 .. Len(ts) :
      FirstLaidIn(ts, j) /\ bs[0].timer = Left(Len(ts) - j + 1)

BurnsDown(ts) ==
  \A k \in 1 .. Len(ts) :
    Cardinality(Exploded(ts[k])) =
      IF \E j \in 1 .. k : FirstLaidIn(ts, j) /\ k - j = BombTimer - 1 THEN 1 ELSE 0

(***************************************************************************)
(* The strengthening: between games nothing is left of the last one, and   *)
(* in a game every robot has a place.                                      *)
(***************************************************************************)
Emptied ==
  ~ in_progress =>
    blocks = {} /\ DOMAIN bombs = {} /\ DOMAIN player_positions = {} /\ turns = <<>>

Standing ==
  in_progress =>
    /\ PlayerId \subseteq DOMAIN player_positions
    /\ Tells(turns, player_positions, blocks, bombs)
    /\ Burning(turns, bombs)

EventInv == Emptied /\ Standing /\ BurnsDown(turns)

LEMMA InvTellsEvents == IInv /\ EventInv => EventsTellStatus /\ ExplodesOnce
<1> SUFFICES ASSUME IInv, EventInv
             PROVE  EventsTellStatus /\ ExplodesOnce
  OBVIOUS
<1>1. turns \in Seq(Seq(Event)) /\ next_bomb = 0
  BY DEF IInv, TypeOK, Corner
<1>2. \A k \in 1 .. Len(turns) : \A e : EventAt(e, k) <=> e \in Range(turns[k])
  BY <1>1, EventInRange
<1>3. Len(turns) \in Nat
  <2> DEFINE Events == Seq(Event)
  <2>1. turns \in Seq(Events)
    BY <1>1
  <2> HIDE DEF Events
  <2> QED
    BY <2>1, LenProperties
<1>4. EventsTellStatus
  <2> SUFFICES ASSUME in_progress
               PROVE  /\ \A i \in PlayerId : LastMove(i, player_positions[i])
                      /\ \A p \in Position :
                           /\ Remains(BlockPlaced(p)) => p \in blocks
                           /\ p \in blocks => Placed(BlockPlaced(p))
                      /\ (\E p \in Position : Remains(BombPlaced(0, p))) => 0 \in DOMAIN bombs
                      /\ 0 \in DOMAIN bombs => \E p \in Position : Placed(BombPlaced(0, p))
    BY <1>1 DEF EventsTellStatus
  <2>1. Tells(turns, player_positions, blocks, bombs)
    BY DEF EventInv, Standing
  <2>2. ASSUME NEW i \in PlayerId
        PROVE  LastMove(i, player_positions[i])
    <3>1. PICK k \in 1 .. Len(turns) :
            /\ PlayerMoved(i, player_positions[i]) \in Range(turns[k])
            /\ \A j \in (k + 1) .. Len(turns), q \in Position :
                 PlayerMoved(i, q) \notin Range(turns[j])
      BY <2>1 DEF Tells
    <3>2. \A j \in (k + 1) .. Len(turns) : j \in 1 .. Len(turns)
      BY <1>3
    <3> QED
      BY <1>2, <3>1, <3>2 DEF LastMove
  <2>3. \A e : Remains(e) => Placed(e)
    BY DEF Remains, Placed, EventAt
  <2>4. \A e : Placed(e) <=> \E k \in 1 .. Len(turns) : e \in Range(turns[k])
    BY <1>2 DEF Placed
  <2>5. \A p \in Position : p \in blocks <=> Placed(BlockPlaced(p))
    BY <2>1, <2>4 DEF Tells
  <2>6. 0 \in DOMAIN bombs <=> \E p \in Position : Placed(BombPlaced(0, p))
    BY <2>1, <2>4 DEF Tells
  <2> QED
    BY <2>2, <2>3, <2>5, <2>6
<1>5. \A k \in 1 .. Len(turns) :
        ExplosionsOf(0, k) = Exploded(turns[k]) /\ (PlacedIn(0, k) <=> LaidIn(turns, k))
  BY <1>2 DEF ExplosionsOf, Exploded, PlacedIn, LaidIn
<1>6. \A k \in 1 .. Len(turns) : \A j \in 1 .. k :
        j \in 1 .. Len(turns) /\ 1 .. (j - 1) \subseteq 1 .. Len(turns)
  BY <1>3
<1>7. \A j \in 1 .. Len(turns) : FirstPlacedIn(0, j) <=> FirstLaidIn(turns, j)
  BY <1>3, <1>5, <1>6 DEF FirstPlacedIn, FirstLaidIn
<1>8. ASSUME NEW k \in 1 .. Len(turns)
      PROVE  /\ \A i \in ExplosionsOf(0, k), j \in ExplosionsOf(0, k) : i = j
             /\ ExplosionsOf(0, k) # {} <=>
                  \E j \in 1 .. k : FirstPlacedIn(0, j) /\ k - j = BombTimer - 1
  <2>1. Cardinality(ExplosionsOf(0, k)) =
          IF \E j \in 1 .. k : FirstPlacedIn(0, j) /\ k - j = BombTimer - 1 THEN 1 ELSE 0
    BY <1>5, <1>6, <1>7 DEF EventInv, BurnsDown
  <2>2. IsFiniteSet(ExplosionsOf(0, k))
    <3>1. turns[k] \in Seq(Event)
      BY <1>1, EventInRange
    <3>2. Len(turns[k]) \in Nat
      <4> DEFINE E == Event
      <4> HIDE DEF E
      <4> QED
        BY <3>1, LenProperties
    <3>3. IsFiniteSet(1 .. Len(turns[k]))
      BY <3>2, FS_Interval
    <3>4. ExplosionsOf(0, k) \subseteq 1 .. Len(turns[k])
      BY DEF ExplosionsOf
    <3> QED
      BY <3>3, <3>4, FS_Subset
  <2>3. CASE \E j \in 1 .. k : FirstPlacedIn(0, j) /\ k - j = BombTimer - 1
    <3>1. PICK i : ExplosionsOf(0, k) = {i}
      BY <2>1, <2>2, <2>3, FS_Singleton
    <3> QED
      BY <2>3, <3>1
  <2>4. CASE ~ \E j \in 1 .. k : FirstPlacedIn(0, j) /\ k - j = BombTimer - 1
    <3>1. ExplosionsOf(0, k) = {}
      BY <2>1, <2>2, <2>4, FS_EmptySet
    <3> QED
      BY <2>4, <3>1
  <2> QED
    BY <2>3, <2>4
<1>9. ExplodesOnce
  <2>1. BombTimer \in Nat
    BY TimerAssumption
  <2>2. ASSUME NEW k \in 1 .. Len(turns), NEW m \in 1 .. Len(turns),
               NEW i \in ExplosionsOf(0, k), NEW j \in ExplosionsOf(0, m)
        PROVE  k = m /\ i = j
    <3>1. PICK f \in 1 .. k : FirstPlacedIn(0, f) /\ k - f = BombTimer - 1
      BY <1>8, <2>2
    <3>2. PICK g \in 1 .. m : FirstPlacedIn(0, g) /\ m - g = BombTimer - 1
      BY <1>8, <2>2
    <3>3. f = g
      <4>1. ~ (f < g) /\ ~ (g < f)
        BY <1>3, <3>1, <3>2 DEF FirstPlacedIn
      <4> QED
        BY <1>3, <4>1
    <3>4. k = m
      BY <1>3, <2>1, <3>1, <3>2, <3>3
    <3> QED
      BY <1>8, <2>2, <3>4
  <2>3. ASSUME NEW k \in 1 .. Len(turns), ExplosionsOf(0, k) # {}
        PROVE  BombTimer > 0 /\ \E j \in 1 .. k : PlacedIn(0, j)
    <3>1. PICK j \in 1 .. k : FirstPlacedIn(0, j) /\ k - j = BombTimer - 1
      BY <1>8, <2>3
    <3>2. k - j >= 0
      BY <1>3
    <3> QED
      BY <2>1, <3>1, <3>2 DEF FirstPlacedIn
  <2>4. ASSUME NEW j \in 1 .. Len(turns), FirstPlacedIn(0, j), BombTimer > 0,
               j + BombTimer <= Len(turns)
        PROVE  \E k \in j .. (j + BombTimer) : ExplosionsOf(0, k) # {}
    <3>1. PICK k : k = j + BombTimer - 1
      OBVIOUS
    <3>2. k \in 1 .. Len(turns) /\ k \in j .. (j + BombTimer) /\ j \in 1 .. k
          /\ k - j = BombTimer - 1
      BY <1>3, <2>1, <2>4, <3>1
    <3> QED
      BY <1>8, <2>4, <3>2
  <2> QED
    BY <1>1, <2>2, <2>3, <2>4 DEF ExplodesOnce
<1> QED
  BY <1>4, <1>9

(***************************************************************************)
(* The game starts: one move for every player, one BlockPlaced for every   *)
(* block, no bomb.                                                         *)
(***************************************************************************)
LEMMA StartTells ==
  ASSUME IInv, EventInv, ~ in_progress
  PROVE  /\ PlayerId \subseteq DOMAIN StartPositions
         /\ Tells(<<StartEvents>>, StartPositions, BlocksDrawn(InitialBlocks), bombs)
         /\ Burning(<<StartEvents>>, bombs)
         /\ BurnsDown(<<StartEvents>>)
<1> DEFINE ts == <<StartEvents>>
<1>1. rng \in Nat /\ blocks = {} /\ DOMAIN bombs = {} /\ DOMAIN player_positions = {}
  BY DEF IInv, TypeOK, EventInv, Emptied
<1>2. Len(ts) = 1 /\ ts[1] = StartEvents
  OBVIOUS
<1>3. Range(ts[1]) =
        {PlayerMoved(i, DrawnPosition(i)) : i \in PlayerId}
          \cup {BlockPlaced(p) : p \in BlocksDrawn(InitialBlocks)}
  <2>1. BlocksDrawn(InitialBlocks) \ blocks = BlocksDrawn(InitialBlocks)
    BY <1>1
  <2> QED
    BY <1>1, <1>2, <2>1, StartEventsRange
<1> HIDE DEF ts
<1>4. \A e \in Range(ts[1]) : e.type # "BombPlaced" /\ e.type # "BombExploded"
  BY <1>3, EventsDiffer
<1>5. /\ PlayerId \subseteq DOMAIN StartPositions
      /\ \A i \in PlayerId : StartPositions[i] = DrawnPosition(i)
  BY <1>1 DEF StartPositions
<1>6. ASSUME NEW i \in PlayerId
      PROVE  \E k \in 1 .. Len(ts) :
               /\ PlayerMoved(i, StartPositions[i]) \in Range(ts[k])
               /\ \A j \in (k + 1) .. Len(ts), q \in Position :
                    PlayerMoved(i, q) \notin Range(ts[j])
  <2>1. PlayerMoved(i, StartPositions[i]) \in Range(ts[1])
    BY <1>3, <1>5
  <2> QED
    BY <1>2, <2>1
<1>7. ASSUME NEW p \in Position
      PROVE  p \in BlocksDrawn(InitialBlocks) <=>
               \E k \in 1 .. Len(ts) : BlockPlaced(p) \in Range(ts[k])
  <2>1. BlockPlaced(p) \in Range(ts[1]) <=> p \in BlocksDrawn(InitialBlocks)
    <3>1. \A i, q : PlayerMoved(i, q) # BlockPlaced(p)
      <4>1. \A i, q : PlayerMoved(i, q).type # BlockPlaced(p).type
        BY EventsDiffer
      <4> QED
        BY <4>1
    <3> QED
      BY <1>3, <3>1, EventsDiffer
  <2> QED
    BY <1>2, <2>1
<1>8. \A k \in 1 .. Len(ts) : ~ LaidIn(ts, k)
  BY <1>2, <1>4, EventsDiffer DEF LaidIn
<1>9. Tells(ts, StartPositions, BlocksDrawn(InitialBlocks), bombs)
  <2>1. ~ \E k \in 1 .. Len(ts), p \in Position : BombPlaced(0, p) \in Range(ts[k])
    BY <1>8 DEF LaidIn
  <2> QED
    BY <1>1, <1>6, <1>7, <2>1 DEF Tells
<1>10. BurnsDown(ts)
  <2>1. Exploded(ts[1]) = {}
    <3>1. StartEvents \in Seq(Event)
      BY <1>1, StartEventsType
    <3>2. Range(StartEvents) = {StartEvents[i] : i \in 1 .. Len(StartEvents)}
      BY <3>1, RangeEquality
    <3> QED
      BY <1>2, <1>4, <3>2 DEF Exploded
  <2>2. Cardinality(Exploded(ts[1])) = 0
    BY <2>1, FS_EmptySet
  <2>3. ~ \E j \in 1 .. 1 : FirstLaidIn(ts, j)
    BY <1>2, <1>8 DEF FirstLaidIn
  <2> QED
    BY <1>2, <2>2, <2>3 DEF BurnsDown
<1>11. Burning(ts, bombs)
  BY <1>1 DEF Burning
<1> QED
  BY <1>5, <1>9, <1>10, <1>11 DEF ts

(***************************************************************************)
(* A turn is appended to the log.  What was laid when stays as it was.     *)
(***************************************************************************)
LEMMA LongerLog ==
  ASSUME IInv, NEW n, n = Len(turns), NEW ts, ts = Append(turns, TurnEvents)
  PROVE  /\ n \in Nat /\ Len(ts) = n + 1
         /\ \A k \in 1 .. n : ts[k] = turns[k]
         /\ ts[n + 1] = TurnEvents
         /\ \A j \in 1 .. n : LaidIn(ts, j) <=> LaidIn(turns, j)
         /\ \A j \in 1 .. n : FirstLaidIn(ts, j) <=> FirstLaidIn(turns, j)
         /\ LaidIn(ts, n + 1) <=> Laid(TurnEvents) = {0}
         /\ Laid(TurnEvents) \in {{}, {0}}
<1> DEFINE Events == Seq(Event)
<1>1. turns \in Seq(Events) /\ TurnEvents \in Events
  BY TurnEventsType DEF IInv, TypeOK
<1> HIDE DEF Events
<1>2. n \in Nat /\ Len(ts) = n + 1 /\ ts[n + 1] = TurnEvents
      /\ \A k \in 1 .. n : ts[k] = turns[k]
  BY <1>1, AppendProperties, LenProperties
<1>3. \A j \in 1 .. n : LaidIn(ts, j) <=> LaidIn(turns, j)
  BY <1>2 DEF LaidIn
<1>4. \A j \in 1 .. n : FirstLaidIn(ts, j) <=> FirstLaidIn(turns, j)
  BY <1>2, <1>3 DEF FirstLaidIn
<1>5. LaidIn(ts, n + 1) <=> Laid(TurnEvents) = {0}
  <2>1. ASSUME NEW p \in Position, BombPlaced(0, p) \in Range(TurnEvents)
        PROVE  p = Origin
    <3>1. /\ BombPlaced(0, p).type = "BombPlaced"
          /\ BombPlaced(0, p) # BlockPlaced(Origin)
      <4>1. /\ BombPlaced(0, p).type = "BombPlaced"
            /\ BlockPlaced(Origin).type = "BlockPlaced"
        BY EventsDiffer
      <4> QED
        BY <4>1
    <3>2. BombPlaced(0, p) = BombPlaced(0, Origin)
      BY <2>1, <3>1, TurnFacts
    <3> QED
      BY <3>2, EventsDiffer
  <2>2. LaidIn(ts, n + 1) <=> BombPlaced(0, Origin) \in Range(TurnEvents)
    BY <1>2, <2>1, CornerOnBoard DEF LaidIn
  <2> QED
    BY <2>2 DEF Laid
<1>6. Laid(TurnEvents) \in {{}, {0}}
  BY DEF Laid
<1> QED
  BY <1>2, <1>3, <1>4, <1>5, <1>6

LEMMA TurnTells ==
  ASSUME IInv, EventInv, in_progress
  PROVE  /\ PlayerId \subseteq DOMAIN PlayedStatus.positions
         /\ Tells(Append(turns, TurnEvents), PlayedStatus.positions, PlayedStatus.blocks,
                  TickedBombs)
<1>1. PICK n : n = Len(turns)
  OBVIOUS
<1>2. PICK ts : ts = Append(turns, TurnEvents)
  OBVIOUS
<1>3. /\ n \in Nat /\ Len(ts) = n + 1
      /\ \A k \in 1 .. n : ts[k] = turns[k]
      /\ ts[n + 1] = TurnEvents
  BY <1>1, <1>2, LongerLog
<1>4. Tells(turns, player_positions, blocks, bombs) /\ PlayerId \subseteq DOMAIN player_positions
  BY DEF EventInv, Standing
<1>5. \A i \in PlayerId : /\ i \in DOMAIN PlayedStatus.positions
                        /\ PlayedStatus.positions[i] = player_positions[i]
  BY <1>4, TurnFacts
<1>6. /\ \A i, q : PlayerMoved(i, q) \notin Range(TurnEvents)
      /\ \A p : BlockPlaced(p) \in Range(TurnEvents) => p \in blocks
  <2>1. /\ BombPlaced(0, Origin).type = "BombPlaced"
        /\ \A p : BlockPlaced(p).type = "BlockPlaced"
        /\ \A i, q : PlayerMoved(i, q).type = "PlayerMoved"
        /\ \A p : BlockPlaced(p) = BlockPlaced(Origin) => p = Origin
    BY EventsDiffer
  <2>2. \A e \in Range(TurnEvents) :
          \/ e = BombPlaced(0, Origin)
          \/ e = BlockPlaced(Origin) /\ Origin \in blocks
          \/ e.type = "BombExploded"
    BY TurnFacts
  <2>3. \A i, q : PlayerMoved(i, q) \notin Range(TurnEvents)
    BY <2>1, <2>2
  <2>4. \A p : BlockPlaced(p) \in Range(TurnEvents) => p \in blocks
    BY <2>1, <2>2
  <2> QED
    BY <2>3, <2>4
<1>7. ASSUME NEW i \in PlayerId
      PROVE  \E k \in 1 .. Len(ts) :
               /\ PlayerMoved(i, PlayedStatus.positions[i]) \in Range(ts[k])
               /\ \A j \in (k + 1) .. Len(ts), q \in Position :
                    PlayerMoved(i, q) \notin Range(ts[j])
  <2>1. PICK k \in 1 .. n :
          /\ PlayerMoved(i, player_positions[i]) \in Range(turns[k])
          /\ \A j \in (k + 1) .. n, q \in Position : PlayerMoved(i, q) \notin Range(turns[j])
    BY <1>1, <1>4 DEF Tells
  <2>2. k \in 1 .. Len(ts) /\ PlayerMoved(i, PlayedStatus.positions[i]) \in Range(ts[k])
    BY <1>3, <1>5, <2>1
  <2>3. ASSUME NEW j \in (k + 1) .. Len(ts), NEW q \in Position
        PROVE  PlayerMoved(i, q) \notin Range(ts[j])
    <3>1. CASE j = n + 1
      BY <1>3, <1>6, <3>1
    <3>2. CASE j # n + 1
      <4>1. j \in (k + 1) .. n /\ j \in 1 .. n
        BY <1>3, <3>2
      <4> QED
        BY <1>3, <2>1, <4>1
    <3> QED
      BY <3>1, <3>2
  <2> QED
    BY <2>2, <2>3
<1>8. ASSUME NEW p \in Position
      PROVE  p \in PlayedStatus.blocks <=>
               \E k \in 1 .. Len(ts) : BlockPlaced(p) \in Range(ts[k])
  <2>1. PlayedStatus.blocks = blocks
    BY TurnFacts
  <2>2. p \in blocks <=> \E k \in 1 .. n : BlockPlaced(p) \in Range(turns[k])
    BY <1>1, <1>4 DEF Tells
  <2>3. \A k \in 1 .. Len(ts) : k \in 1 .. n \/ k = n + 1
    BY <1>3
  <2>4. \A k \in 1 .. n : k \in 1 .. Len(ts)
    BY <1>3
  <2> QED
    BY <1>3, <1>6, <2>1, <2>2, <2>3, <2>4
<1>9. 0 \in DOMAIN TickedBombs <=>
        \E k \in 1 .. Len(ts), p \in Position : BombPlaced(0, p) \in Range(ts[k])
  <2>1. 0 \in DOMAIN bombs <=> \E k \in 1 .. n : LaidIn(turns, k)
    BY <1>1, <1>4 DEF Tells, LaidIn
  <2>2. 0 \in DOMAIN TickedBombs <=> 0 \in DOMAIN bombs \/ 0 \in Laid(TurnEvents)
    BY TurnFacts
  <2>3. /\ \A k \in 1 .. n : LaidIn(ts, k) <=> LaidIn(turns, k)
        /\ LaidIn(ts, n + 1) <=> 0 \in Laid(TurnEvents)
    BY <1>1, <1>2, LongerLog
  <2>4. \A k : k \in 1 .. Len(ts) <=> k \in 1 .. n \/ k = n + 1
    BY <1>3
  <2>5. 0 \in DOMAIN TickedBombs <=> \E k \in 1 .. Len(ts) : LaidIn(ts, k)
    BY <2>1, <2>2, <2>3, <2>4
  <2> QED
    BY <2>5 DEF LaidIn
<1>10. Tells(ts, PlayedStatus.positions, PlayedStatus.blocks, TickedBombs)
  BY <1>7, <1>8, <1>9 DEF Tells
<1> QED
  BY <1>2, <1>5, <1>10

(***************************************************************************)
(* The fuse: one turn more has passed, and the bomb explodes in this turn  *)
(* exactly when bomb_timer turns have.                                     *)
(***************************************************************************)
LEMMA LeftGoesDown ==
  ASSUME NEW d \in 1 .. (U16 - 2)
  PROVE  Down(Left(d)) = Left(d + 1) /\ Left(1) = Down(BombTimer)
  BY DEF Down, Left

LEMMA LeftIsNone ==
  ASSUME NEW d \in 1 .. (U16 - 1)
  PROVE  Left(d) = 0 <=> d = BombTimer
  BY DEF Left

LEMMA TurnBurns ==
  ASSUME IInv, EventInv, in_progress, NextTurn
  PROVE  /\ Burning(Append(turns, TurnEvents), TickedBombs)
         /\ BurnsDown(Append(turns, TurnEvents))
<1>1. PICK n : n = Len(turns)
  OBVIOUS
<1>2. PICK ts : ts = Append(turns, TurnEvents)
  OBVIOUS
<1>3. /\ n \in Nat /\ Len(ts) = n + 1
      /\ \A k \in 1 .. n : ts[k] = turns[k]
      /\ ts[n + 1] = TurnEvents
      /\ \A j \in 1 .. n : LaidIn(ts, j) <=> LaidIn(turns, j)
      /\ \A j \in 1 .. n : FirstLaidIn(ts, j) <=> FirstLaidIn(turns, j)
      /\ LaidIn(ts, n + 1) <=> Laid(TurnEvents) = {0}
      /\ Laid(TurnEvents) \in {{}, {0}}
  <2>1. /\ n \in Nat /\ Len(ts) = n + 1 /\ ts[n + 1] = TurnEvents
        /\ \A k \in 1 .. n : ts[k] = turns[k]
    BY <1>1, <1>2, LongerLog
  <2>2. /\ \A j \in 1 .. n : LaidIn(ts, j) <=> LaidIn(turns, j)
        /\ \A j \in 1 .. n : FirstLaidIn(ts, j) <=> FirstLaidIn(turns, j)
    BY <1>1, <1>2, LongerLog
  <2>3. /\ LaidIn(ts, n + 1) <=> Laid(TurnEvents) = {0}
        /\ Laid(TurnEvents) \in {{}, {0}}
    BY <1>1, <1>2, LongerLog
  <2> QED
    BY <2>1, <2>2, <2>3
<1>4. n \in 1 .. (GameLength - 1) /\ n + 1 \in 1 .. (U16 - 1)
  <2>1. n = turn /\ turn \in 1 .. GameLength /\ turn # GameLength
    BY <1>1 DEF IInv, TurnsNumbered, NextTurn
  <2> QED
    BY <2>1
<1>5. 0 \in DOMAIN bombs <=> \E k \in 1 .. n : LaidIn(turns, k)
  BY <1>1 DEF EventInv, Standing, Tells, LaidIn
<1>6. DOMAIN TickedBombs = DOMAIN bombs \cup Laid(TurnEvents)
  BY TurnFacts
<1>7. ASSUME 0 \in DOMAIN TickedBombs
      PROVE  \E j \in 1 .. (n + 1) :
               FirstLaidIn(ts, j) /\ TickedBombs[0].timer = Left((n + 1) - j + 1)
  <2>1. CASE 0 \in DOMAIN bombs
    <3>1. PICK j \in 1 .. n : FirstLaidIn(turns, j) /\ bombs[0].timer = Left(n - j + 1)
      BY <1>1, <2>1 DEF EventInv, Standing, Burning
    <3>2. FirstLaidIn(ts, j) /\ j \in 1 .. (n + 1)
      BY <1>3, <3>1
    <3>3. TickedBombs[0].timer = Down(bombs[0].timer)
      BY <1>7, <2>1, TimersGoDown
    <3>4. n - j + 1 \in 1 .. (U16 - 2) /\ (n - j + 1) + 1 = (n + 1) - j + 1
      BY <1>3, <1>4
    <3>5. Down(Left(n - j + 1)) = Left((n + 1) - j + 1)
      BY <3>4, LeftGoesDown
    <3> QED
      BY <3>1, <3>2, <3>3, <3>5
  <2>2. CASE 0 \notin DOMAIN bombs
    <3>1. Laid(TurnEvents) = {0}
      BY <1>3, <1>6, <1>7, <2>2
    <3>2. FirstLaidIn(ts, n + 1)
      <4>1. 1 .. ((n + 1) - 1) = 1 .. n
        BY <1>3
      <4> QED
        BY <1>3, <1>5, <2>2, <3>1, <4>1 DEF FirstLaidIn
    <3>3. TickedBombs[0].timer = Down(BombTimer)
      BY <1>7, <2>2, TimersGoDown
    <3>4. Left(1) = Down(BombTimer)
      BY DEF Left, Down
    <3>5. (n + 1) - (n + 1) + 1 = 1 /\ n + 1 \in 1 .. (n + 1)
      BY <1>3
    <3> QED
      BY <3>2, <3>3, <3>4, <3>5
  <2> QED
    BY <2>1, <2>2
<1>8. Burning(ts, TickedBombs)
  BY <1>3, <1>7 DEF Burning
<1>9. Burnt <=> \E j \in 1 .. (n + 1) : FirstLaidIn(ts, j) /\ (n + 1) - j = BombTimer - 1
  <2>1. ASSUME NEW j \in 1 .. (n + 1)
        PROVE  /\ (n + 1) - j + 1 \in 1 .. (U16 - 1)
               /\ (n + 1) - j = BombTimer - 1 <=> (n + 1) - j + 1 = BombTimer
    BY <1>3, <1>4
  <2>2. ASSUME NEW j \in 1 .. (n + 1), FirstLaidIn(ts, j),
               NEW m \in 1 .. (n + 1), FirstLaidIn(ts, m)
        PROVE  j = m
    <3>1. ~ (j < m) /\ ~ (m < j)
      BY <1>3, <2>2 DEF FirstLaidIn
    <3> QED
      BY <1>3, <3>1
  <2>3. CASE 0 \in DOMAIN TickedBombs
    <3>1. PICK j \in 1 .. (n + 1) :
            FirstLaidIn(ts, j) /\ TickedBombs[0].timer = Left((n + 1) - j + 1)
      BY <1>7, <2>3
    <3>2. Burnt <=> (n + 1) - j + 1 = BombTimer
      BY <2>1, <2>3, <3>1, LeftIsNone DEF Burnt
    <3> QED
      BY <2>1, <2>2, <3>1, <3>2
  <2>4. CASE 0 \notin DOMAIN TickedBombs
    <3>1. \A j \in 1 .. n : ~ LaidIn(ts, j)
      BY <1>3, <1>5, <1>6, <2>4
    <3>2. ~ LaidIn(ts, n + 1)
      BY <1>3, <1>6, <2>4
    <3>3. \A j \in 1 .. (n + 1) : j \in 1 .. n \/ j = n + 1
      BY <1>3
    <3>4. \A j \in 1 .. (n + 1) : ~ FirstLaidIn(ts, j)
      BY <3>1, <3>2, <3>3 DEF FirstLaidIn
    <3> QED
      BY <2>4, <3>4 DEF Burnt
  <2> QED
    BY <2>3, <2>4
<1>10. ASSUME NEW k \in 1 .. Len(ts)
       PROVE  Cardinality(Exploded(ts[k])) =
                IF \E j \in 1 .. k : FirstLaidIn(ts, j) /\ k - j = BombTimer - 1
                THEN 1 ELSE 0
  <2>1. CASE k = n + 1
    BY <1>3, <1>9, <2>1, OneExplosion
  <2>2. CASE k # n + 1
    <3>1. k \in 1 .. n /\ \A j \in 1 .. k : j \in 1 .. n
      BY <1>3, <2>2
    <3>2. Cardinality(Exploded(turns[k])) =
            IF \E j \in 1 .. k : FirstLaidIn(turns, j) /\ k - j = BombTimer - 1
            THEN 1 ELSE 0
      BY <1>1, <3>1 DEF EventInv, BurnsDown
    <3>3. ts[k] = turns[k] /\ \A j \in 1 .. k : FirstLaidIn(ts, j) <=> FirstLaidIn(turns, j)
      BY <1>3, <3>1
    <3> QED
      BY <3>2, <3>3
  <2> QED
    BY <2>1, <2>2
<1>11. BurnsDown(ts)
  BY <1>10 DEF BurnsDown
<1> QED
  BY <1>2, <1>8, <1>11

--------------------------------------------------------------------------------
(***************************************************************************)
(* The steps.                                                              *)
(***************************************************************************)
LEMMA EventInit == Init => EventInv
<1> SUFFICES ASSUME Init
             PROVE  EventInv
  OBVIOUS
<1>1. BurnsDown(turns)
  BY DEF Init, BurnsDown
<1> QED
  BY <1>1 DEF Init, EventInv, Emptied, Standing

LEMMA EventKept ==
  ASSUME EventInv, UNCHANGED <<in_progress, turns, blocks, bombs, player_positions>>
  PROVE  EventInv'
  BY DEF EventInv, Emptied, Standing

LEMMA EventStart ==
  ASSUME IInv, EventInv, NEW s \in Session, NEW n \in Names, JoinStart(s, n)
  PROVE  EventInv'
<1>1. ~ in_progress
  BY DEF JoinStart, Accept
<1>2. turns' = <<StartEvents>>
  <2>1. StartEvents \in Seq(Event) /\ turns = <<>>
    BY <1>1, StartEventsType DEF IInv, TypeOK, TurnsNumbered
  <2>2. SubSeq(turns, 2, Len(turns)) = <<>>
    BY <2>1
  <2>3. <<StartEvents>> \o <<>> = <<StartEvents>>
    BY <2>1, ConcatEmptySeq
  <2> QED
    BY <2>2, <2>3 DEF JoinStart
<1>3. /\ PlayerId \subseteq DOMAIN player_positions'
      /\ Tells(turns', player_positions', blocks', bombs')
      /\ Burning(turns', bombs')
      /\ BurnsDown(turns')
  BY <1>1, <1>2, StartTells DEF JoinStart
<1>4. in_progress'
  BY DEF JoinStart
<1> QED
  BY <1>3, <1>4 DEF EventInv, Emptied, Standing

LEMMA EventTurn ==
  ASSUME IInv, EventInv, NextTurn
  PROVE  EventInv'
<1>1. in_progress /\ in_progress'
  BY DEF NextTurn, IInv, OneTimer
<1>2. /\ PlayerId \subseteq DOMAIN player_positions'
      /\ Tells(turns', player_positions', blocks', bombs')
  BY <1>1, TurnTells DEF NextTurn
<1>3. Burning(turns', bombs') /\ BurnsDown(turns')
  <2>1. /\ Burning(Append(turns, TurnEvents), TickedBombs)
        /\ BurnsDown(Append(turns, TurnEvents))
    BY <1>1, TurnBurns
  <2> QED
    BY <2>1 DEF NextTurn
<1> QED
  BY <1>1, <1>2, <1>3 DEF EventInv, Emptied, Standing

LEMMA EventEnd ==
  ASSUME LastTurn
  PROVE  EventInv'
<1>1. /\ ~ in_progress' /\ turns' = <<>> /\ blocks' = {}
      /\ bombs' = <<>> /\ player_positions' = <<>>
  BY DEF LastTurn, ResetState
<1>2. BurnsDown(turns')
  BY <1>1 DEF BurnsDown
<1> QED
  BY <1>1, <1>2 DEF EventInv, Emptied, Standing

LEMMA EventStep ==
  ASSUME IInv, EventInv, [Next]_vars
  PROVE  EventInv'
<1>1. ASSUME NEW s \in Session,
             \/ Connect(s) \/ Disconnect(s) \/ JoinIgnored(s) \/ ReceiveUnknown(s)
             \/ ReceivePlaceBomb(s) \/ ReceivePlaceBlock(s)
             \/ \E d \in Direction : ReceiveMove(s, d)
      PROVE  EventInv'
  <2>1. UNCHANGED <<statusVars, roomVars>>
    BY <1>1 DEF Connect, Disconnect, JoinIgnored, ReceiveUnknown, ReceivePlaceBomb,
                ReceivePlaceBlock, ReceiveMove, AddMessage
  <2> QED
    BY <2>1, EventKept DEF statusVars, roomVars
<1>2. ASSUME NEW s \in Session, NEW n \in Names, JoinLobby(s, n)
      PROVE  EventInv'
  <2>1. UNCHANGED <<in_progress, turns, blocks, bombs, player_positions>>
    BY <1>2 DEF JoinLobby
  <2> QED
    BY <2>1, EventKept
<1>3. ASSUME NEW s \in Session, NEW n \in Names, JoinStart(s, n)
      PROVE  EventInv'
  BY <1>3, EventStart
<1>4. CASE TurnTimer
  BY <1>4, EventTurn, EventEnd DEF TurnTimer
<1>5. CASE UNCHANGED vars
  <2>1. UNCHANGED <<statusVars, roomVars>>
    BY <1>5 DEF vars
  <2> QED
    BY <2>1, EventKept DEF statusVars, roomVars
<1> QED
  BY <1>1, <1>2, <1>3, <1>4, <1>5 DEF Next, SessionStep

LEMMA EventInvariance == Spec => [](IInv /\ EventInv)
<1> QED
  BY EventInit, EventStep, Invariance, PTL DEF Spec

(***************************************************************************)
(* On every board, with every number of players and of initial blocks and  *)
(* every seed: no block and no bomb that was placed and that no explosion  *)
(* told of has taken away is missing from the status, none is in it that   *)
(* was not placed in this game, and the robots stand where the events put  *)
(* them (init_game, the resolve functions, reset_state).                   *)
(***************************************************************************)
THEOREM EventsTell == Spec => []EventsTellStatus
<1> QED
  BY InvTellsEvents, EventInvariance, PTL

(***************************************************************************)
(* For every bomb_timer that sixteen bits hold and every length of game,   *)
(* a bomb that is laid explodes in time and not twice, although its timer  *)
(* runs on below zero: a game is over before the timer comes round         *)
(* (handle_turn, explode_bombs).                                           *)
(***************************************************************************)
THEOREM BombsExplodeOnce == Spec => []ExplodesOnce
<1> QED
  BY InvTellsEvents, EventInvariance, PTL

================================================================================
