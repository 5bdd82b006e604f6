------------------------------ MODULE RobotsProofs -----------------------------
(***************************************************************************)
(* Theorems about Robots: on any board, with any number of sessions and    *)
(* players and over any number of games, a client that has read everything *)
(* knows the phase and the game, and its reader dies of the robot 255 and  *)
(* of nothing else.                                                        *)
(***************************************************************************)
EXTENDS Robots, GameRoomProofs

USE BoardAssumption, PlayersAssumption, RadiusAssumption, SessionsAssumption,
    LengthAssumption, TimerAssumption, BlocksAssumption, RandomAssumption, MineAssumption

Lays(m) == m.type = "Turn" /\ BombPlaced(0, Origin) \in Range(m.events)

(***************************************************************************)
(* What a room may say in a turn: bombs are laid in the corner, and one    *)
(* that explodes has been laid before, in this turn or, if laid holds, in  *)
(* an earlier one; its explosion always meets the robot 255.               *)
(***************************************************************************)
SaidInTurn(es, laid) ==
  \A i \in 1 .. Len(es) :
    /\ es[i].type = "BombPlaced" => es[i] = BombPlaced(0, Origin)
    /\ es[i].type = "BombExploded" =>
         /\ es[i].bomb = 0 /\ NoPlayer \in es[i].robots
         /\ laid \/ \E j \in 1 .. (i - 1) : es[j] = BombPlaced(0, Origin)

LaidBefore(k) == \E j \in 1 .. (k - 1) : BombPlaced(0, Origin) \in Range(turns[j])

(***************************************************************************)
(* The room's kept turns: robots of players get their place in the first   *)
(* turn and are never said to be elsewhere.  The robot 255 is there from   *)
(* the first bomb on, which a session without a robot has laid.            *)
(***************************************************************************)
Saying ==
  /\ 0 \in DOMAIN bombs => NoPlayer \in DOMAIN player_positions
  /\ \A k \in 1 .. Len(turns) : SaidInTurn(turns[k], LaidBefore(k))
  /\ in_progress =>
       /\ \A i \in PlayerId : PlayerMoved(i, player_positions[i]) \in Range(turns[1])
       /\ \A k \in 1 .. Len(turns), i \in PlayerId, q \in Position :
            PlayerMoved(i, q) \in Range(turns[k]) => q = player_positions[i]

(***************************************************************************)
(* The connection, and the client before it.                               *)
(***************************************************************************)
Linked ==
  /\ link \in {"down", "up", "broken"}
  /\ link = "down" => ClientInit /\ Mine \notin players
  /\ link = "up" => Mine \in players

(***************************************************************************)
(* A client that lives has read of no explosion: its status knows one bomb *)
(* at most, in the corner, no score but 0 and nothing of an explosion.     *)
(***************************************************************************)
Places == UNION {[D -> Position] : D \in SUBSET AnyId}
KnownBombs == UNION {[D -> [position : {Origin}, timer : 0 .. (U16 - 1)]] : D \in SUBSET {0}}
Zeros == UNION {[D -> {0}] : D \in SUBSET PlayerId}

KnownStatus ==
  [turn : Nat, players : PlayerMap, player_positions : Places, blocks : SUBSET Position,
   bombs : KnownBombs, explosions : {{}}, scores : Zeros, players_scored : {{}}]

(***************************************************************************)
(* What is on its way to the client: an explosion only of a bomb it will   *)
(* have heard of.                                                          *)
(***************************************************************************)
Announced ==
  \A n \in 1 .. Len(inbox) :
    inbox[n].type = "Turn" =>
      SaidInTurn(inbox[n].events,
                 0 \in DOMAIN status.bombs \/ \E m \in 1 .. (n - 1) : Lays(inbox[m]))

Known ==
  /\ inbox \in Seq(Message)
  /\ outbox \in Seq(InputMessage \cup {Join})
  /\ listener \in {"reading", "lobby", "game", "dead"}
  /\ input \in {"waiting", "sending", "dead"}
  /\ in_lobby \in BOOLEAN
  /\ status \in KnownStatus
  /\ listener # "dead" => Announced

(***************************************************************************)
(* Players are seated in the order of their ids: whom the client has not   *)
(* heard of is on the way to it.                                           *)
(***************************************************************************)
Heard(i, k) ==
  \/ i \in DOMAIN status.players
  \/ \E j \in 1 .. k : \/ inbox[j].type = "AcceptedPlayer" /\ inbox[j].id = i
                       \/ inbox[j].type = "GameStarted"

Seated ==
  /\ \A k \in 1 .. Len(inbox) :
       /\ inbox[k].type = "AcceptedPlayer" => \A i \in 0 .. (inbox[k].id - 1) : Heard(i, k - 1)
       /\ inbox[k].type = "GameStarted" => DOMAIN inbox[k].players = PlayerId
  /\ link = "up" => \A i \in 0 .. (next_id - 1) : Heard(i, Len(inbox))

(***************************************************************************)
(* After the first n messages that are under way the client is in a lobby  *)
(* and draws no blocks.                                                    *)
(***************************************************************************)
Chatter(m) == m.type \in {"Hello", "AcceptedPlayer"}

Blank(n) ==
  \/ /\ in_lobby /\ status.blocks = {}
     /\ \A k \in 1 .. n : Chatter(inbox[k])
  \/ \E e \in 1 .. n :
       /\ inbox[e].type = "GameEnded"
       /\ \A k \in (e + 1) .. n : Chatter(inbox[k])

(***************************************************************************)
(* The turns after the first j of the game are under way, and nothing      *)
(* behind them; the first j are in the status.                             *)
(***************************************************************************)
Coming(j) ==
  /\ Len(inbox) >= Len(turns) - j
  /\ \A k \in (j + 1) .. Len(turns) :
       inbox[Len(inbox) - Len(turns) + k] = Turn(k - 1, turns[k])

Taken(j) ==
  /\ ~ in_lobby
  /\ status.players = game_players
  /\ status.blocks = {p \in Position : \E k \in 1 .. j : BlockPlaced(p) \in Range(turns[k])}
  /\ (\E k \in 1 .. j : BombPlaced(0, Origin) \in Range(turns[k])) => 0 \in DOMAIN status.bombs
  /\ j # 0 =>
       /\ status.turn = j - 1
       /\ \A i \in PlayerId : /\ i \in DOMAIN status.player_positions
                              /\ status.player_positions[i] = player_positions[i]

InGame == \E j \in 0 .. Len(turns) : Len(inbox) = Len(turns) - j /\ Coming(j) /\ Taken(j)

BeforeGame ==
  \E g \in 1 .. Len(inbox) :
    /\ Len(inbox) = g + Len(turns)
    /\ inbox[g] = GameStarted(game_players)
    /\ Coming(0) /\ Blank(g - 1)

Followed ==
  link = "up" /\ listener # "dead" =>
    IF in_progress THEN InGame \/ BeforeGame ELSE Blank(Len(inbox))

RobotsInv == IInv /\ EventInv /\ Saying /\ Linked /\ Known /\ Seated /\ Followed

--------------------------------------------------------------------------------
(***************************************************************************)
(* What the room says: the robot 255 is made before a bomb, and stands on  *)
(* the bomb's field, which every explosion reaches.                        *)
(***************************************************************************)
LEMMA PhantomMade ==
  ASSUME IInv, Saying, 0 \in DOMAIN PlayedStatus.bombs
  PROVE  NoPlayer \in DOMAIN PlayedStatus.positions
<1> DEFINE Made(st) == 0 \in DOMAIN st.bombs => NoPlayer \in DOMAIN st.positions
           T == {s \in 0 .. SessionsCount : Faithful(Resolved[s]) /\ Made(Resolved[s])}
<1>1. 0 \in T
  <2>1. Resolved[0] = CurrentStatus
    BY ResolvedDefined DEF IInv
  <2>2. CurrentStatus \in Status
    BY StatusBefore DEF IInv
  <2>3. /\ CurrentStatus.blocks = blocks /\ CurrentStatus.positions = player_positions
        /\ CurrentStatus.bombs = bombs /\ CurrentStatus.events = <<>>
    BY DEF CurrentStatus
  <2>4. Range(<<>>) = {}
    BY RangeOfEmpty
  <2>5. Faithful(CurrentStatus)
    BY <2>2, <2>3, <2>4 DEF Faithful, PlacingOnly, Laid
  <2>6. Made(CurrentStatus)
    BY <2>3 DEF Saying
  <2> QED
    BY <2>1, <2>5, <2>6
<1>2. ASSUME NEW k \in 0 .. (SessionsCount - 1), k \in T
      PROVE  k + 1 \in T
  <2>1. k + 1 \in Session /\ k + 1 \in 0 .. SessionsCount /\ k + 1 # 0 /\ (k + 1) - 1 = k
    BY DEF Session
  <2>2. PICK st : st = Resolved[k]
    OBVIOUS
  <2>3. PICK s \in Session : s = k + 1
    BY <2>1
  <2>4. Resolved[s] = Resolve(st, s)
    BY <2>1, <2>2, <2>3, ResolvedDefined DEF IInv
  <2>5. Faithful(st) /\ Made(st)
    BY <1>2, <2>2
  <2>6. Faithful(Resolve(st, s))
    BY <2>5, FaithfulStep
  <2>7. Made(Resolve(st, s))
    <3> DEFINE ps == Touch(st.positions, NoPlayer)
    <3>1. NoPlayer \in DOMAIN ps
      BY DEF Touch, Insert
    <3>2. st \in Status
      BY <2>5 DEF Faithful
    <3>3. CASE moves[s].message = "None"
      BY <2>5, <3>3 DEF Resolve
    <3>4. CASE moves[s].message = "PlaceBomb"
      <4>1. id[s] = NoPlayer
        BY <3>4 DEF IInv, Acting, NoMove, ClientMessage
      <4> HIDE DEF ps
      <4>2. Resolve(st, s).positions = ps
        BY <3>2, <3>4, <4>1 DEF Resolve, ResolvePlaceBomb, Status, ps
      <4> QED
        BY <3>1, <4>2
    <3>5. CASE moves[s].message = "PlaceBlock"
      <4>1. id[s] = NoPlayer
        BY <3>5 DEF IInv, Acting, NoMove, ClientMessage
      <4> HIDE DEF ps
      <4>2. Resolve(st, s).positions = ps
        BY <3>2, <3>5, <4>1 DEF Resolve, ResolvePlaceBlock, Status, ps
      <4> QED
        BY <3>1, <4>2
    <3> QED
      BY <3>3, <3>4, <3>5 DEF IInv, Acting
  <2> QED
    BY <2>1, <2>3, <2>4, <2>6, <2>7
<1> HIDE DEF T
<1>3. \A k \in 0 .. SessionsCount : k \in T
  BY <1>1, <1>2, IntervalInduction
<1>4. SessionsCount \in T
  BY <1>3
<1> QED
  BY <1>4 DEF T, PlayedStatus

LEMMA PhantomBurns ==
  ASSUME IInv, Saying, Burnt
  PROVE  /\ ExplodeBomb(PlayedStatus, 0) \in Event
         /\ ExplodeBomb(PlayedStatus, 0).type = "BombExploded"
         /\ ExplodeBomb(PlayedStatus, 0).bomb = 0
         /\ NoPlayer \in ExplodeBomb(PlayedStatus, 0).robots
<1> DEFINE st == PlayedStatus
           robots == RobotsDestroyed(Origin, st.blocks, st.positions)
<1>1. Faithful(st)
  BY PlayedFaithful
<1>2. st \in Status /\ 0 \in DOMAIN st.bombs
  BY <1>1, TimersGoDown DEF Faithful, Burnt
<1>3. st.bombs[0].position = Origin
  BY <1>2 DEF Status, Bombs
<1>4. NoPlayer \in DOMAIN st.positions /\ st.positions[NoPlayer] = Origin
  BY <1>2, PhantomMade DEF Status, Positions
<1>5. Origin \in ServerBlast(Origin, st.blocks)
  <2>1. ServerReach(Origin, "Left") = 0
    BY DEF ServerReach, Origin, Lower
  <2>2. Step(Origin, "Left", 0) = Origin
    BY DEF Step, Origin
  <2>3. \A j \in 0 .. (0 - 1) : Step(Origin, "Left", j) \notin st.blocks
    OBVIOUS
  <2>4. Origin \in Arm(Origin, "Left", 0, st.blocks)
    BY <2>2, <2>3 DEF Arm
  <2> QED
    BY <2>1, <2>4 DEF ServerBlast, Direction
<1>6. NoPlayer \in robots
  BY <1>4, <1>5 DEF RobotsDestroyed
<1>7. ExplodeBomb(st, 0) = BombExploded(0, robots, BlocksDestroyed(Origin, st.blocks))
  BY <1>3 DEF ExplodeBomb
<1> HIDE DEF robots
<1> QED
  BY <1>2, <1>6, <1>7, ExplodeBombEvent DEF BombExploded

LEMMA LogOfTurns ==
  ASSUME IInv
  PROVE  /\ Len(turns) \in Nat
         /\ \A k \in 1 .. Len(turns) : turns[k] \in Seq(Event)
<1> DEFINE Events == Seq(Event)
<1>1. turns \in Seq(Events)
  BY DEF IInv, TypeOK
<1> HIDE DEF Events
<1>2. Len(turns) \in Nat /\ \A k \in 1 .. Len(turns) : turns[k] \in Events
  BY <1>1, LenProperties, ElementOfSeq
<1> QED
  BY <1>2 DEF Events

LEMMA ElementsInRange ==
  ASSUME NEW es \in Seq(Event), NEW e
  PROVE  e \in Range(es) <=> \E i \in 1 .. Len(es) : es[i] = e
<1>1. Range(es) = {es[i] : i \in 1 .. Len(es)}
  BY RangeEquality
<1> QED
  BY <1>1

(***************************************************************************)
(* A turn lays bombs in the corner, and the explosion that ends it is of a *)
(* bomb laid before it.                                                    *)
(***************************************************************************)
LEMMA TurnSaid ==
  ASSUME IInv, EventInv, Saying, in_progress
  PROVE  SaidInTurn(TurnEvents,
                    \E k \in 1 .. Len(turns) : BombPlaced(0, Origin) \in Range(turns[k]))
<1> DEFINE Earlier == \E k \in 1 .. Len(turns) : BombPlaced(0, Origin) \in Range(turns[k])
           e0 == ExplodeBomb(PlayedStatus, 0)
<1>1. PICK es : es = PlayedStatus.events
  OBVIOUS
<1>2. es \in Seq(Event) /\ Len(es) \in Nat /\ PlacingOnly(es)
  <2>1. es \in Seq(Event) /\ PlacingOnly(es)
    BY <1>1, PlayedFaithful DEF Faithful, Status
  <2> QED
    BY <2>1, LenProperties
<1>3. PICK x : x = Explosions[1]
  OBVIOUS
<1>4. TurnEvents = es \o x /\ (Burnt => x = <<e0>>) /\ (~ Burnt => x = <<>>)
  BY <1>1, <1>3, ExplosionOfZero
<1>5. Burnt => e0 \in Event /\ e0.type = "BombExploded" /\ e0.bomb = 0 /\ NoPlayer \in e0.robots
  BY PhantomBurns
<1>6. Burnt => Earlier \/ BombPlaced(0, Origin) \in Range(es)
  <2> SUFFICES ASSUME Burnt, BombPlaced(0, Origin) \notin Range(es)
               PROVE  Earlier
    OBVIOUS
  <2>1. Laid(es) = {}
    BY DEF Laid
  <2>2. 0 \in DOMAIN PlayedStatus.bombs
    BY TimersGoDown DEF Burnt
  <2>3. 0 \in DOMAIN bombs
    BY <1>1, <2>1, <2>2, PlayedFaithful DEF Faithful
  <2>4. PICK k \in 1 .. Len(turns), p \in Position : BombPlaced(0, p) \in Range(turns[k])
    BY <2>3 DEF EventInv, Standing, Tells
  <2>5. PICK i \in 1 .. Len(turns[k]) : turns[k][i] = BombPlaced(0, p)
    BY <2>4, LogOfTurns, ElementsInRange
  <2>6. turns[k][i].type = "BombPlaced"
    BY <2>5, EventsDiffer
  <2>7. BombPlaced(0, p) = BombPlaced(0, Origin)
    BY <2>5, <2>6 DEF Saying, SaidInTurn
  <2> QED
    BY <2>4, <2>7
<1> HIDE DEF e0
<1>7. x \in Seq(Event) /\ Len(x) \in {0, 1} /\ (Len(x) = 1 => Burnt /\ x[1] = e0)
  <2>1. CASE Burnt
    <3>1. x = <<e0>> /\ e0 \in Event
      BY <1>4, <1>5, <2>1
    <3> QED
      BY <2>1, <3>1
  <2>2. CASE ~ Burnt
    <3>1. x = <<>>
      BY <1>4, <2>2
    <3> QED
      BY <3>1
  <2> QED
    BY <2>1, <2>2
<1>8. PICK n : n = Len(es)
  OBVIOUS
<1>9. /\ Len(TurnEvents) = n + Len(x)
      /\ \A i \in 1 .. n : TurnEvents[i] = es[i]
      /\ \A i \in (n + 1) .. (n + Len(x)) : TurnEvents[i] = x[i - n]
  BY <1>2, <1>4, <1>7, <1>8, ConcatProperties
<1>10. \A i \in 1 .. Len(TurnEvents) : i \in 1 .. n \/ (i = n + 1 /\ Len(x) = 1)
  BY <1>2, <1>7, <1>8, <1>9
<1>11. ASSUME NEW i \in 1 .. n
       PROVE  /\ TurnEvents[i].type = "BombPlaced" => TurnEvents[i] = BombPlaced(0, Origin)
              /\ TurnEvents[i].type # "BombExploded"
  <2>1. TurnEvents[i] \in Range(es)
    BY <1>2, <1>8, <1>9, ElementsInRange
  <2>2. TurnEvents[i] = BombPlaced(0, Origin) \/ TurnEvents[i] = BlockPlaced(Origin)
    BY <1>2, <2>1 DEF PlacingOnly
  <2>3. BombPlaced(0, Origin).type = "BombPlaced" /\ BlockPlaced(Origin).type = "BlockPlaced"
    BY EventsDiffer
  <2> QED
    BY <2>2, <2>3
<1>12. ASSUME NEW i \in 1 .. Len(TurnEvents), i = n + 1, Len(x) = 1
       PROVE  /\ TurnEvents[i].type = "BombExploded" /\ TurnEvents[i].bomb = 0
              /\ NoPlayer \in TurnEvents[i].robots
              /\ Earlier \/ \E j \in 1 .. (i - 1) : TurnEvents[j] = BombPlaced(0, Origin)
  <2>1. Burnt /\ x[1] = e0
    BY <1>7, <1>12
  <2>2. TurnEvents[i] = e0
    <3>1. n + 1 \in (n + 1) .. (n + 1) /\ (n + 1) - n = 1
      BY <1>2, <1>8
    <3>2. TurnEvents[n + 1] = x[(n + 1) - n]
      BY <1>9, <1>12, <3>1
    <3> QED
      BY <1>12, <2>1, <3>1, <3>2
  <2>3. ASSUME BombPlaced(0, Origin) \in Range(es)
        PROVE  \E j \in 1 .. (i - 1) : TurnEvents[j] = BombPlaced(0, Origin)
    <3>1. PICK j \in 1 .. n : es[j] = BombPlaced(0, Origin)
      BY <1>2, <1>8, <2>3, ElementsInRange
    <3>2. j \in 1 .. (i - 1)
      BY <1>2, <1>8, <1>12
    <3> QED
      BY <1>9, <3>1, <3>2
  <2> HIDE DEF Earlier
  <2> QED
    BY <1>5, <1>6, <2>1, <2>2, <2>3
<1> HIDE DEF Earlier
<1>13. SaidInTurn(TurnEvents, Earlier)
  BY <1>10, <1>11, <1>12 DEF SaidInTurn
<1> QED
  BY <1>13 DEF Earlier

LEMMA SayingKept ==
  ASSUME Saying, UNCHANGED <<in_progress, turns, bombs, player_positions>>
  PROVE  Saying'
  BY DEF Saying, SaidInTurn, LaidBefore

(***************************************************************************)
(* The kept turns once a game has started.                                 *)
(***************************************************************************)
LEMMA StartKept ==
  ASSUME IInv, NEW s \in Session, NEW n \in Names, JoinStart(s, n)
  PROVE  /\ ~ in_progress /\ in_progress' /\ StartEvents \in Seq(Event)
         /\ turns' = <<StartEvents>> /\ Len(turns') = 1 /\ turns'[1] = StartEvents
<1>1. ~ in_progress /\ in_progress'
  BY DEF JoinStart, Accept
<1>2. StartEvents \in Seq(Event) /\ turns = <<>>
  BY <1>1, StartEventsType DEF IInv, TypeOK, TurnsNumbered
<1>3. SubSeq(turns, 2, Len(turns)) = <<>>
  BY <1>2
<1>4. <<StartEvents>> \o <<>> = <<StartEvents>>
  BY <1>2, ConcatEmptySeq
<1>5. turns' = <<StartEvents>>
  BY <1>3, <1>4 DEF JoinStart
<1> QED
  BY <1>1, <1>2, <1>5

LEMMA StartSaid ==
  ASSUME IInv, EventInv, ~ in_progress
  PROVE  /\ DOMAIN bombs = {}
         /\ \A l : SaidInTurn(StartEvents, l)
         /\ BombPlaced(0, Origin) \notin Range(StartEvents)
         /\ \A i \in PlayerId : \A q :
              PlayerMoved(i, q) \in Range(StartEvents) <=> q = StartPositions[i]
         /\ \A p \in Position :
              BlockPlaced(p) \in Range(StartEvents) <=> p \in BlocksDrawn(InitialBlocks)
<1>1. rng \in Nat /\ blocks = {} /\ DOMAIN bombs = {} /\ DOMAIN player_positions = {}
  BY DEF IInv, TypeOK, EventInv, Emptied
<1>2. PICK B : B = BlocksDrawn(InitialBlocks)
  OBVIOUS
<1>3. StartEvents \in Seq(Event)
  BY <1>1, StartEventsType
<1>4. \A i \in PlayerId : StartPositions[i] = DrawnPosition(i)
  BY <1>1 DEF StartPositions
<1>5. Range(StartEvents) =
        {PlayerMoved(i, DrawnPosition(i)) : i \in PlayerId} \cup {BlockPlaced(p) : p \in B}
  <2>1. B \ blocks = B
    BY <1>1
  <2> QED
    BY <1>1, <1>2, <2>1, StartEventsRange
<1>6. \A e \in Range(StartEvents) : e.type \in {"PlayerMoved", "BlockPlaced"}
  BY <1>5, EventsDiffer
<1>7. \A l : SaidInTurn(StartEvents, l)
  <2>1. \A i \in 1 .. Len(StartEvents) : StartEvents[i] \in Range(StartEvents)
    BY <1>3, ElementsInRange
  <2>2. \A i \in 1 .. Len(StartEvents) :
          StartEvents[i].type # "BombPlaced" /\ StartEvents[i].type # "BombExploded"
    BY <1>6, <2>1
  <2> QED
    BY <2>2 DEF SaidInTurn
<1>8. BombPlaced(0, Origin) \notin Range(StartEvents)
  BY <1>6, EventsDiffer
<1>9. \A i, q, p : PlayerMoved(i, q) # BlockPlaced(p)
  <2>1. \A i, q, p : PlayerMoved(i, q).type # BlockPlaced(p).type
    BY EventsDiffer
  <2> QED
    BY <2>1
<1>10. ASSUME NEW i \in PlayerId, NEW q
       PROVE  PlayerMoved(i, q) \in Range(StartEvents) <=> q = StartPositions[i]
  <2>1. ASSUME PlayerMoved(i, q) \in Range(StartEvents)
        PROVE  q = DrawnPosition(i)
    <3>1. PICK j \in PlayerId : PlayerMoved(i, q) = PlayerMoved(j, DrawnPosition(j))
      BY <1>5, <1>9, <2>1
    <3> QED
      BY <3>1, EventsDiffer
  <2> QED
    BY <1>4, <1>5, <2>1
<1>11. ASSUME NEW p \in Position
       PROVE  BlockPlaced(p) \in Range(StartEvents) <=> p \in B
  <2>1. \A q : BlockPlaced(p) = BlockPlaced(q) => p = q
    BY EventsDiffer
  <2> QED
    BY <1>5, <1>9, <2>1
<1> QED
  BY <1>1, <1>2, <1>7, <1>8, <1>10, <1>11

LEMMA SayingStart ==
  ASSUME IInv, EventInv, NEW s \in Session, NEW n \in Names, JoinStart(s, n)
  PROVE  Saying'
<1>1. /\ ~ in_progress /\ in_progress'
      /\ Len(turns') = 1 /\ turns'[1] = StartEvents
  BY StartKept
<1>2. bombs' = bombs /\ player_positions' = StartPositions
  BY DEF JoinStart
<1>3. \A k \in 1 .. Len(turns') : SaidInTurn(turns'[k], LaidBefore(k)')
  BY <1>1, StartSaid
<1>4. DOMAIN bombs' = {}
  BY <1>1, <1>2, StartSaid
<1>5. \A i \in PlayerId : \A q :
        PlayerMoved(i, q) \in Range(turns'[1]) <=> q = player_positions'[i]
  BY <1>1, <1>2, StartSaid
<1>6. \A k \in 1 .. Len(turns') : k = 1
  BY <1>1
<1>7. \A k \in 1 .. Len(turns') : SaidInTurn(turns[k], LaidBefore(k))'
  BY <1>3 DEF SaidInTurn
<1> QED
  BY <1>4, <1>5, <1>6, <1>7 DEF Saying

LEMMA SayingTurn ==
  ASSUME IInv, EventInv, Saying, NextTurn
  PROVE  Saying'
<1>1. in_progress /\ in_progress'
  BY DEF NextTurn, IInv, OneTimer
<1>2. PICK n : n = Len(turns)
  OBVIOUS
<1>3. /\ n \in Nat /\ Len(turns') = n + 1
      /\ \A k \in 1 .. n : turns'[k] = turns[k]
      /\ turns'[n + 1] = TurnEvents
  BY <1>2, LongerLog DEF NextTurn
<1>4. 0 \in DOMAIN bombs' => NoPlayer \in DOMAIN player_positions'
  <2>1. 0 \in DOMAIN bombs' => 0 \in DOMAIN PlayedStatus.bombs
    BY TimersGoDown DEF NextTurn
  <2> QED
    BY <2>1, PhantomMade DEF NextTurn
<1>5. \A k \in 1 .. n + 1 : \A j \in 1 .. (k - 1) : j \in 1 .. n
  BY <1>3
<1>6. \A k \in 1 .. n + 1 :
        LaidBefore(k)' <=> \E j \in 1 .. (k - 1) : BombPlaced(0, Origin) \in Range(turns[j])
  BY <1>3, <1>5 DEF LaidBefore
<1>7. ASSUME NEW k \in 1 .. Len(turns')
      PROVE  SaidInTurn(turns'[k], LaidBefore(k)')
  <2>1. CASE k \in 1 .. n
    <3>1. turns'[k] = turns[k] /\ (LaidBefore(k)' <=> LaidBefore(k))
      BY <1>3, <1>6, <2>1 DEF LaidBefore
    <3>2. SaidInTurn(turns[k], LaidBefore(k))
      BY <1>2, <2>1 DEF Saying
    <3> QED
      BY <3>1, <3>2 DEF SaidInTurn
  <2>2. CASE k \notin 1 .. n
    <3>1. k = n + 1 /\ k - 1 = n
      BY <1>3, <2>2
    <3>2. LaidBefore(k)' <=> \E j \in 1 .. n : BombPlaced(0, Origin) \in Range(turns[j])
      BY <1>3, <1>6, <3>1
    <3>3. SaidInTurn(TurnEvents,
                     \E j \in 1 .. n : BombPlaced(0, Origin) \in Range(turns[j]))
      BY <1>1, <1>2, TurnSaid
    <3>4. turns'[k] = TurnEvents
      BY <1>3, <3>1
    <3> QED
      BY <3>2, <3>3, <3>4 DEF SaidInTurn
  <2> QED
    BY <2>1, <2>2
<1>8. \A i \in PlayerId : player_positions'[i] = player_positions[i]
  <2>1. PlayerId \subseteq DOMAIN player_positions
    BY <1>1 DEF EventInv, Standing
  <2> QED
    BY <2>1, TurnFacts DEF NextTurn
<1>9. \A i, q : PlayerMoved(i, q) \notin Range(TurnEvents)
  <2>1. /\ BombPlaced(0, Origin).type = "BombPlaced"
        /\ BlockPlaced(Origin).type = "BlockPlaced"
        /\ \A i, q : PlayerMoved(i, q).type = "PlayerMoved"
    BY EventsDiffer
  <2> QED
    BY <2>1, TurnFacts
<1>10. 1 \in 1 .. n
  BY <1>1, <1>2, <1>3 DEF IInv, TurnsNumbered
<1>11. \A i \in PlayerId : PlayerMoved(i, player_positions'[i]) \in Range(turns'[1])
  BY <1>1, <1>3, <1>8, <1>10 DEF Saying
<1>12. ASSUME NEW k \in 1 .. Len(turns'), NEW i \in PlayerId, NEW q \in Position,
              PlayerMoved(i, q) \in Range(turns'[k])
       PROVE  q = player_positions'[i]
  <2>1. k \in 1 .. n /\ turns'[k] = turns[k]
    BY <1>3, <1>9, <1>12
  <2>2. q = player_positions[i]
    BY <1>1, <1>2, <1>12, <2>1 DEF Saying
  <2> QED
    BY <1>8, <2>2
<1>13. \A k \in 1 .. Len(turns') : SaidInTurn(turns[k], LaidBefore(k))'
  BY <1>7 DEF SaidInTurn
<1> QED
  BY <1>4, <1>11, <1>12, <1>13 DEF Saying

LEMMA SayingEnd ==
  ASSUME LastTurn
  PROVE  Saying'
<1>1. ~ in_progress' /\ turns' = <<>> /\ bombs' = <<>>
  BY DEF LastTurn, ResetState
<1> QED
  BY <1>1 DEF Saying

LEMMA RoomIdles ==
  ASSUME IInv, EventInv, Saying, RoomIdle
  PROVE  IInv' /\ EventInv' /\ Saying'
<1>1. UNCHANGED <<in_progress, turns, blocks, bombs, player_positions>>
  BY DEF RoomIdle, statusVars, roomVars
<1>2. TypeOK'
  <2>1. players' \in SUBSET Session /\ reading' \in SUBSET players'
    BY DEF RoomIdle, sessionVars, IInv, TypeOK
  <2> QED
    BY <2>1, QuietStepType DEF RoomIdle, sessionVars, IInv
<1>3. Acting'
  BY DEF RoomIdle, sessionVars, IInv, Acting
<1> QED
  BY <1>1, <1>2, <1>3, StatusKept, EventKept, SayingKept DEF RoomIdle, IInv

LEMMA RoomSteps ==
  ASSUME IInv, EventInv, Saying, [Next]_vars
  PROVE  IInv' /\ EventInv' /\ Saying'
<1> SUFFICES Saying'
  BY StepInv, EventStep
<1>1. ASSUME NEW s \in Session,
             \/ Connect(s) \/ Disconnect(s) \/ JoinIgnored(s) \/ ReceiveUnknown(s)
             \/ ReceivePlaceBomb(s) \/ ReceivePlaceBlock(s)
             \/ \E d \in Direction : ReceiveMove(s, d)
      PROVE  Saying'
  <2>1. UNCHANGED <<statusVars, roomVars>>
    BY <1>1 DEF Connect, Disconnect, JoinIgnored, ReceiveUnknown, ReceivePlaceBomb,
                ReceivePlaceBlock, ReceiveMove, AddMessage
  <2> QED
    BY <2>1, SayingKept DEF statusVars, roomVars
<1>2. ASSUME NEW s \in Session, NEW n \in Names, JoinLobby(s, n)
      PROVE  Saying'
  <2>1. UNCHANGED <<in_progress, turns, bombs, player_positions>>
    BY <1>2 DEF JoinLobby
  <2> QED
    BY <2>1, SayingKept
<1>3. ASSUME NEW s \in Session, NEW n \in Names, JoinStart(s, n)
      PROVE  Saying'
  BY <1>3, SayingStart
<1>4. CASE TurnTimer
  BY <1>4, SayingTurn, SayingEnd DEF TurnTimer
<1>5. CASE UNCHANGED vars
  <2>1. UNCHANGED <<statusVars, roomVars>>
    BY <1>5 DEF vars
  <2> QED
    BY <2>1, SayingKept DEF statusVars, roomVars
<1> QED
  BY <1>1, <1>2, <1>3, <1>4, <1>5 DEF Next, SessionStep

LEMMA ReadSteps ==
  ASSUME Known, ServerReads
  PROVE  SessionStep(Mine)
<1>1. outbox \in Seq(InputMessage \cup {Join}) /\ outbox # <<>>
  BY DEF Known, ServerReads
<1>2. PICK first : first = Head(outbox)
  OBVIOUS
<1>3. first \in InputMessage \cup {Join}
  BY <1>1, <1>2, HeadTailProperties
<1>4. first.message = "Move" => first.direction \in Direction
  BY <1>3 DEF InputMessage, Join
<1>5. \/ JoinIgnored(Mine)
      \/ JoinLobby(Mine, PlayerName) \/ JoinStart(Mine, PlayerName)
      \/ ReceivePlaceBomb(Mine) \/ ReceivePlaceBlock(Mine)
      \/ first.message = "Move" /\ ReceiveMove(Mine, first.direction)
  BY <1>2 DEF ServerReads
<1> QED
  BY <1>4, <1>5, NameAssumption DEF SessionStep

(***************************************************************************)
(* Every step of the two is one of the room, or leaves it idle.            *)
(***************************************************************************)
LEMMA StepsOfRoom ==
  ASSUME Known, [RobotsNext]_robotsVars
  PROVE  [Next]_vars \/ RoomIdle
<1>1. CASE ClientConnects
  BY <1>1 DEF ClientConnects, Next, SessionStep
<1>2. CASE OthersStep
  BY <1>2 DEF OthersStep, Next
<1>3. CASE RoomTurn
  BY <1>3 DEF RoomTurn, Next
<1>4. CASE ServerReads
  BY <1>4, ReadSteps DEF Next
<1>5. CASE LinkBreaks \/ ClientNotices
  BY <1>5 DEF LinkBreaks, ClientNotices
<1>6. CASE ServerNotices
  BY <1>6 DEF ServerNotices, Next, SessionStep
<1>7. CASE ClientListens \/ ClientPlays
  BY <1>7 DEF ClientListens, ClientPlays
<1>8. CASE UNCHANGED robotsVars
  BY <1>8 DEF robotsVars
<1> QED
  BY <1>1, <1>2, <1>3, <1>4, <1>5, <1>6, <1>7, <1>8 DEF RobotsNext

--------------------------------------------------------------------------------
(***************************************************************************)
(* receive_turn, event by event.  Replay is defined by recursion, whatever *)
(* becomes of the status once an event has thrown.                         *)
(***************************************************************************)
LEMMA ReplayDefined ==
  ASSUME NEW m, Len(m.events) \in Nat
  PROVE  /\ Replay(m)[0] = [status EXCEPT !.turn = m.turn]
         /\ \A k \in 1 .. Len(m.events) :
              Replay(m)[k] = ResolveEvent(Replay(m)[k - 1], m.events[k])
<1> DEFINE N == Len(m.events)
           start == [status EXCEPT !.turn = m.turn]
           Runs(f, n) == f = [k \in 0 .. n |->
                                IF k = 0 THEN start ELSE ResolveEvent(f[k - 1], m.events[k])]
           T == {n \in 0 .. N : \E f : Runs(f, n)}
<1>1. 0 \in T
  <2> DEFINE f == [k \in 0 .. 0 |-> start]
  <2>1. f = [k \in 0 .. 0 |-> IF k = 0 THEN start ELSE ResolveEvent(f[k - 1], m.events[k])]
    <3> HIDE DEF start
    <3> QED
      OBVIOUS
  <2>2. Runs(f, 0)
    BY <2>1
  <2> HIDE DEF Runs, f
  <2> QED
    BY <2>2
<1>2. ASSUME NEW n \in 0 .. (N - 1), n \in T
      PROVE  n + 1 \in T
  <2>1. PICK f : Runs(f, n)
    BY <1>2
  <2> DEFINE next == ResolveEvent(f[n], m.events[n + 1])
             g == [k \in 0 .. (n + 1) |-> IF k = n + 1 THEN next ELSE f[k]]
  <2>2. ASSUME NEW k \in 0 .. (n + 1)
        PROVE  g[k] = IF k = 0 THEN start ELSE ResolveEvent(g[k - 1], m.events[k])
    <3>1. CASE k = n + 1
      <4>1. k # 0 /\ k - 1 = n /\ n \in 0 .. (n + 1) /\ n # n + 1
        BY <3>1
      <4>2. g[k] = next /\ g[k - 1] = f[n]
        <5> HIDE DEF next
        <5> QED
          BY <3>1, <4>1
      <4> HIDE DEF g, start
      <4> QED
        BY <3>1, <4>1, <4>2
    <3>2. CASE k # n + 1
      <4>1. k \in 0 .. n /\ (k # 0 => k - 1 \in 0 .. (n + 1) /\ k - 1 # n + 1)
        BY <3>2
      <4>2. g[k] = f[k] /\ (k # 0 => g[k - 1] = f[k - 1])
        <5> HIDE DEF next
        <5> QED
          BY <3>2, <4>1
      <4>3. f[k] = IF k = 0 THEN start ELSE ResolveEvent(f[k - 1], m.events[k])
        <5> HIDE DEF start
        <5> QED
          BY <2>1, <4>1
      <4> HIDE DEF g, start
      <4> QED
        BY <4>2, <4>3
    <3> QED
      BY <3>1, <3>2
  <2>3. Runs(g, n + 1)
    <3>1. g = [k \in 0 .. (n + 1) |-> g[k]]
      OBVIOUS
    <3> HIDE DEF g, start
    <3> QED
      BY <2>2, <3>1
  <2>4. n + 1 \in 0 .. N
    OBVIOUS
  <2> HIDE DEF Runs, g
  <2> QED
    BY <2>3, <2>4
<1>3. N \in T
  <2> HIDE DEF T
  <2>1. \A n \in 0 .. N : n \in T
    BY <1>1, <1>2, IntervalInduction
  <2> QED
    BY <2>1
<1>4. Replay(m) = CHOOSE f : Runs(f, N)
  BY DEF Replay
<1>5. Runs(Replay(m), N)
  <2> HIDE DEF Runs
  <2> QED
    BY <1>3, <1>4
<1>6. ASSUME NEW k \in 0 .. N
      PROVE  Replay(m)[k] = IF k = 0 THEN start ELSE ResolveEvent(Replay(m)[k - 1], m.events[k])
  <2> HIDE DEF start
  <2> QED
    BY <1>5
<1> HIDE DEF start
<1>7. Replay(m)[0] = start
  <2>1. PICK zero \in 0 .. N : zero = 0
    OBVIOUS
  <2> QED
    BY <1>6, <2>1
<1>8. \A k \in 1 .. N : Replay(m)[k] = ResolveEvent(Replay(m)[k - 1], m.events[k])
  BY <1>6
<1> QED
  BY <1>7, <1>8 DEF start

LEMMA EventForms ==
  ASSUME NEW e \in Event
  PROVE  \/ e.type = "BombPlaced"
         \/ e.type = "BombExploded"
         \/ /\ e.type = "PlayerMoved" /\ e.player \in AnyId /\ e.position \in Position
            /\ e = PlayerMoved(e.player, e.position)
         \/ /\ e.type = "BlockPlaced" /\ e.position \in Position
            /\ e = BlockPlaced(e.position)
  BY DEF Event, PlayerMoved, BlockPlaced

LEMMA KnownUpdate ==
  ASSUME NEW st \in KnownStatus
  PROVE  /\ \A n \in Nat : [st EXCEPT !.turn = n] \in KnownStatus
         /\ \A ps \in PlayerMap : [st EXCEPT !.players = ps] \in KnownStatus
         /\ \A ps \in PlayerMap, z \in Zeros :
              [st EXCEPT !.players = ps, !.scores = z] \in KnownStatus
         /\ \A ps \in Places : [st EXCEPT !.player_positions = ps] \in KnownStatus
         /\ \A b \in SUBSET Position : [st EXCEPT !.blocks = b] \in KnownStatus
         /\ \A n \in Nat : [st EXCEPT !.turn = n, !.blocks = {}] \in KnownStatus
         /\ \A bs \in KnownBombs : [st EXCEPT !.bombs = bs] \in KnownStatus
         /\ \A bs \in KnownBombs :
              [st EXCEPT !.bombs = bs, !.explosions = {}, !.players_scored = {}] \in KnownStatus
<1> DEFINE Boards == SUBSET Position
           None == {{}}
           S == [turn : Nat, players : PlayerMap, player_positions : Places, blocks : Boards,
                 bombs : KnownBombs, explosions : None, scores : Zeros, players_scored : None]
<1>1. KnownStatus = S
  BY DEF KnownStatus
<1>2. {} \in Boards /\ {} \in None
  OBVIOUS
<1> HIDE DEF Boards, None
<1>3. st \in S
  BY <1>1
<1>4. /\ \A n \in Nat : [st EXCEPT !.turn = n] \in S
      /\ \A ps \in PlayerMap : [st EXCEPT !.players = ps] \in S
      /\ \A ps \in PlayerMap, z \in Zeros : [st EXCEPT !.players = ps, !.scores = z] \in S
  BY <1>3
<1>5. /\ \A ps \in Places : [st EXCEPT !.player_positions = ps] \in S
      /\ \A b \in Boards : [st EXCEPT !.blocks = b] \in S
      /\ \A n \in Nat : [st EXCEPT !.turn = n, !.blocks = {}] \in S
  BY <1>2, <1>3
<1>6. /\ \A bs \in KnownBombs : [st EXCEPT !.bombs = bs] \in S
      /\ \A bs \in KnownBombs :
           [st EXCEPT !.bombs = bs, !.explosions = {}, !.players_scored = {}] \in S
  BY <1>2, <1>3
<1> HIDE DEF S
<1> QED
  BY <1>1, <1>4, <1>5, <1>6 DEF Boards

(***************************************************************************)
(* The status after the first k events es of turn t, none of which is an   *)
(* explosion.                                                              *)
(***************************************************************************)
Learnt(st, es, k, t) ==
  /\ st \in KnownStatus
  /\ st.turn = t /\ st.players = status.players
  /\ st.blocks = status.blocks \cup {p \in Position : \E i \in 1 .. k : es[i] = BlockPlaced(p)}
  /\ 0 \in DOMAIN st.bombs <=>
       0 \in DOMAIN status.bombs \/ \E i \in 1 .. k : es[i] = BombPlaced(0, Origin)
  /\ \A i \in PlayerId, p \in Position :
       /\ \A j \in 1 .. k, q \in Position : es[j] = PlayerMoved(i, q) => q = p
       /\ \/ \E j \in 1 .. k : es[j] = PlayerMoved(i, p)
          \/ i \in DOMAIN status.player_positions /\ status.player_positions[i] = p
       => i \in DOMAIN st.player_positions /\ st.player_positions[i] = p

LEMMA LearntStep ==
  ASSUME NEW es \in Seq(Event), NEW k \in Nat, k + 1 \in 1 .. Len(es), NEW t, NEW st,
         Learnt(st, es, k, t), es[k + 1].type # "BombExploded",
         es[k + 1].type = "BombPlaced" => es[k + 1] = BombPlaced(0, Origin)
  PROVE  Learnt(ResolveEvent(st, es[k + 1]), es, k + 1, t)
<1> DEFINE new == ResolveEvent(st, es[k + 1])
<1>1. PICK e \in Event : e = es[k + 1]
  BY ElementOfSeq
<1>2. PICK n : n = k + 1
  OBVIOUS
<1>3. \A j : j \in 1 .. n <=> j \in 1 .. k \/ j = n
  BY <1>2
<1>4. es[n] = e /\ new = ResolveEvent(st, e)
  BY <1>1, <1>2
<1>5. st \in KnownStatus /\ st.blocks \in SUBSET Position
  BY DEF Learnt, KnownStatus
<1> HIDE DEF new
<1>6. CASE e.type = "BombPlaced"
  <2>1. e = BombPlaced(0, Origin)
    BY <1>1, <1>6
  <2> DEFINE bs == Insert(st.bombs, 0, [position |-> Origin, timer |-> BombTimer])
  <2>2. bs \in KnownBombs /\ 0 \in DOMAIN bs
    <3> DEFINE B == [position : {Origin}, timer : 0 .. (U16 - 1)]
               bomb == [position |-> Origin, timer |-> BombTimer]
    <3>1. bomb \in B
      OBVIOUS
    <3>2. PICK D \in SUBSET {0} : st.bombs \in [D -> B]
      BY <1>5 DEF KnownStatus, KnownBombs
    <3> HIDE DEF B, bomb
    <3>3. Insert(st.bombs, 0, bomb) \in [D \cup {0} -> B]
      BY <3>1, <3>2 DEF Insert
    <3>4. D \cup {0} \in SUBSET {0}
      OBVIOUS
    <3>5. Insert(st.bombs, 0, bomb) \in UNION {[E -> B] : E \in SUBSET {0}}
      BY <3>3, <3>4
    <3>6. 0 \in DOMAIN Insert(st.bombs, 0, bomb)
      BY DEF Insert
    <3> QED
      BY <3>5, <3>6 DEF bomb, B, KnownBombs
  <2>3. new = [st EXCEPT !.bombs = bs]
    <3>1. e.bomb = 0 /\ e.position = Origin
      BY <2>1 DEF BombPlaced
    <3> QED
      BY <1>4, <1>6, <3>1 DEF ResolveEvent, PutBomb
  <2> HIDE DEF bs
  <2>4. new \in KnownStatus
    BY <1>5, <2>2, <2>3, KnownUpdate
  <2>5. /\ new.turn = st.turn /\ new.players = st.players /\ new.blocks = st.blocks
        /\ new.player_positions = st.player_positions /\ new.bombs = bs
    BY <1>5, <2>3 DEF KnownStatus
  <2>6. \A i, q : e # PlayerMoved(i, q) /\ e # BlockPlaced(q)
    BY <1>6, EventsDiffer
  <2>7. \A p : (\E i \in 1 .. n : es[i] = BlockPlaced(p)) <=> \E i \in 1 .. k : es[i] = BlockPlaced(p)
    BY <1>3, <1>4, <2>6
  <2>8. \E i \in 1 .. n : es[i] = BombPlaced(0, Origin)
    BY <1>3, <1>4, <2>1
  <2>9. \A i, q : \A j \in 1 .. n : es[j] = PlayerMoved(i, q) => j \in 1 .. k
    BY <1>3, <1>4, <2>6
  <2>10. \A j \in 1 .. k : j \in 1 .. n
    BY <1>3
  <2>11. new.blocks = status.blocks \cup {p \in Position : \E i \in 1 .. n : es[i] = BlockPlaced(p)}
    BY <2>5, <2>7 DEF Learnt
  <2>12. \A i \in PlayerId, p \in Position :
           /\ \A j \in 1 .. n, q \in Position : es[j] = PlayerMoved(i, q) => q = p
           /\ \/ \E j \in 1 .. n : es[j] = PlayerMoved(i, p)
              \/ i \in DOMAIN status.player_positions /\ status.player_positions[i] = p
           => i \in DOMAIN new.player_positions /\ new.player_positions[i] = p
    BY <2>5, <2>9, <2>10 DEF Learnt
  <2>13. new.turn = t /\ new.players = status.players
    BY <2>5 DEF Learnt
  <2> QED
    BY <1>2, <2>2, <2>4, <2>5, <2>8, <2>11, <2>12, <2>13 DEF Learnt, new
<1>7. CASE e.type = "PlayerMoved"
  <2> DEFINE ps == [i \in DOMAIN st.player_positions \cup {e.player} |->
                      IF i = e.player THEN e.position ELSE st.player_positions[i]]
  <2>1. /\ e.player \in AnyId /\ e.position \in Position
        /\ e = PlayerMoved(e.player, e.position)
    BY <1>7, EventForms
  <2>2. ps \in Places
    <3>1. PICK D \in SUBSET AnyId : st.player_positions \in [D -> Position]
      BY <1>5 DEF KnownStatus, Places
    <3>2. ps \in [D \cup {e.player} -> Position]
      BY <2>1, <3>1
    <3>3. D \cup {e.player} \in SUBSET AnyId
      BY <2>1
    <3> HIDE DEF ps
    <3> QED
      BY <3>2, <3>3 DEF Places
  <2>3. new = [st EXCEPT !.player_positions = ps]
    BY <1>4, <1>5, <1>7 DEF ResolveEvent, MoveRobot, KnownStatus
  <2>4. /\ e.player \in DOMAIN ps /\ ps[e.player] = e.position
        /\ \A i \in DOMAIN st.player_positions :
             i # e.player => i \in DOMAIN ps /\ ps[i] = st.player_positions[i]
    OBVIOUS
  <2> HIDE DEF ps
  <2>5. new \in KnownStatus
    BY <1>5, <2>2, <2>3, KnownUpdate
  <2>6. /\ new.turn = st.turn /\ new.players = st.players /\ new.blocks = st.blocks
        /\ new.player_positions = ps /\ new.bombs = st.bombs
    BY <1>5, <2>3 DEF KnownStatus
  <2>7. \A b, q : e # BombPlaced(b, q) /\ e # BlockPlaced(q)
    BY <1>7, EventsDiffer
  <2>8. /\ \A p : (\E i \in 1 .. n : es[i] = BlockPlaced(p)) <=> \E i \in 1 .. k : es[i] = BlockPlaced(p)
        /\ (\E i \in 1 .. n : es[i] = BombPlaced(0, Origin)) <=>
             \E i \in 1 .. k : es[i] = BombPlaced(0, Origin)
    BY <1>3, <1>4, <2>7
  <2>9. ASSUME NEW i \in PlayerId, NEW p \in Position,
               \A j \in 1 .. n, q \in Position : es[j] = PlayerMoved(i, q) => q = p,
               \/ \E j \in 1 .. n : es[j] = PlayerMoved(i, p)
               \/ i \in DOMAIN status.player_positions /\ status.player_positions[i] = p
        PROVE  i \in DOMAIN new.player_positions /\ new.player_positions[i] = p
    <3>1. CASE i = e.player
      <4>1. es[n] = PlayerMoved(i, e.position) /\ n \in 1 .. n
        BY <1>3, <1>4, <2>1, <3>1
      <4>2. e.position = p
        BY <2>1, <2>9, <4>1
      <4> QED
        BY <2>4, <2>6, <3>1, <4>2
    <3>2. CASE i # e.player
      <4>1. \A q : e # PlayerMoved(i, q)
        BY <2>1, <3>2, EventsDiffer
      <4>2. \A q : \A j \in 1 .. n : es[j] = PlayerMoved(i, q) => j \in 1 .. k
        BY <1>3, <1>4, <4>1
      <4>3. \A j \in 1 .. k : j \in 1 .. n
        BY <1>3
      <4>4. i \in DOMAIN st.player_positions /\ st.player_positions[i] = p
        BY <2>9, <4>2, <4>3 DEF Learnt
      <4> QED
        BY <2>4, <2>6, <3>2, <4>4
    <3> QED
      BY <3>1, <3>2
  <2>10. new.blocks = status.blocks \cup {p \in Position : \E i \in 1 .. n : es[i] = BlockPlaced(p)}
    BY <2>6, <2>8 DEF Learnt
  <2>11. 0 \in DOMAIN new.bombs <=>
           0 \in DOMAIN status.bombs \/ \E i \in 1 .. n : es[i] = BombPlaced(0, Origin)
    BY <2>6, <2>8 DEF Learnt
  <2>12. new.turn = t /\ new.players = status.players
    BY <2>6 DEF Learnt
  <2> QED
    BY <1>2, <2>5, <2>9, <2>10, <2>11, <2>12 DEF Learnt, new
<1>8. CASE e.type = "BlockPlaced"
  <2>1. e.position \in Position /\ e = BlockPlaced(e.position)
    BY <1>8, EventForms
  <2>2. new = [st EXCEPT !.blocks = st.blocks \cup {e.position}]
    BY <1>4, <1>5, <1>8 DEF ResolveEvent, PutBlock, KnownStatus
  <2>3. st.blocks \cup {e.position} \in SUBSET Position
    BY <1>5, <2>1
  <2>4. new \in KnownStatus
    BY <1>5, <2>2, <2>3, KnownUpdate
  <2>5. /\ new.turn = st.turn /\ new.players = st.players
        /\ new.blocks = st.blocks \cup {e.position}
        /\ new.player_positions = st.player_positions /\ new.bombs = st.bombs
    BY <1>5, <2>2 DEF KnownStatus
  <2>6. \A i, q, b : e # PlayerMoved(i, q) /\ e # BombPlaced(b, q)
    BY <1>8, EventsDiffer
  <2>7. \A p : e = BlockPlaced(p) <=> p = e.position
    BY <2>1, EventsDiffer
  <2>8. \A p : (\E i \in 1 .. n : es[i] = BlockPlaced(p)) <=>
               p = e.position \/ \E i \in 1 .. k : es[i] = BlockPlaced(p)
    BY <1>3, <1>4, <2>7
  <2>9. (\E i \in 1 .. n : es[i] = BombPlaced(0, Origin)) <=>
          \E i \in 1 .. k : es[i] = BombPlaced(0, Origin)
    BY <1>3, <1>4, <2>6
  <2>10. \A i, q : \A j \in 1 .. n : es[j] = PlayerMoved(i, q) => j \in 1 .. k
    BY <1>3, <1>4, <2>6
  <2>11. \A j \in 1 .. k : j \in 1 .. n
    BY <1>3
  <2>12. new.blocks = status.blocks \cup {p \in Position : \E i \in 1 .. n : es[i] = BlockPlaced(p)}
    BY <2>1, <2>5, <2>8 DEF Learnt
  <2>13. \A i \in PlayerId, p \in Position :
           /\ \A j \in 1 .. n, q \in Position : es[j] = PlayerMoved(i, q) => q = p
           /\ \/ \E j \in 1 .. n : es[j] = PlayerMoved(i, p)
              \/ i \in DOMAIN status.player_positions /\ status.player_positions[i] = p
           => i \in DOMAIN new.player_positions /\ new.player_positions[i] = p
    BY <2>5, <2>10, <2>11 DEF Learnt
  <2>14. new.turn = t /\ new.players = status.players
    BY <2>5 DEF Learnt
  <2>15. 0 \in DOMAIN new.bombs <=>
           0 \in DOMAIN status.bombs \/ \E i \in 1 .. n : es[i] = BombPlaced(0, Origin)
    BY <2>5, <2>9 DEF Learnt
  <2> QED
    BY <1>2, <2>4, <2>12, <2>13, <2>14, <2>15 DEF Learnt, new
<1> QED
  BY <1>1, <1>6, <1>7, <1>8, EventForms

\* No player has the id of an observer's robot.
LEMMA NobodyHas255 == NoPlayer \notin PlayerId
  BY DEF NoPlayer, PlayerId

(***************************************************************************)
(* The first explosion a client reads of throws: it knows the bomb, and no *)
(* score of the robot 255.                                                 *)
(***************************************************************************)
LEMMA ExplosionThrows ==
  ASSUME NEW es \in Seq(Event), NEW k \in Nat, NEW t, NEW st, Learnt(st, es, k, t),
         SaidInTurn(es, 0 \in DOMAIN status.bombs),
         k + 1 \in 1 .. Len(es), es[k + 1].type = "BombExploded"
  PROVE  /\ Throws(st, es[k + 1])
         /\ es[k + 1].bomb \in DOMAIN st.bombs /\ NoPlayer \in es[k + 1].robots
<1>1. PICK n \in 1 .. Len(es) : n = k + 1 /\ n - 1 = k
  OBVIOUS
<1>2. /\ es[n].bomb = 0 /\ NoPlayer \in es[n].robots
      /\ \/ 0 \in DOMAIN status.bombs
         \/ \E j \in 1 .. (n - 1) : es[j] = BombPlaced(0, Origin)
  BY <1>1 DEF SaidInTurn
<1>3. 0 \in DOMAIN st.bombs
  BY <1>1, <1>2 DEF Learnt
<1>4. st \in KnownStatus
  BY DEF Learnt
<1>5. st.players_scored = {} /\ st.scores \in Zeros
  BY <1>4 DEF KnownStatus
<1>6. DOMAIN st.scores \subseteq PlayerId
  BY <1>5 DEF Zeros
<1>7. NoPlayer \notin DOMAIN st.scores
  BY <1>6, NobodyHas255
<1>8. ~ (es[n].robots \ st.players_scored \subseteq DOMAIN st.scores)
  BY <1>2, <1>5, <1>7
<1> QED
  BY <1>1, <1>2, <1>3, <1>8 DEF Throws

LEMMA ReplayLearns ==
  ASSUME status \in KnownStatus, NEW m, m.turn \in Nat, m.events \in Seq(Event),
         SaidInTurn(m.events, 0 \in DOMAIN status.bombs),
         NEW n \in 0 .. Len(m.events),
         \A j \in 1 .. n : ~ Throws(Replay(m)[j - 1], m.events[j])
  PROVE  /\ \A j \in 1 .. n : m.events[j].type # "BombExploded"
         /\ Learnt(Replay(m)[n], m.events, n, m.turn)
<1>1. PICK es \in Seq(Event) : es = m.events
  OBVIOUS
<1>2. PICK t \in Nat : t = m.turn
  OBVIOUS
<1>3. PICK R : R = Replay(m)
  OBVIOUS
<1>4. Len(es) \in Nat /\ n \in 0 .. Len(es)
  BY <1>1, LenProperties
<1>5. /\ R[0] = [status EXCEPT !.turn = t]
      /\ \A k \in 1 .. Len(es) : R[k] = ResolveEvent(R[k - 1], es[k])
  BY <1>1, <1>2, <1>3, <1>4, ReplayDefined
<1>6. SaidInTurn(es, 0 \in DOMAIN status.bombs)
  BY <1>1
<1>7. \A j \in 1 .. n : ~ Throws(R[j - 1], es[j])
  BY <1>1, <1>3
<1> DEFINE T == {k \in 0 .. n : /\ Learnt(R[k], es, k, t)
                               /\ \A j \in 1 .. k : es[j].type # "BombExploded"}
<1>8. 0 \in T
  <2>1. [status EXCEPT !.turn = t] \in KnownStatus
    BY KnownUpdate
  <2>2. PICK st : st = [status EXCEPT !.turn = t]
    OBVIOUS
  <2>3. /\ st.turn = t /\ st.players = status.players /\ st.blocks = status.blocks
        /\ st.player_positions = status.player_positions /\ st.bombs = status.bombs
    BY <2>2 DEF KnownStatus
  <2>4. \A j : j \notin 1 .. 0
    OBVIOUS
  <2>5. Learnt(st, es, 0, t)
    BY <2>1, <2>2, <2>3, <2>4 DEF Learnt
  <2> QED
    BY <1>4, <1>5, <2>2, <2>4, <2>5
<1>9. ASSUME NEW k \in 0 .. (n - 1), k \in T
      PROVE  k + 1 \in T
  <2>1. k \in Nat /\ k + 1 \in 1 .. Len(es) /\ (k + 1) - 1 = k /\ k + 1 \in 1 .. n
        /\ k + 1 \in 0 .. n
    BY <1>4
  <2>2. PICK st : st = R[k]
    OBVIOUS
  <2>3. Learnt(st, es, k, t) /\ \A j \in 1 .. k : es[j].type # "BombExploded"
    BY <1>9, <2>2
  <2>4. R[k + 1] = ResolveEvent(st, es[k + 1])
    BY <1>5, <2>1, <2>2
  <2>5. ~ Throws(st, es[k + 1])
    BY <1>7, <2>1, <2>2
  <2>6. es[k + 1].type # "BombExploded"
    BY <1>6, <2>1, <2>3, <2>5, ExplosionThrows
  <2>7. es[k + 1].type = "BombPlaced" => es[k + 1] = BombPlaced(0, Origin)
    BY <1>6, <2>1 DEF SaidInTurn
  <2>8. Learnt(ResolveEvent(st, es[k + 1]), es, k + 1, t)
    BY <2>1, <2>3, <2>6, <2>7, LearntStep
  <2>9. \A j \in 1 .. (k + 1) : j \in 1 .. k \/ j = k + 1
    OBVIOUS
  <2> QED
    BY <2>1, <2>3, <2>4, <2>6, <2>8, <2>9
<1> HIDE DEF T
<1>10. n \in Nat /\ n \in 0 .. n
  BY <1>4
<1>11. n \in T
  <2>1. \A k \in 0 .. n : k \in T
    BY <1>8, <1>9, <1>10, IntervalInduction
  <2> QED
    BY <1>10, <2>1
<1> QED
  BY <1>1, <1>2, <1>3, <1>11 DEF T

LEMMA NothingThrows ==
  ASSUME NEW m, Len(m.events) \in Nat, ~ TurnThrows(m)
  PROVE  \A j \in 1 .. Len(m.events) : ~ Throws(Replay(m)[j - 1], m.events[j])
<1>1. PICK N \in Nat : N = Len(m.events)
  OBVIOUS
<1> DEFINE Bad(j) == Throws(Replay(m)[j - 1], m.events[j])
           T == {k \in 0 .. N : \A j \in 1 .. k : ~ Bad(j)}
<1> HIDE DEF Bad
<1>2. 0 \in T
  BY <1>1
<1>3. ASSUME NEW k \in 0 .. (N - 1), k \in T
      PROVE  k + 1 \in T
  <2>1. k + 1 \in 1 .. N /\ k + 1 \in 0 .. N /\ (k + 1) - 1 = k
    BY <1>1
  <2>2. \A j \in 1 .. k : ~ Bad(j)
    BY <1>3
  <2>3. ~ Bad(k + 1)
    BY <1>1, <2>1, <2>2 DEF TurnThrows, Bad
  <2>4. \A j \in 1 .. (k + 1) : j \in 1 .. k \/ j = k + 1
    OBVIOUS
  <2> QED
    BY <2>1, <2>2, <2>3, <2>4
<1> HIDE DEF T
<1>4. \A k \in 0 .. N : k \in T
  BY <1>1, <1>2, <1>3, IntervalInduction
<1>5. N \in T
  BY <1>1, <1>4
<1> QED
  BY <1>1, <1>5 DEF T, Bad

(***************************************************************************)
(* A turn that is read tells of no explosion; one that kills the reader    *)
(* does it with the robot 255.                                             *)
(***************************************************************************)
LEMMA TurnRead ==
  ASSUME status \in KnownStatus, NEW m, m.turn \in Nat, m.events \in Seq(Event),
         SaidInTurn(m.events, 0 \in DOMAIN status.bombs), ~ TurnThrows(m)
  PROVE  Learnt(Replay(m)[Len(m.events)], m.events, Len(m.events), m.turn)
<1>1. PICK N \in 0 .. Len(m.events) : N = Len(m.events)
  BY LenProperties
<1>2. \A j \in 1 .. N : ~ Throws(Replay(m)[j - 1], m.events[j])
  BY <1>1, LenProperties, NothingThrows
<1> QED
  BY <1>1, <1>2, ReplayLearns

LEMMA TurnKills ==
  ASSUME status \in KnownStatus, NEW m, m.turn \in Nat, m.events \in Seq(Event),
         SaidInTurn(m.events, 0 \in DOMAIN status.bombs), TurnThrows(m)
  PROVE  \E k \in 1 .. Len(m.events) :
           /\ m.events[k].type = "BombExploded"
           /\ m.events[k].bomb \in DOMAIN Replay(m)[k - 1].bombs
           /\ NoPlayer \in m.events[k].robots
<1>1. PICK k \in 1 .. Len(m.events) :
        /\ Throws(Replay(m)[k - 1], m.events[k])
        /\ \A j \in 1 .. (k - 1) : ~ Throws(Replay(m)[j - 1], m.events[j])
  BY DEF TurnThrows
<1>2. PICK n \in 0 .. Len(m.events) : n = k - 1 /\ n \in Nat /\ n + 1 = k
  <2>1. Len(m.events) \in Nat
    BY LenProperties
  <2> QED
    BY <2>1
<1>3. Learnt(Replay(m)[n], m.events, n, m.turn)
  BY <1>1, <1>2, ReplayLearns
<1>4. m.events[k].type = "BombExploded"
  BY <1>1 DEF Throws
<1>5. n + 1 \in 1 .. Len(m.events) /\ m.events[n + 1].type = "BombExploded"
  BY <1>2, <1>4
<1>6. m.events[n + 1].bomb \in DOMAIN Replay(m)[n].bombs /\ NoPlayer \in m.events[n + 1].robots
  BY <1>2, <1>3, <1>5, ExplosionThrows
<1> QED
  BY <1>2, <1>4, <1>6

--------------------------------------------------------------------------------
(***************************************************************************)
(* The client reads.  First, messages and what is left after one is taken. *)
(***************************************************************************)
LEMMA MessageForms ==
  ASSUME NEW m \in Message
  PROVE  /\ m.type \in {"Hello", "AcceptedPlayer", "GameStarted", "Turn", "GameEnded"}
         /\ m.type = "AcceptedPlayer" => m.id \in PlayerId /\ m.name \in Names
         /\ m.type = "GameStarted" => m.players \in PlayerMap
         /\ m.type = "Turn" => m.turn \in Nat /\ m.events \in Seq(Event)
<1> DEFINE Events == Seq(Event)
<1>1. m \in [type : {"Hello"}]
           \cup [type : {"AcceptedPlayer"}, id : PlayerId, name : Names]
           \cup [type : {"GameStarted"}, players : PlayerMap]
           \cup [type : {"Turn"}, turn : Nat, events : Events]
           \cup [type : {"GameEnded"}, scores : {<<>>}]
  BY DEF Message
<1> HIDE DEF Events
<1>2. /\ m.type \in {"Hello", "AcceptedPlayer", "GameStarted", "Turn", "GameEnded"}
      /\ m.type = "AcceptedPlayer" => m.id \in PlayerId /\ m.name \in Names
      /\ m.type = "GameStarted" => m.players \in PlayerMap
      /\ m.type = "Turn" => m.turn \in Nat /\ m.events \in Events
  BY <1>1
<1> QED
  BY <1>2 DEF Events

LEMMA Taking ==
  ASSUME Known, TakeMessage
  PROVE  /\ Len(inbox) \in Nat \ {0} /\ Len(inbox') = Len(inbox) - 1
         /\ inbox' \in Seq(Message)
         /\ \A k \in 1 .. Len(inbox') : inbox'[k] = inbox[k + 1]
         /\ Head(inbox) = inbox[1] /\ Head(inbox) \in Message
         /\ listener = "reading"
<1>1. inbox \in Seq(Message) /\ inbox # <<>> /\ inbox' = Tail(inbox) /\ listener = "reading"
  BY DEF Known, TakeMessage
<1> DEFINE Messages == Seq(Message)
<1>2. /\ Head(inbox) \in Message /\ inbox' \in Messages /\ Len(inbox') = Len(inbox) - 1
      /\ \A k \in 1 .. Len(inbox') : inbox'[k] = inbox[k + 1]
  BY <1>1, HeadTailProperties
<1>3. Len(inbox) \in Nat \ {0} /\ Head(inbox) = inbox[1]
  BY <1>1
<1> QED
  BY <1>1, <1>2, <1>3

LEMMA SaidMore ==
  ASSUME NEW es, NEW l, NEW more, SaidInTurn(es, l), l => more
  PROVE  SaidInTurn(es, more)
  BY DEF SaidInTurn

LEMMA AnnouncedTail ==
  ASSUME Known, TakeMessage,
         0 \in DOMAIN status.bombs \/ Lays(Head(inbox)) => 0 \in DOMAIN status'.bombs
  PROVE  Announced'
<1> SUFFICES ASSUME NEW n \in 1 .. Len(inbox'), inbox'[n].type = "Turn"
             PROVE  SaidInTurn(inbox'[n].events,
                      0 \in DOMAIN status'.bombs \/ \E m \in 1 .. (n - 1) : Lays(inbox'[m]))
  BY DEF Announced, SaidInTurn, Lays
<1>1. n \in Nat /\ n + 1 \in 1 .. Len(inbox) /\ inbox'[n] = inbox[n + 1] /\ (n + 1) - 1 = n
  BY Taking
<1>2. SaidInTurn(inbox[n + 1].events,
                 0 \in DOMAIN status.bombs \/ \E m \in 1 .. n : Lays(inbox[m]))
  BY <1>1, Taking DEF Known, Announced
<1>3. ASSUME NEW m \in 1 .. n, Lays(inbox[m])
      PROVE  0 \in DOMAIN status'.bombs \/ \E l \in 1 .. (n - 1) : Lays(inbox'[l])
  <2>1. CASE m = 1
    BY <1>3, <2>1, Taking
  <2>2. CASE m # 1
    <3>1. PICK l : l = m - 1
      OBVIOUS
    <3>2. l \in 1 .. (n - 1) /\ l \in 1 .. Len(inbox') /\ l + 1 = m
      BY <1>1, <2>2, <3>1, Taking
    <3>3. inbox'[l] = inbox[m]
      BY <3>2, Taking
    <3> QED
      BY <1>3, <3>2, <3>3
  <2> QED
    BY <2>1, <2>2
<1>4. \/ 0 \in DOMAIN status.bombs \/ \E m \in 1 .. n : Lays(inbox[m])
      => 0 \in DOMAIN status'.bombs \/ \E m \in 1 .. (n - 1) : Lays(inbox'[m])
  BY <1>3
<1> QED
  BY <1>1, <1>2, <1>4, SaidMore

LEMMA SeatedTail ==
  ASSUME TypeOK, Known, Seated, TakeMessage, UNCHANGED <<link, next_id>>,
         \A i \in PlayerId :
           \/ i \in DOMAIN status.players
           \/ Head(inbox).type = "AcceptedPlayer" /\ Head(inbox).id = i
           \/ Head(inbox).type = "GameStarted"
           => i \in DOMAIN status'.players
  PROVE  Seated'
<1>1. ASSUME NEW i \in PlayerId, NEW k \in 0 .. Len(inbox'), Heard(i, k + 1)
      PROVE  Heard(i, k)'
  <2>1. ASSUME NEW j \in 1 .. (k + 1),
               \/ inbox[j].type = "AcceptedPlayer" /\ inbox[j].id = i
               \/ inbox[j].type = "GameStarted"
        PROVE  Heard(i, k)'
    <3>1. CASE j = 1
      BY <2>1, <3>1, Taking DEF Heard
    <3>2. CASE j # 1
      <4>1. PICK l : l = j - 1
        OBVIOUS
      <4>2. l \in 1 .. k /\ l \in 1 .. Len(inbox') /\ l + 1 = j
        BY <3>2, <4>1, Taking
      <4>3. inbox'[l] = inbox[j]
        BY <4>2, Taking
      <4> QED
        BY <2>1, <4>2, <4>3 DEF Heard
    <3> QED
      BY <3>1, <3>2
  <2> QED
    BY <1>1, <2>1 DEF Heard
<1>2. ASSUME NEW k \in 1 .. Len(inbox')
      PROVE  /\ inbox'[k].type = "AcceptedPlayer" =>
                  \A i \in 0 .. (inbox'[k].id - 1) : Heard(i, k - 1)'
             /\ inbox'[k].type = "GameStarted" => DOMAIN inbox'[k].players = PlayerId
  <2>1. k + 1 \in 1 .. Len(inbox) /\ inbox'[k] = inbox[k + 1] /\ (k + 1) - 1 = k
        /\ k - 1 \in 0 .. Len(inbox') /\ (k - 1) + 1 = k
    BY Taking
  <2>2. inbox[k + 1] \in Message
    <3>1. inbox \in Seq(Message)
      BY DEF Known
    <3> QED
      BY <2>1, <3>1, ElementOfSeq
  <2>3. inbox[k + 1].type = "AcceptedPlayer" =>
          inbox[k + 1].id \in PlayerId /\ \A i \in 0 .. (inbox[k + 1].id - 1) : Heard(i, k)
    BY <2>1, <2>2, MessageForms DEF Seated
  <2>4. ASSUME inbox[k + 1].type = "AcceptedPlayer", NEW i \in 0 .. (inbox[k + 1].id - 1)
        PROVE  Heard(i, k - 1)'
    <3>1. i \in PlayerId
      BY <2>3, <2>4 DEF PlayerId
    <3>2. Heard(i, (k - 1) + 1)
      BY <2>1, <2>3, <2>4
    <3> QED
      BY <1>1, <2>1, <3>1, <3>2
  <2> QED
    BY <2>1, <2>4 DEF Seated
<1>3. ASSUME link' = "up", NEW i \in 0 .. (next_id' - 1)
      PROVE  Heard(i, Len(inbox))'
  <2>1. i \in PlayerId /\ i \in 0 .. (next_id - 1)
    <3>1. next_id \in 0 .. PlayersCount
      BY DEF TypeOK
    <3> QED
      BY <3>1 DEF PlayerId
  <2>2. Heard(i, Len(inbox))
    BY <1>3, <2>1 DEF Seated
  <2>3. PICK k \in 0 .. Len(inbox') : k = Len(inbox') /\ k + 1 = Len(inbox)
    BY Taking
  <2> QED
    BY <1>1, <2>1, <2>2, <2>3 DEF Heard
<1> QED
  BY <1>2, <1>3 DEF Seated, Heard

(***************************************************************************)
(* One message less is under way before the client draws an empty lobby.   *)
(***************************************************************************)
LEMMA BlankTail ==
  ASSUME Known, TakeMessage, NEW n \in 1 .. Len(inbox), Blank(n),
         Chatter(Head(inbox)) => in_lobby' = in_lobby /\ status'.blocks = status.blocks,
         Head(inbox).type = "GameEnded" => in_lobby' /\ status'.blocks = {}
  PROVE  Blank(n - 1)'
<1>1. PICK l : l = n - 1
  OBVIOUS
<1>2. l \in 0 .. Len(inbox') /\ n = l + 1
  BY <1>1, Taking
<1>3. \A k \in 1 .. l : inbox'[k] = inbox[k + 1] /\ k + 1 \in 1 .. n
  BY <1>2, Taking
<1>4. CASE in_lobby /\ status.blocks = {} /\ \A k \in 1 .. n : Chatter(inbox[k])
  <2>1. Chatter(Head(inbox))
    BY <1>2, <1>4, Taking
  <2>2. \A k \in 1 .. l : Chatter(inbox'[k])
    BY <1>3, <1>4
  <2> QED
    BY <1>1, <1>4, <2>1, <2>2 DEF Blank, Chatter
<1>5. ASSUME NEW e \in 1 .. n, inbox[e].type = "GameEnded",
             \A k \in (e + 1) .. n : Chatter(inbox[k])
      PROVE  Blank(n - 1)'
  <2>1. CASE e = 1
    <3>1. in_lobby' /\ status'.blocks = {}
      BY <1>5, <2>1, Taking
    <3>2. \A k \in 1 .. l : k + 1 \in (e + 1) .. n
      BY <1>2, <2>1
    <3>3. \A k \in 1 .. l : Chatter(inbox'[k])
      BY <1>3, <1>5, <3>2
    <3> QED
      BY <1>1, <3>1, <3>3 DEF Blank, Chatter
  <2>2. CASE e # 1
    <3>1. PICK d : d = e - 1
      OBVIOUS
    <3>2. d \in 1 .. l /\ d + 1 = e
      BY <1>2, <2>2, <3>1
    <3>3. inbox'[d].type = "GameEnded"
      BY <1>3, <1>5, <3>2
    <3>4. \A k \in (d + 1) .. l : k \in 1 .. l /\ k + 1 \in (e + 1) .. n
      BY <1>2, <3>2
    <3>5. \A k \in (d + 1) .. l : Chatter(inbox'[k])
      BY <1>3, <1>5, <3>4
    <3> QED
      BY <1>1, <3>2, <3>3, <3>5 DEF Blank, Chatter
  <2> QED
    BY <2>1, <2>2
<1> QED
  BY <1>4, <1>5 DEF Blank

LEMMA ComingTail ==
  ASSUME IInv, Known, TakeMessage, UNCHANGED turns,
         NEW j \in 0 .. Len(turns), Coming(j), Len(inbox) > Len(turns) - j
  PROVE  Coming(j)'
<1>1. PICK L \in Nat : L = Len(turns)
  BY LogOfTurns
<1>2. PICK n \in Nat : n = Len(inbox')
  BY Taking
<1>3. Len(inbox) = n + 1 /\ n >= L - j
  BY <1>1, <1>2, Taking
<1>4. ASSUME NEW k \in (j + 1) .. L
      PROVE  inbox'[n - L + k] = Turn(k - 1, turns[k])
  <2>1. PICK i : i = n - L + k
    OBVIOUS
  <2>2. i \in 1 .. n /\ i + 1 = (n + 1) - L + k
    BY <1>1, <1>3, <2>1
  <2>3. inbox'[i] = inbox[i + 1]
    BY <1>2, <2>2, Taking
  <2>4. inbox[(n + 1) - L + k] = Turn(k - 1, turns[k])
    BY <1>1, <1>3 DEF Coming
  <2> QED
    BY <2>1, <2>2, <2>3, <2>4
<1> QED
  BY <1>1, <1>2, <1>3, <1>4 DEF Coming

LEMMA FollowedTail ==
  ASSUME IInv, Known, Followed, TakeMessage,
         UNCHANGED <<link, in_progress, turns, game_players>>,
         Chatter(Head(inbox)) => in_lobby' = in_lobby /\ status'.blocks = status.blocks,
         Head(inbox).type = "GameEnded" => in_lobby' /\ status'.blocks = {},
         Head(inbox) = GameStarted(game_players) /\ status.blocks = {} => Taken(0)',
         \A j \in 0 .. (Len(turns) - 1) :
           in_progress /\ Taken(j) /\ Head(inbox) = Turn(j, turns[j + 1]) => Taken(j + 1)'
  PROVE  Followed'
<1> SUFFICES ASSUME link' = "up"
             PROVE  IF in_progress' THEN InGame' \/ BeforeGame' ELSE Blank(Len(inbox))'
  BY DEF Followed
<1>1. PICK L \in Nat : L = Len(turns)
  BY LogOfTurns
<1>2. PICK n \in Nat : n = Len(inbox')
  BY Taking
<1>3. Len(inbox) = n + 1 /\ Head(inbox) = inbox[1]
  BY <1>2, Taking
<1>4. IF in_progress THEN InGame \/ BeforeGame ELSE Blank(Len(inbox))
  BY Taking DEF Followed
<1>5. CASE ~ in_progress
  <2>1. n + 1 \in 1 .. Len(inbox) /\ Blank(n + 1) /\ (n + 1) - 1 = n
    BY <1>3, <1>4, <1>5
  <2>2. Blank((n + 1) - 1)'
    BY <2>1, BlankTail
  <2> QED
    BY <1>2, <1>5, <2>1, <2>2 DEF Blank
<1>6. CASE in_progress /\ InGame
  <2>1. PICK j \in 0 .. L : n + 1 = L - j /\ Coming(j) /\ Taken(j)
    BY <1>1, <1>3, <1>6 DEF InGame
  <2>2. /\ j \in 0 .. (L - 1) /\ j + 1 \in (j + 1) .. L /\ (n + 1) - L + (j + 1) = 1
        /\ (j + 1) - 1 = j /\ j + 1 \in 0 .. L /\ n = L - (j + 1) /\ n + 1 > L - (j + 1)
    BY <2>1
  <2>3. inbox[1] = Turn(j, turns[j + 1])
    <3>1. inbox[Len(inbox) - L + (j + 1)] = Turn((j + 1) - 1, turns[j + 1])
      BY <1>1, <2>1, <2>2 DEF Coming
    <3>2. Len(inbox) - L + (j + 1) = 1
      BY <1>3, <2>2
    <3> QED
      BY <2>2, <3>1, <3>2
  <2>4. Taken(j + 1)'
    BY <1>1, <1>3, <1>6, <2>1, <2>2, <2>3
  <2>5. Coming(j + 1)
    <3>1. \A k \in ((j + 1) + 1) .. L : k \in (j + 1) .. L
      BY <2>2
    <3> QED
      BY <1>1, <1>3, <2>1, <2>2, <3>1 DEF Coming
  <2>6. Coming(j + 1)'
    BY <1>1, <1>3, <2>2, <2>5, ComingTail
  <2>7. InGame'
    <3>1. PICK i \in 0 .. L : i = j + 1
      BY <2>2
    <3>2. Taken(i)' /\ Coming(i)' /\ n = L - i
      BY <2>2, <2>4, <2>6, <3>1
    <3> QED
      BY <1>1, <1>2, <3>2 DEF InGame
  <2> QED
    BY <1>6, <2>7
<1>7. CASE in_progress /\ BeforeGame
  <2>1. PICK g \in 1 .. (n + 1) :
          /\ n + 1 = g + L /\ inbox[g] = GameStarted(game_players)
          /\ Coming(0) /\ Blank(g - 1)
    BY <1>1, <1>3, <1>7 DEF BeforeGame
  <2>2. Coming(0)'
    <3>1. PICK zero \in 0 .. L : zero = 0
      BY <1>1
    <3>2. Coming(zero) /\ Len(inbox) > Len(turns) - zero
      BY <1>1, <1>3, <2>1, <3>1
    <3>3. Coming(zero)'
      BY <1>1, <3>1, <3>2, ComingTail
    <3> QED
      BY <3>1, <3>3
  <2>3. CASE g = 1
    <3>1. status.blocks = {}
      <4>1. \A e : e \notin 1 .. (1 - 1)
        OBVIOUS
      <4> QED
        BY <2>1, <2>3, <4>1 DEF Blank
    <3>2. Taken(0)'
      BY <1>3, <2>1, <2>3, <3>1
    <3>3. PICK zero \in 0 .. L : zero = 0 /\ n = L - zero
      BY <1>1, <2>1, <2>3
    <3>4. InGame'
      BY <1>1, <1>2, <2>2, <3>2, <3>3 DEF InGame
    <3> QED
      BY <1>7, <3>4
  <2>4. CASE g # 1
    <3>1. PICK h : h = g - 1
      OBVIOUS
    <3>2. h \in 1 .. n /\ h + 1 = g /\ h \in 1 .. Len(inbox) /\ n = h + L
      BY <1>3, <2>1, <2>4, <3>1
    <3>3. Blank(h)
      BY <2>1, <3>1
    <3>4. Blank(h - 1)'
      BY <3>2, <3>3, BlankTail
    <3>5. inbox'[h] = GameStarted(game_players)
      BY <1>2, <2>1, <3>2, Taking
    <3>6. BeforeGame'
      BY <1>1, <1>2, <2>2, <3>2, <3>4, <3>5 DEF BeforeGame
    <3> QED
      BY <1>7, <3>6
  <2> QED
    BY <2>3, <2>4
<1> QED
  BY <1>4, <1>5, <1>6, <1>7

(***************************************************************************)
(* receive_turn: what the client knows after turn j of the game.           *)
(***************************************************************************)
LEMMA TurnAhead ==
  ASSUME Known, TakeMessage, Head(inbox).type = "Turn"
  PROVE  /\ Head(inbox).turn \in Nat /\ Head(inbox).events \in Seq(Event)
         /\ SaidInTurn(Head(inbox).events, 0 \in DOMAIN status.bombs)
<1>1. PICK m \in Message : m = Head(inbox)
  BY Taking
<1>2. m.turn \in Nat /\ m.events \in Seq(Event)
  BY <1>1, MessageForms
<1>3. SaidInTurn(m.events, 0 \in DOMAIN status.bombs)
  <2>1. PICK n \in 1 .. Len(inbox) : n = 1
    BY Taking
  <2>2. inbox[n] = m
    BY <1>1, <2>1, Taking
  <2>3. SaidInTurn(m.events,
                   0 \in DOMAIN status.bombs \/ \E l \in 1 .. (n - 1) : Lays(inbox[l]))
    BY <1>1, <2>2, Taking DEF Known, Announced
  <2>4. \A l : l \notin 1 .. (n - 1)
    BY <2>1
  <2> QED
    BY <2>3, <2>4, SaidMore
<1> QED
  BY <1>1, <1>2, <1>3

LEMMA TurnLearnt ==
  ASSUME Known, ReceiveTurn
  PROVE  /\ Head(inbox).turn \in Nat /\ Head(inbox).events \in Seq(Event)
         /\ Learnt(status', Head(inbox).events, Len(Head(inbox).events), Head(inbox).turn)
<1>1. TakeMessage /\ Head(inbox).type = "Turn" /\ ~ TurnThrows(Head(inbox))
  BY DEF ReceiveTurn, Reads
<1>2. PICK m : m = Head(inbox)
  OBVIOUS
<1>3. /\ m.turn \in Nat /\ m.events \in Seq(Event)
      /\ SaidInTurn(m.events, 0 \in DOMAIN status.bombs)
  BY <1>1, <1>2, TurnAhead
<1>4. Learnt(Replay(m)[Len(m.events)], m.events, Len(m.events), m.turn)
  BY <1>1, <1>2, <1>3, TurnRead DEF Known
<1>5. status' = Replay(m)[Len(m.events)]
  BY <1>2 DEF ReceiveTurn
<1> QED
  BY <1>2, <1>3, <1>4, <1>5

LEMMA TakenTurn ==
  ASSUME IInv, EventInv, Saying, Known, ReceiveTurn, in_progress,
         UNCHANGED <<turns, game_players, player_positions>>,
         NEW j \in 0 .. (Len(turns) - 1), Taken(j), Head(inbox) = Turn(j, turns[j + 1])
  PROVE  Taken(j + 1)'
<1>1. PICK es : es = turns[j + 1]
  OBVIOUS
<1>2. PICK n \in 1 .. Len(turns) : n = j + 1 /\ n - 1 = j
  BY LogOfTurns
<1>3. es \in Seq(Event) /\ es = turns[n]
  BY <1>1, <1>2, LogOfTurns
<1>4. Head(inbox).events = es /\ Head(inbox).turn = j
  BY <1>1 DEF Turn
<1>5. Learnt(status', es, Len(es), j)
  BY <1>4, TurnLearnt
<1>6. \A k : k \in 1 .. n <=> k \in 1 .. j \/ k = n
  BY <1>2
<1>7. \A e : e \in Range(es) <=> \E i \in 1 .. Len(es) : es[i] = e
  BY <1>3, ElementsInRange
<1>8. ~ in_lobby'
  BY DEF Taken, ReceiveTurn
<1>9. status'.players = game_players' /\ status'.turn = j
  BY <1>5 DEF Taken, Learnt
<1>10. status'.blocks = {p \in Position : \E k \in 1 .. n : BlockPlaced(p) \in Range(turns'[k])}
  <2>1. status.blocks = {p \in Position : \E k \in 1 .. j : BlockPlaced(p) \in Range(turns[k])}
    BY DEF Taken
  <2>2. status'.blocks = status.blocks \cup {p \in Position : BlockPlaced(p) \in Range(turns[n])}
    BY <1>3, <1>5, <1>7 DEF Learnt
  <2> QED
    BY <1>6, <2>1, <2>2
<1>11. (\E k \in 1 .. n : BombPlaced(0, Origin) \in Range(turns'[k])) => 0 \in DOMAIN status'.bombs
  <2>1. (\E k \in 1 .. j : BombPlaced(0, Origin) \in Range(turns[k])) => 0 \in DOMAIN status.bombs
    BY DEF Taken
  <2>2. 0 \in DOMAIN status'.bombs <=>
          0 \in DOMAIN status.bombs \/ BombPlaced(0, Origin) \in Range(turns[n])
    BY <1>3, <1>5, <1>7 DEF Learnt
  <2> QED
    BY <1>6, <2>1, <2>2
<1>12. ASSUME NEW i \in PlayerId
       PROVE  /\ i \in DOMAIN status'.player_positions
              /\ status'.player_positions[i] = player_positions'[i]
  <2>1. PICK p \in Position : p = player_positions[i]
    BY DEF IInv, TypeOK, EventInv, Standing
  <2>2. \A l \in 1 .. Len(es), q \in Position : es[l] = PlayerMoved(i, q) => q = p
    BY <1>3, <1>7, <2>1 DEF Saying
  <2>3. \/ \E l \in 1 .. Len(es) : es[l] = PlayerMoved(i, p)
        \/ i \in DOMAIN status.player_positions /\ status.player_positions[i] = p
    <3>1. CASE j = 0
      <4>1. n = 1
        BY <1>2, <3>1
      <4>2. PlayerMoved(i, p) \in Range(turns[1])
        BY <2>1 DEF Saying
      <4> QED
        BY <1>3, <1>7, <4>1, <4>2
    <3>2. CASE j # 0
      BY <2>1, <3>2 DEF Taken
    <3> QED
      BY <3>1, <3>2
  <2>4. i \in DOMAIN status'.player_positions /\ status'.player_positions[i] = p
    BY <1>5, <2>2, <2>3 DEF Learnt
  <2> QED
    BY <2>1, <2>4
<1>13. Taken(n)'
  BY <1>2, <1>8, <1>9, <1>10, <1>11, <1>12 DEF Taken
<1> QED
  BY <1>2, <1>13 DEF Taken

(***************************************************************************)
(* What every message that is read keeps, and then each one.               *)
(***************************************************************************)
LEMMA LinkKept ==
  ASSUME Linked, link # "down", RoomIdle
  PROVE  Linked'
  BY DEF Linked, RoomIdle, sessionVars

LEMMA ReadingKeeps ==
  ASSUME IInv, Known, Seated, TakeMessage, RoomIdle, status' \in KnownStatus,
         in_lobby' \in BOOLEAN, listener' \in {"reading", "lobby", "game", "dead"},
         \/ listener' = "dead"
         \/ 0 \in DOMAIN status.bombs \/ Lays(Head(inbox)) => 0 \in DOMAIN status'.bombs,
         \A i \in PlayerId :
           \/ i \in DOMAIN status.players
           \/ Head(inbox).type = "AcceptedPlayer" /\ Head(inbox).id = i
           \/ Head(inbox).type = "GameStarted"
           => i \in DOMAIN status'.players
  PROVE  Known' /\ Seated'
<1>1. UNCHANGED <<link, next_id>>
  BY DEF RoomIdle, roomVars
<1>2. Seated'
  BY <1>1, SeatedTail DEF IInv
<1>3. listener' # "dead" => Announced'
  BY AnnouncedTail
<1>4. inbox' \in Seq(Message) /\ outbox' \in Seq(InputMessage \cup {Join})
      /\ input' \in {"waiting", "sending", "dead"}
  BY Taking DEF Known, TakeMessage
<1> QED
  BY <1>2, <1>3, <1>4 DEF Known

LEMMA HelloRead ==
  ASSUME IInv, Known, Seated, Followed, ReceiveHello, RoomIdle
  PROVE  Known' /\ Seated' /\ Followed'
<1>1. /\ TakeMessage /\ Head(inbox).type = "Hello" /\ listener' = "lobby"
      /\ in_lobby' = in_lobby /\ status' = status
  BY DEF ReceiveHello, Reads
<1>2. UNCHANGED <<link, in_progress, turns, game_players>>
  BY DEF RoomIdle, statusVars, roomVars
<1>3. ~ Lays(Head(inbox))
  BY <1>1 DEF Lays
<1>4. Known' /\ Seated'
  BY <1>1, <1>3, ReadingKeeps DEF Known
<1>5. Head(inbox) # GameStarted(game_players) /\ \A j, es : Head(inbox) # Turn(j, es)
  BY <1>1 DEF GameStarted, Turn
<1> QED
  BY <1>1, <1>2, <1>4, <1>5, FollowedTail

LEMMA AcceptedRead ==
  ASSUME IInv, Known, Seated, Followed, ReceiveAcceptedPlayer, RoomIdle
  PROVE  Known' /\ Seated' /\ Followed'
<1>1. /\ TakeMessage /\ Head(inbox).type = "AcceptedPlayer" /\ listener' = "lobby"
      /\ in_lobby' = in_lobby
  BY DEF ReceiveAcceptedPlayer, Reads
<1>2. UNCHANGED <<link, in_progress, turns, game_players>>
  BY DEF RoomIdle, statusVars, roomVars
<1>3. PICK m \in Message : m = Head(inbox)
  BY <1>1, Taking
<1>4. m.id \in PlayerId /\ m.name \in Names
  BY <1>1, <1>3, MessageForms
<1>5. PICK ps : ps = Insert(status.players, m.id, m.name)
  OBVIOUS
<1>6. status' = [status EXCEPT !.players = ps]
  BY <1>3, <1>5 DEF ReceiveAcceptedPlayer, Known, KnownStatus
<1>7. DOMAIN ps = DOMAIN status.players \cup {m.id}
  BY <1>5 DEF Insert
<1>8. \A i \in 0 .. (m.id - 1) : i \in DOMAIN status.players
  <2>1. PICK n \in 1 .. Len(inbox) : n = 1 /\ n - 1 = 0
    BY <1>1, Taking
  <2>2. inbox[n] = m
    BY <1>1, <1>3, <2>1, Taking
  <2>3. \A i \in 0 .. (m.id - 1) : Heard(i, n - 1)
    BY <1>1, <1>3, <2>2 DEF Seated
  <2>4. \A l : l \notin 1 .. (n - 1)
    BY <2>1
  <2> QED
    BY <2>3, <2>4 DEF Heard
<1>9. ps \in PlayerMap
  <2>1. status.players \in PlayerMap
    BY DEF Known, KnownStatus
  <2>2. PICK n \in 0 .. PlayersCount : status.players \in [0 .. (n - 1) -> Names]
    BY <2>1 DEF PlayerMap
  <2>3. m.id <= n
    <3>1. SUFFICES ASSUME m.id > n
                   PROVE  FALSE
      BY <1>4, <2>2 DEF PlayerId
    <3>2. n \in 0 .. (m.id - 1)
      BY <1>4, <2>2, <3>1 DEF PlayerId
    <3>3. n \notin 0 .. (n - 1)
      OBVIOUS
    <3> QED
      BY <1>8, <2>2, <3>2, <3>3
  <2>4. PICK d \in 0 .. PlayersCount : DOMAIN status.players \cup {m.id} = 0 .. (d - 1)
    <3>1. CASE m.id < n
      <4>1. (0 .. (n - 1)) \cup {m.id} = 0 .. (n - 1)
        BY <1>4, <2>2, <3>1 DEF PlayerId
      <4> QED
        BY <2>2, <4>1
    <3>2. CASE m.id = n
      <4>1. n + 1 \in 0 .. PlayersCount /\ (0 .. (n - 1)) \cup {n} = 0 .. ((n + 1) - 1)
        BY <1>4, <2>2, <3>2 DEF PlayerId
      <4> QED
        BY <2>2, <3>2, <4>1
    <3>3. m.id \in Nat
      BY <1>4 DEF PlayerId
    <3>4. m.id < n \/ m.id = n
      BY <2>3, <3>3
    <3> QED
      BY <3>1, <3>2, <3>4
  <2>5. ps \in [DOMAIN status.players \cup {m.id} -> Names]
    BY <1>4, <1>5, <2>2 DEF Insert
  <2>6. ps \in [0 .. (d - 1) -> Names]
    BY <2>4, <2>5
  <2> QED
    BY <2>6 DEF PlayerMap
<1>10. status' \in KnownStatus
  BY <1>6, <1>9, KnownUpdate DEF Known
<1>11. /\ status'.players = ps /\ status'.bombs = status.bombs /\ status'.blocks = status.blocks
  BY <1>6 DEF Known, KnownStatus
<1>12. ~ Lays(Head(inbox))
  BY <1>1 DEF Lays
<1>13. in_lobby' \in BOOLEAN
  BY <1>1 DEF Known
<1>14. \A i \in PlayerId :
         \/ i \in DOMAIN status.players
         \/ Head(inbox).type = "AcceptedPlayer" /\ Head(inbox).id = i
         \/ Head(inbox).type = "GameStarted"
         => i \in DOMAIN status'.players
  BY <1>1, <1>3, <1>7, <1>11
<1>15. Known' /\ Seated'
  BY <1>1, <1>10, <1>11, <1>12, <1>13, <1>14, ReadingKeeps
<1>16. Head(inbox) # GameStarted(game_players) /\ \A j, es : Head(inbox) # Turn(j, es)
  BY <1>1 DEF GameStarted, Turn
<1> QED
  BY <1>1, <1>2, <1>11, <1>15, <1>16, FollowedTail

LEMMA StartedRead ==
  ASSUME IInv, Known, Seated, Followed, ReceiveGameStarted, RoomIdle
  PROVE  Known' /\ Seated' /\ Followed'
<1>1. /\ TakeMessage /\ Head(inbox).type = "GameStarted" /\ listener' = listener
      /\ in_lobby' = FALSE
  BY DEF ReceiveGameStarted, Reads
<1>2. UNCHANGED <<link, in_progress, turns, game_players>>
  BY DEF RoomIdle, statusVars, roomVars
<1>3. PICK m \in Message : m = Head(inbox)
  BY <1>1, Taking
<1>4. PICK ps \in PlayerMap : ps = m.players
  BY <1>1, <1>3, MessageForms
<1>5. DOMAIN ps = PlayerId
  <2>1. PICK n \in 1 .. Len(inbox) : n = 1
    BY <1>1, Taking
  <2>2. inbox[n] = m
    BY <1>1, <1>3, <2>1, Taking
  <2> QED
    BY <1>1, <1>3, <1>4, <2>2 DEF Seated
<1>6. PICK z : z = [i \in PlayerId \cup DOMAIN status.scores |->
                      IF i \in DOMAIN status.scores THEN status.scores[i] ELSE 0]
  OBVIOUS
<1>7. z \in Zeros
  <2>1. status.scores \in Zeros
    BY DEF Known, KnownStatus
  <2>2. PICK D \in SUBSET PlayerId : status.scores \in [D -> {0}]
    BY <2>1 DEF Zeros
  <2>3. z \in [PlayerId \cup D -> {0}]
    BY <1>6, <2>2
  <2>4. PlayerId \cup D \in SUBSET PlayerId
    OBVIOUS
  <2> QED
    BY <2>3, <2>4 DEF Zeros
<1>8. status' = [status EXCEPT !.players = ps, !.scores = z]
  <2>1. status' = [status EXCEPT !.players = ps,
                     !.scores = [i \in DOMAIN ps \cup DOMAIN status.scores |->
                                   IF i \in DOMAIN @ THEN @[i] ELSE 0]]
    BY <1>3, <1>4 DEF ReceiveGameStarted
  <2>2. status \in KnownStatus
    BY DEF Known
  <2> QED
    BY <1>5, <1>6, <2>1, <2>2 DEF KnownStatus
<1>9. status' \in KnownStatus
  BY <1>7, <1>8, KnownUpdate DEF Known
<1>10. /\ status'.players = ps /\ status'.bombs = status.bombs /\ status'.blocks = status.blocks
  BY <1>8 DEF Known, KnownStatus
<1>11. ~ Lays(Head(inbox))
  BY <1>1 DEF Lays
<1>12. in_lobby' \in BOOLEAN
  BY <1>1
<1>13. listener' \in {"reading", "lobby", "game", "dead"}
  BY <1>1 DEF Known
<1>14. Known' /\ Seated'
  BY <1>1, <1>5, <1>9, <1>10, <1>11, <1>12, <1>13, ReadingKeeps
<1>15. ASSUME Head(inbox) = GameStarted(game_players), status.blocks = {}
       PROVE  Taken(0)'
  <2>1. ps = game_players
    BY <1>3, <1>4, <1>15 DEF GameStarted
  <2>2. \A k : k \notin 1 .. 0
    OBVIOUS
  <2> QED
    BY <1>1, <1>2, <1>10, <1>15, <2>1, <2>2 DEF Taken
<1>16. \A j, es : Head(inbox) # Turn(j, es)
  BY <1>1 DEF Turn
<1>17. ~ Chatter(Head(inbox)) /\ Head(inbox).type # "GameEnded"
  BY <1>1 DEF Chatter
<1> QED
  BY <1>1, <1>2, <1>14, <1>15, <1>16, <1>17, FollowedTail

LEMMA TurnReadKeeps ==
  ASSUME IInv, EventInv, Saying, Known, Seated, Followed, ReceiveTurn, RoomIdle
  PROVE  Known' /\ Seated' /\ Followed'
<1>1. /\ TakeMessage /\ Head(inbox).type = "Turn" /\ listener' = "game"
      /\ in_lobby' = in_lobby
  BY DEF ReceiveTurn, Reads
<1>2. UNCHANGED <<link, in_progress, turns, game_players, player_positions>>
  BY DEF RoomIdle, statusVars, roomVars
<1>3. PICK es : es = Head(inbox).events
  OBVIOUS
<1>4. es \in Seq(Event) /\ Learnt(status', es, Len(es), Head(inbox).turn)
  BY <1>3, TurnLearnt
<1>5. status' \in KnownStatus /\ status'.players = status.players
  BY <1>4 DEF Learnt
<1>6. 0 \in DOMAIN status.bombs \/ Lays(Head(inbox)) => 0 \in DOMAIN status'.bombs
  BY <1>3, <1>4, ElementsInRange DEF Learnt, Lays
<1>7. in_lobby' \in BOOLEAN
  BY <1>1 DEF Known
<1>8. Known' /\ Seated'
  BY <1>1, <1>5, <1>6, <1>7, ReadingKeeps
<1>9. Head(inbox) # GameStarted(game_players)
  BY <1>1 DEF GameStarted
<1>10. ~ Chatter(Head(inbox)) /\ Head(inbox).type # "GameEnded"
  BY <1>1 DEF Chatter
<1>11. \A j \in 0 .. (Len(turns) - 1) :
         in_progress /\ Taken(j) /\ Head(inbox) = Turn(j, turns[j + 1]) => Taken(j + 1)'
  BY <1>2, TakenTurn
<1> QED
  BY <1>1, <1>2, <1>8, <1>9, <1>10, <1>11, FollowedTail

LEMMA TurnKillKeeps ==
  ASSUME IInv, Known, Seated, ReceiveTurnThrows, RoomIdle
  PROVE  Known' /\ Seated' /\ Followed'
<1>1. /\ TakeMessage /\ Head(inbox).type = "Turn" /\ listener' = "dead"
      /\ in_lobby' = in_lobby /\ status' = status
  BY DEF ReceiveTurnThrows, Reads
<1>2. Known' /\ Seated'
  BY <1>1, ReadingKeeps DEF Known
<1> QED
  BY <1>1, <1>2 DEF Followed

LEMMA EndedRead ==
  ASSUME IInv, Known, Seated, Followed, ReceiveGameEnded, RoomIdle
  PROVE  Known' /\ Seated' /\ Followed'
<1>1. /\ TakeMessage /\ Head(inbox).type = "GameEnded" /\ listener' = "lobby"
      /\ in_lobby' = TRUE /\ status' = [status EXCEPT !.turn = 0, !.blocks = {}]
  BY DEF ReceiveGameEnded, Reads
<1>2. UNCHANGED <<link, in_progress, turns, game_players>>
  BY DEF RoomIdle, statusVars, roomVars
<1>3. status' \in KnownStatus
  BY <1>1, KnownUpdate DEF Known
<1>4. /\ status'.players = status.players /\ status'.bombs = status.bombs
      /\ status'.blocks = {}
  BY <1>1 DEF Known, KnownStatus
<1>5. ~ Lays(Head(inbox))
  BY <1>1 DEF Lays
<1>6. Known' /\ Seated'
  BY <1>1, <1>3, <1>4, <1>5, ReadingKeeps
<1>7. Head(inbox) # GameStarted(game_players) /\ \A j, es : Head(inbox) # Turn(j, es)
  BY <1>1 DEF GameStarted, Turn
<1>8. ~ Chatter(Head(inbox))
  BY <1>1 DEF Chatter
<1> QED
  BY <1>1, <1>2, <1>4, <1>6, <1>7, <1>8, FollowedTail

(***************************************************************************)
(* What is drawn takes nothing of this away: only the timers of the bombs  *)
(* and what belongs to the turn are changed.                               *)
(***************************************************************************)
LEMMA KeptWhole ==
  ASSUME Seated, Followed, Known, listener' = "dead" \/ listener # "dead",
         UNCHANGED <<inbox, in_lobby, link, next_id, in_progress, turns, game_players,
                     player_positions>>,
         status'.players = status.players, status'.blocks = status.blocks,
         status'.turn = status.turn, status'.player_positions = status.player_positions,
         DOMAIN status'.bombs = DOMAIN status.bombs
  PROVE  Seated' /\ Followed' /\ (listener' # "dead" => Announced')
<1>1. Seated'
  BY DEF Seated, Heard
<1>2. \A j : (Taken(j) <=> Taken(j)') /\ (Coming(j) <=> Coming(j)') /\ (Blank(j) <=> Blank(j)')
  BY DEF Taken, Coming, Blank
<1>3. (InGame => InGame') /\ (BeforeGame => BeforeGame')
  BY <1>2 DEF InGame, BeforeGame
<1>4. Followed'
  BY <1>2, <1>3 DEF Followed
<1>5. listener' # "dead" => Announced'
  BY DEF Known, Announced, SaidInTurn, Lays
<1> QED
  BY <1>1, <1>4, <1>5

LEMMA DrawingKeeps ==
  ASSUME Known, Seated, Followed, LobbyDrawn \/ GameDrawn, RoomIdle
  PROVE  Known' /\ Seated' /\ Followed'
<1>1. /\ listener # "dead" /\ listener' = "reading"
      /\ UNCHANGED <<inbox, outbox, input, in_lobby>>
  BY DEF LobbyDrawn, GameDrawn
<1>2. UNCHANGED <<link, next_id, in_progress, turns, game_players, player_positions>>
  BY DEF RoomIdle, statusVars, roomVars
<1>3. /\ status' \in KnownStatus
      /\ status'.players = status.players /\ status'.blocks = status.blocks
      /\ status'.turn = status.turn /\ status'.player_positions = status.player_positions
      /\ DOMAIN status'.bombs = DOMAIN status.bombs
  <2>1. CASE LobbyDrawn
    BY <2>1 DEF LobbyDrawn, Known
  <2>2. CASE GameDrawn
    <3> DEFINE B == [position : {Origin}, timer : 0 .. (U16 - 1)]
    <3>1. PICK bs : bs = CountDown(status.bombs)
      OBVIOUS
    <3>2. status' = [status EXCEPT !.bombs = bs, !.explosions = {}, !.players_scored = {}]
      BY <2>2, <3>1 DEF GameDrawn
    <3>3. PICK D \in SUBSET {0} : status.bombs \in [D -> B]
      BY DEF Known, KnownStatus, KnownBombs
    <3>4. ASSUME NEW b \in D
          PROVE  [status.bombs[b] EXCEPT !.timer = (@ - 1) % U16] \in B
      <4>1. status.bombs[b] \in B
        BY <3>3
      <4>2. (status.bombs[b].timer - 1) % U16 \in 0 .. (U16 - 1)
        <5>1. status.bombs[b].timer - 1 \in Int /\ U16 \in Int /\ U16 > 0
          BY <4>1
        <5> QED
          BY <5>1
      <4> QED
        BY <4>1, <4>2
    <3> HIDE DEF B
    <3>5. bs \in [D -> B]
      BY <3>1, <3>3, <3>4 DEF CountDown
    <3>6. bs \in KnownBombs
      BY <3>5 DEF KnownBombs, B
    <3>7. status' \in KnownStatus
      BY <3>2, <3>6, KnownUpdate DEF Known
    <3>8. DOMAIN bs = DOMAIN status.bombs
      BY <3>1 DEF CountDown
    <3>9. /\ status'.players = status.players /\ status'.blocks = status.blocks
          /\ status'.turn = status.turn /\ status'.player_positions = status.player_positions
          /\ status'.bombs = bs
      BY <3>2 DEF Known, KnownStatus
    <3> QED
      BY <3>7, <3>8, <3>9
  <2> QED
    BY <2>1, <2>2
<1>4. Seated' /\ Followed' /\ (listener' # "dead" => Announced')
  BY <1>1, <1>2, <1>3, KeptWhole
<1> QED
  BY <1>1, <1>3, <1>4 DEF Known

LEMMA FailedDrawingKeeps ==
  ASSUME Known, Seated, Followed, DrawingFails, RoomIdle
  PROVE  Known' /\ Seated' /\ Followed'
<1>1. /\ listener # "dead" /\ listener' = "dead"
      /\ UNCHANGED <<inbox, outbox, input, in_lobby, status>>
  BY DEF DrawingFails
<1>2. UNCHANGED <<link, next_id, in_progress, turns, game_players, player_positions>>
  BY DEF RoomIdle, statusVars, roomVars
<1>3. Seated' /\ Followed'
  BY <1>1, <1>2, KeptWhole
<1> QED
  BY <1>1, <1>3 DEF Known

LEMMA ListenKeeps ==
  ASSUME IInv, EventInv, Saying, Linked, Known, Seated, Followed, ClientListens
  PROVE  Linked' /\ Known' /\ Seated' /\ Followed'
<1>1. RoomIdle /\ link # "down" /\ Listen
  BY DEF ClientListens
<1>2. Linked'
  BY <1>1, LinkKept
<1>3. Known' /\ Seated' /\ Followed'
  BY <1>1, HelloRead, AcceptedRead, StartedRead, TurnReadKeeps, TurnKillKeeps, EndedRead,
     DrawingKeeps, FailedDrawingKeeps DEF Listen
<1> QED
  BY <1>2, <1>3

(***************************************************************************)
(* What the player does changes nothing of what the client knows.          *)
(***************************************************************************)
LEMMA SendKept ==
  ASSUME outbox \in Seq(InputMessage \cup {Join}), NEW m \in InputMessage \cup {Join}, Send(m)
  PROVE  outbox' \in Seq(InputMessage \cup {Join})
<1> DEFINE S == InputMessage \cup {Join}
<1>1. outbox' = Append(outbox, m)
  BY DEF Send
<1> HIDE DEF S
<1>2. outbox \in Seq(S) /\ m \in S
  BY DEF S
<1>3. outbox' \in Seq(S)
  BY <1>1, <1>2, AppendProperties
<1> QED
  BY <1>3 DEF S

LEMMA PlayKeeps ==
  ASSUME Linked, Known, Seated, Followed, ClientPlays
  PROVE  Linked' /\ Known' /\ Seated' /\ Followed'
<1>1. RoomIdle /\ link # "down"
  BY DEF ClientPlays
<1>2. /\ UNCHANGED <<inbox, listener, in_lobby, status>>
      /\ input' \in {"waiting", "sending", "dead"}
      /\ outbox' = outbox \/ \E m \in InputMessage \cup {Join} : Send(m)
  BY DEF ClientPlays, Play, InputSent, ReceiveInput, Known
<1>3. outbox' \in Seq(InputMessage \cup {Join})
  BY <1>2, SendKept DEF Known
<1>4. UNCHANGED <<link, next_id, in_progress, turns, game_players, player_positions>>
  BY <1>1 DEF RoomIdle, statusVars, roomVars
<1>5. Seated' /\ Followed' /\ (listener' # "dead" => Announced')
  BY <1>2, <1>4, KeptWhole
<1>6. Linked'
  BY <1>1, LinkKept
<1> QED
  BY <1>2, <1>3, <1>5, <1>6 DEF Known

(***************************************************************************)
(* Neither do the steps of a connection that breaks, nor those in which    *)
(* nothing happens.                                                        *)
(***************************************************************************)
LEMMA BreakKeeps ==
  ASSUME Linked, Known, Seated, Followed,
         LinkBreaks \/ ClientNotices \/ ServerNotices \/ UNCHANGED robotsVars
  PROVE  Linked' /\ Known' /\ Seated' /\ Followed'
<1>1. /\ UNCHANGED <<inbox, outbox, in_lobby, status, next_id, in_progress, turns,
                     game_players, player_positions>>
      /\ input' \in {input, "dead"}
      /\ \/ listener' = listener
         \/ link' = "broken" /\ listener = "reading" /\ listener' = "dead"
  <2>1. CASE LinkBreaks \/ UNCHANGED robotsVars
    BY <2>1 DEF LinkBreaks, vars, clientVars, statusVars, roomVars, robotsVars
  <2>2. CASE ClientNotices
    <3>1. UNCHANGED <<vars, link>> /\ link = "broken" /\ (ListenerFails \/ InputFails)
      BY <2>2 DEF ClientNotices
    <3>2. UNCHANGED <<inbox, outbox, in_lobby, status>>
      BY <3>1 DEF ListenerFails, InputFails
    <3>3. \/ listener = "reading" /\ listener' = "dead" /\ input' = input
          \/ listener' = listener /\ input' = "dead"
      BY <3>1 DEF ListenerFails, InputFails
    <3> QED
      BY <3>1, <3>2, <3>3 DEF vars, statusVars, roomVars
  <2>3. CASE ServerNotices
    BY <2>3 DEF ServerNotices, Disconnect, clientVars, statusVars, roomVars
  <2> QED
    BY <2>1, <2>2, <2>3
<1>2. Linked'
  <2>1. CASE UNCHANGED robotsVars
    BY <2>1 DEF robotsVars, vars, sessionVars, clientVars, Linked, ClientInit
  <2>2. CASE LinkBreaks \/ ClientNotices \/ ServerNotices
    BY <2>2 DEF LinkBreaks, ClientNotices, ServerNotices, Linked
  <2> QED
    BY <2>1, <2>2
<1>3. Seated'
  <2>1. link' = "up" => link = "up"
    BY DEF LinkBreaks, ClientNotices, ServerNotices, robotsVars
  <2> QED
    BY <1>1, <2>1 DEF Seated, Heard
<1>4. listener' # "dead" => Announced'
  <2>1. inbox' = inbox /\ status' = status /\ (listener' # "dead" => listener # "dead")
    BY <1>1
  <2>2. Announced => Announced'
    BY <2>1 DEF Announced, SaidInTurn, Lays
  <2> QED
    BY <2>1, <2>2 DEF Known
<1>5. Known'
  BY <1>1, <1>4 DEF Known
<1>6. Followed'
  <2>1. CASE link' = "up"
    <3>1. UNCHANGED <<link, listener>>
      BY <1>1, <2>1 DEF LinkBreaks, ClientNotices, ServerNotices, robotsVars, clientVars
    <3> QED
      BY <1>1, <3>1, KeptWhole
  <2>2. CASE link' # "up"
    BY <2>2 DEF Followed
  <2> QED
    BY <2>1, <2>2
<1> QED
  BY <1>2, <1>3, <1>5, <1>6

--------------------------------------------------------------------------------
(***************************************************************************)
(* What the room writes to this session is added behind what is under way. *)
(***************************************************************************)
LEMMA Arriving ==
  ASSUME Known, NEW ms \in Seq(Message), inbox' = inbox \o ms
  PROVE  /\ inbox' \in Seq(Message) /\ Len(inbox) \in Nat /\ Len(ms) \in Nat
         /\ Len(inbox') = Len(inbox) + Len(ms)
         /\ \A k \in 1 .. Len(inbox) : inbox'[k] = inbox[k]
         /\ \A k \in 1 .. Len(ms) : inbox'[Len(inbox) + k] = ms[k]
         /\ \A n \in 1 .. Len(inbox') :
              n \in 1 .. Len(inbox) \/ \E k \in 1 .. Len(ms) : n = Len(inbox) + k
<1>1. inbox \in Seq(Message)
  BY DEF Known
<1>2. PICK n \in Nat : n = Len(inbox)
  BY <1>1, LenProperties
<1>3. PICK l \in Nat : l = Len(ms)
  BY LenProperties
<1>4. /\ inbox' \in Seq(Message) /\ Len(inbox') = n + l
      /\ \A i \in 1 .. n + l : inbox'[i] = IF i <= n THEN inbox[i] ELSE ms[i - n]
  BY <1>1, <1>2, <1>3, ConcatProperties
<1>5. \A k \in 1 .. n : inbox'[k] = inbox[k]
  BY <1>4
<1>6. ASSUME NEW k \in 1 .. l
      PROVE  inbox'[n + k] = ms[k]
  <2>1. n + k \in 1 .. n + l /\ ~ (n + k <= n) /\ (n + k) - n = k
    OBVIOUS
  <2> QED
    BY <1>4, <2>1
<1>7. ASSUME NEW i \in 1 .. n + l, i \notin 1 .. n
      PROVE  \E k \in 1 .. l : i = n + k
  <2>1. i - n \in 1 .. l /\ i = n + (i - n)
    BY <1>7
  <2> QED
    BY <2>1
<1> QED
  BY <1>2, <1>3, <1>4, <1>5, <1>6, <1>7

LEMMA AnnouncedMore ==
  ASSUME Known, listener # "dead", NEW ms \in Seq(Message), inbox' = inbox \o ms,
         status' = status,
         \A k \in 1 .. Len(ms) : ms[k].type = "Turn" =>
           SaidInTurn(ms[k].events,
             \/ 0 \in DOMAIN status.bombs
             \/ \E m \in 1 .. Len(inbox) : Lays(inbox[m])
             \/ \E m \in 1 .. (k - 1) : Lays(ms[m]))
  PROVE  Announced'
<1> SUFFICES ASSUME NEW n \in 1 .. Len(inbox'), inbox'[n].type = "Turn"
             PROVE  SaidInTurn(inbox'[n].events,
                      0 \in DOMAIN status'.bombs \/ \E m \in 1 .. (n - 1) : Lays(inbox'[m]))
  BY DEF Announced, SaidInTurn, Lays
<1>1. CASE n \in 1 .. Len(inbox)
  <2>1. SaidInTurn(inbox[n].events,
                   0 \in DOMAIN status.bombs \/ \E m \in 1 .. (n - 1) : Lays(inbox[m]))
    BY <1>1, Arriving DEF Known, Announced
  <2>2. \A m \in 1 .. (n - 1) : m \in 1 .. Len(inbox)
    BY <1>1, Arriving
  <2>3. \A m \in 1 .. (n - 1) : inbox'[m] = inbox[m]
    BY <2>2, Arriving
  <2> QED
    BY <1>1, <2>1, <2>3, SaidMore, Arriving
<1>2. ASSUME NEW k \in 1 .. Len(ms), n = Len(inbox) + k
      PROVE  SaidInTurn(inbox'[n].events,
               0 \in DOMAIN status'.bombs \/ \E m \in 1 .. (n - 1) : Lays(inbox'[m]))
  <2>1. inbox'[n] = ms[k]
    BY <1>2, Arriving
  <2>2. SaidInTurn(ms[k].events,
          \/ 0 \in DOMAIN status.bombs
          \/ \E m \in 1 .. Len(inbox) : Lays(inbox[m])
          \/ \E m \in 1 .. (k - 1) : Lays(ms[m]))
    BY <2>1
  <2>3. ASSUME NEW m \in 1 .. Len(inbox), Lays(inbox[m])
        PROVE  \E l \in 1 .. (n - 1) : Lays(inbox'[l])
    <3>1. m \in 1 .. (n - 1) /\ inbox'[m] = inbox[m]
      BY <1>2, Arriving
    <3> QED
      BY <2>3, <3>1
  <2>4. ASSUME NEW m \in 1 .. (k - 1), Lays(ms[m])
        PROVE  \E l \in 1 .. (n - 1) : Lays(inbox'[l])
    <3>1. m \in 1 .. Len(ms) /\ Len(inbox) + m \in 1 .. (n - 1)
      BY <1>2, Arriving
    <3>2. inbox'[Len(inbox) + m] = ms[m]
      BY <3>1, Arriving
    <3> QED
      BY <2>4, <3>1, <3>2
  <2> QED
    BY <2>1, <2>2, <2>3, <2>4, SaidMore
<1>3. n \in 1 .. Len(inbox) \/ \E k \in 1 .. Len(ms) : n = Len(inbox) + k
  BY Arriving
<1> QED
  BY <1>1, <1>2, <1>3

(***************************************************************************)
(* A player that the client has not heard of is among what is added.       *)
(***************************************************************************)
ToldOf(i, ms, k) ==
  \E j \in 1 .. k : \/ ms[j].type = "AcceptedPlayer" /\ ms[j].id = i
                    \/ ms[j].type = "GameStarted"

LEMMA SeatedMore ==
  ASSUME Known, Seated, NEW ms \in Seq(Message), inbox' = inbox \o ms, status' = status,
         \A k \in 1 .. Len(ms) :
           /\ ms[k].type = "AcceptedPlayer" =>
                \A i \in 0 .. (ms[k].id - 1) : Heard(i, Len(inbox)) \/ ToldOf(i, ms, k - 1)
           /\ ms[k].type = "GameStarted" => DOMAIN ms[k].players = PlayerId,
         \A i \in 0 .. (next_id' - 1) : Heard(i, Len(inbox)) \/ ToldOf(i, ms, Len(ms))
  PROVE  Seated'
<1>1. PICK L \in Nat : L = Len(inbox)
  BY Arriving
<1>2. \A i : Heard(i, L) <=> i \in DOMAIN status.players \/ ToldOf(i, inbox, L)
  BY DEF Heard, ToldOf
<1>3. \A i, k : Heard(i, k)' <=> i \in DOMAIN status.players \/ ToldOf(i, inbox', k)
  BY DEF Heard, ToldOf
<1>4. ASSUME NEW i, NEW k \in 0 .. Len(ms), Heard(i, L) \/ ToldOf(i, ms, k)
      PROVE  i \in DOMAIN status.players \/ ToldOf(i, inbox', L + k)
  <2>1. ASSUME ToldOf(i, inbox, L)
        PROVE  ToldOf(i, inbox', L + k)
    <3>1. \A j \in 1 .. L : j \in 1 .. L + k /\ inbox'[j] = inbox[j]
      BY <1>1, Arriving
    <3> QED
      BY <2>1, <3>1 DEF ToldOf
  <2>2. ASSUME ToldOf(i, ms, k)
        PROVE  ToldOf(i, inbox', L + k)
    <3>1. \A j \in 1 .. k : j \in 1 .. Len(ms) /\ L + j \in 1 .. L + k
      BY <1>1, Arriving
    <3>2. \A j \in 1 .. k : inbox'[L + j] = ms[j]
      BY <1>1, <3>1, Arriving
    <3> QED
      BY <2>2, <3>1, <3>2 DEF ToldOf
  <2> QED
    BY <1>2, <1>4, <2>1, <2>2
<1>5. ASSUME NEW n \in 1 .. Len(inbox')
      PROVE  /\ inbox'[n].type = "AcceptedPlayer" =>
                  \A i \in 0 .. (inbox'[n].id - 1) : Heard(i, n - 1)'
             /\ inbox'[n].type = "GameStarted" => DOMAIN inbox'[n].players = PlayerId
  <2>1. CASE n \in 1 .. L
    <3>1. inbox'[n] = inbox[n] /\ \A j \in 1 .. (n - 1) : j \in 1 .. L /\ inbox'[j] = inbox[j]
      BY <1>1, <2>1, Arriving
    <3>2. \A i : Heard(i, n - 1) => Heard(i, n - 1)'
      BY <3>1 DEF Heard
    <3> QED
      BY <1>1, <2>1, <3>1, <3>2 DEF Seated
  <2>2. ASSUME NEW k \in 1 .. Len(ms), n = L + k
        PROVE  /\ inbox'[n].type = "AcceptedPlayer" =>
                    \A i \in 0 .. (inbox'[n].id - 1) : Heard(i, n - 1)'
               /\ inbox'[n].type = "GameStarted" => DOMAIN inbox'[n].players = PlayerId
    <3>1. inbox'[n] = ms[k]
      BY <1>1, <2>2, Arriving
    <3>2. k - 1 \in 0 .. Len(ms) /\ n - 1 = L + (k - 1)
      BY <2>2, Arriving
    <3>3. \A i : Heard(i, L) \/ ToldOf(i, ms, k - 1) => Heard(i, n - 1)'
      BY <1>3, <1>4, <3>2
    <3> QED
      BY <1>1, <3>1, <3>3
  <2> QED
    BY <1>1, <2>1, <2>2, Arriving
<1>6. ASSUME NEW i \in 0 .. (next_id' - 1)
      PROVE  Heard(i, Len(inbox))'
  <2>1. Len(ms) \in 0 .. Len(ms) /\ Len(inbox') = L + Len(ms)
    BY <1>1, Arriving
  <2>2. i \in DOMAIN status.players \/ ToldOf(i, inbox', L + Len(ms))
    BY <1>1, <1>4, <2>1
  <2> QED
    BY <2>1, <2>2 DEF Heard, ToldOf
<1> QED
  BY <1>5, <1>6 DEF Seated, Heard

LEMMA BlankMore ==
  ASSUME Known, NEW ms \in Seq(Message), inbox' = inbox \o ms,
         in_lobby' = in_lobby, status' = status, Blank(Len(inbox)),
         NEW c \in 0 .. Len(ms), \A k \in 1 .. c : Chatter(ms[k]),
         NEW n, n = Len(inbox) + c
  PROVE  Blank(n)'
<1>1. PICK L \in Nat : L = Len(inbox) /\ n = L + c
  BY Arriving
<1>2. \A k \in 1 .. L : inbox'[k] = inbox[k]
  BY <1>1, Arriving
<1>3. ASSUME NEW k \in 1 .. n, k \notin 1 .. L
      PROVE  Chatter(inbox'[k])
  <2>1. k - L \in 1 .. c /\ k - L \in 1 .. Len(ms) /\ L + (k - L) = k
    BY <1>1, <1>3, Arriving
  <2>2. inbox'[L + (k - L)] = ms[k - L]
    BY <1>1, <2>1, Arriving
  <2> QED
    BY <2>1, <2>2
<1>4. CASE in_lobby /\ status.blocks = {} /\ \A k \in 1 .. L : Chatter(inbox[k])
  <2>1. \A k \in 1 .. n : Chatter(inbox'[k])
    BY <1>2, <1>3, <1>4
  <2> QED
    BY <1>4, <2>1 DEF Blank, Chatter
<1>5. ASSUME NEW e \in 1 .. L, inbox[e].type = "GameEnded",
             \A k \in (e + 1) .. L : Chatter(inbox[k])
      PROVE  Blank(n)'
  <2>1. e \in 1 .. n /\ inbox'[e].type = "GameEnded"
    BY <1>1, <1>2, <1>5
  <2>2. ASSUME NEW k \in (e + 1) .. n
        PROVE  Chatter(inbox'[k])
    <3>1. k \in 1 .. n /\ (k \in 1 .. L => k \in (e + 1) .. L)
      BY <1>1
    <3> QED
      BY <1>2, <1>3, <1>5, <3>1
  <2> QED
    BY <2>1, <2>2 DEF Blank, Chatter
<1> QED
  BY <1>1, <1>4, <1>5 DEF Blank

(***************************************************************************)
(* The client hears ms of the room, and has not read it yet.               *)
(***************************************************************************)
Hears(ms) ==
  /\ link = "up" /\ link' = "up"
  /\ ms \in Seq(Message) /\ inbox' = inbox \o ms
  /\ UNCHANGED <<listener, in_lobby, status>>

KnownStill == inbox' \in Seq(Message) /\ (listener # "dead" => Announced')

LEMMA NothingHeard ==
  ASSUME Known, Seated, Followed, Hears(<<>>),
         UNCHANGED <<next_id, in_progress, turns, game_players, player_positions>>
  PROVE  KnownStill /\ Seated' /\ Followed'
<1>1. inbox \in Seq(Message)
  BY DEF Known
<1>2. inbox' = inbox
  BY <1>1, ConcatEmptySeq DEF Hears
<1>3. UNCHANGED <<inbox, listener, in_lobby, status, link>>
  BY <1>2 DEF Hears
<1>4. Seated' /\ Followed' /\ (listener' # "dead" => Announced')
  BY <1>3, KeptWhole
<1> QED
  BY <1>1, <1>3, <1>4 DEF KnownStill

LEMMA LobbyHeard ==
  ASSUME IInv, Known, Seated, Followed, NEW s \in Session, NEW n \in Names, JoinLobby(s, n),
         Hears(<<AcceptedPlayer(next_id, n)>>)
  PROVE  KnownStill /\ Seated' /\ Followed'
<1>1. PICK ms \in Seq(Message) : ms = <<AcceptedPlayer(next_id, n)>>
  BY DEF Hears
<1>2. inbox' = inbox \o ms /\ UNCHANGED <<listener, in_lobby, status>> /\ link = "up"
  BY <1>1 DEF Hears
<1>3. Len(ms) = 1 /\ ms[1] = AcceptedPlayer(next_id, n)
  BY <1>1
<1>4. ms[1].type = "AcceptedPlayer" /\ ms[1].id = next_id
  BY <1>3 DEF AcceptedPlayer
<1>5. next_id \in Nat /\ next_id' = next_id + 1 /\ ~ in_progress /\ in_progress' = in_progress
  BY DEF IInv, TypeOK, JoinLobby, Accept
<1>6. \A i \in 0 .. (next_id - 1) : Heard(i, Len(inbox))
  BY <1>2 DEF Seated
<1>7. inbox' \in Seq(Message)
  BY <1>2, Arriving
<1>8. listener # "dead" => Announced'
  <2>1. \A k \in 1 .. Len(ms) : ms[k].type # "Turn"
    BY <1>3, <1>4
  <2> QED
    BY <1>2, <2>1, AnnouncedMore
<1>9. Seated'
  <2>1. \A k \in 1 .. Len(ms) :
          /\ ms[k].type = "AcceptedPlayer" =>
               \A i \in 0 .. (ms[k].id - 1) : Heard(i, Len(inbox)) \/ ToldOf(i, ms, k - 1)
          /\ ms[k].type = "GameStarted" => DOMAIN ms[k].players = PlayerId
    BY <1>3, <1>4, <1>6
  <2>2. ToldOf(next_id, ms, Len(ms))
    BY <1>3, <1>4 DEF ToldOf
  <2>3. \A i \in 0 .. (next_id' - 1) : i = next_id \/ i \in 0 .. (next_id - 1)
    BY <1>5
  <2>4. \A i \in 0 .. (next_id' - 1) : Heard(i, Len(inbox)) \/ ToldOf(i, ms, Len(ms))
    BY <1>6, <2>2, <2>3
  <2> QED
    BY <1>2, <2>1, <2>4, SeatedMore
<1>10. ASSUME listener # "dead"
       PROVE  Blank(Len(inbox))'
  <2>1. Blank(Len(inbox))
    BY <1>2, <1>5, <1>10 DEF Followed
  <2>2. PICK l : l = Len(inbox) + 1
    OBVIOUS
  <2>3. \A k \in 1 .. 1 : Chatter(ms[k])
    BY <1>4 DEF Chatter
  <2>4. Blank(l)'
    <3>1. PICK c \in 0 .. Len(ms) : c = 1
      BY <1>3
    <3> QED
      BY <1>2, <2>1, <2>2, <2>3, <3>1, BlankMore
  <2>5. Len(inbox') = l
    BY <1>2, <1>3, <2>2, Arriving
  <2> QED
    BY <2>4, <2>5 DEF Blank
<1> QED
  BY <1>2, <1>5, <1>7, <1>8, <1>9, <1>10 DEF KnownStill, Followed

LEMMA StartHeard ==
  ASSUME IInv, EventInv, Known, Seated, Followed, NEW s \in Session, NEW n \in Names,
         JoinStart(s, n), GameIsFull',
         Hears(<<AcceptedPlayer(next_id, n), GameStarted(game_players'), Turn(0, StartEvents)>>)
  PROVE  KnownStill /\ Seated' /\ Followed'
<1>1. PICK ms \in Seq(Message) :
        ms = <<AcceptedPlayer(next_id, n), GameStarted(game_players'), Turn(0, StartEvents)>>
  BY DEF Hears
<1>2. inbox' = inbox \o ms /\ UNCHANGED <<listener, in_lobby, status>> /\ link = "up"
  BY <1>1 DEF Hears
<1>3. /\ Len(ms) = 3 /\ ms[1] = AcceptedPlayer(next_id, n)
      /\ ms[2] = GameStarted(game_players') /\ ms[3] = Turn(0, StartEvents)
  BY <1>1
<1>4. /\ ms[1].type = "AcceptedPlayer" /\ ms[1].id = next_id
      /\ ms[2].type = "GameStarted" /\ ms[2].players = game_players'
      /\ ms[3].type = "Turn" /\ ms[3].events = StartEvents
  BY <1>3 DEF AcceptedPlayer, GameStarted, Turn
<1>5. /\ ~ in_progress /\ in_progress' /\ turns' = <<StartEvents>>
      /\ Len(turns') = 1 /\ turns'[1] = StartEvents
  BY StartKept
<1>6. \A i \in 0 .. (next_id - 1) : Heard(i, Len(inbox))
  BY <1>2 DEF Seated
<1>7. inbox' \in Seq(Message)
  BY <1>2, Arriving
<1>8. listener # "dead" => Announced'
  <2>1. \A k \in 1 .. Len(ms) : \A l : ms[k].type = "Turn" => SaidInTurn(ms[k].events, l)
    <3>1. \A l : SaidInTurn(StartEvents, l)
      BY <1>5, StartSaid
    <3>2. \A k \in 1 .. Len(ms) : k \in {1, 2, 3}
      BY <1>3
    <3> QED
      BY <1>4, <3>1, <3>2
  <2> QED
    BY <1>2, <2>1, AnnouncedMore
<1>9. Seated'
  <2>1. DOMAIN game_players' = PlayerId
    BY <1>5 DEF GameIsFull, PlayerId
  <2>2. \A k \in 1 .. Len(ms) :
          /\ ms[k].type = "AcceptedPlayer" =>
               \A i \in 0 .. (ms[k].id - 1) : Heard(i, Len(inbox)) \/ ToldOf(i, ms, k - 1)
          /\ ms[k].type = "GameStarted" => DOMAIN ms[k].players = PlayerId
    <3>1. \A k \in 1 .. Len(ms) : k \in {1, 2, 3}
      BY <1>3
    <3> QED
      BY <1>4, <1>6, <2>1, <3>1
  <2>3. \A i : ToldOf(i, ms, Len(ms))
    <3>1. 2 \in 1 .. Len(ms)
      BY <1>3
    <3> QED
      BY <1>4, <3>1 DEF ToldOf
  <2> QED
    BY <1>2, <2>2, <2>3, SeatedMore
<1>10. ASSUME listener # "dead"
       PROVE  BeforeGame'
  <2>1. Blank(Len(inbox))
    BY <1>2, <1>5, <1>10 DEF Followed
  <2>2. PICK L \in Nat : L = Len(inbox)
    BY <1>2, Arriving
  <2>3. PICK h : h = L + 1
    OBVIOUS
  <2>4. PICK g : g = L + 2
    OBVIOUS
  <2>5. \A k \in 1 .. 1 : Chatter(ms[k])
    BY <1>4 DEF Chatter
  <2>6. Blank(h)'
    <3>1. PICK c \in 0 .. Len(ms) : c = 1
      BY <1>3
    <3> QED
      BY <1>2, <2>1, <2>2, <2>3, <2>5, <3>1, BlankMore
  <2>7. /\ Len(inbox') = L + 3
        /\ inbox'[L + 2] = GameStarted(game_players') /\ inbox'[L + 3] = Turn(0, StartEvents)
    <3>1. 2 \in 1 .. Len(ms) /\ 3 \in 1 .. Len(ms)
      BY <1>3
    <3> QED
      BY <1>2, <1>3, <2>2, <3>1, Arriving
  <2>8. Coming(0)'
    <3>1. \A k \in (0 + 1) .. Len(turns') : k = 1 /\ (L + 3) - Len(turns') + k = L + 3 /\ k - 1 = 0
      BY <1>5, <2>2
    <3>2. \A k \in (0 + 1) .. Len(turns') :
            inbox'[Len(inbox') - Len(turns') + k] = Turn(k - 1, turns'[k])
      BY <1>5, <2>7, <3>1
    <3>3. Len(inbox') >= Len(turns') - 0
      BY <1>5, <2>2, <2>7
    <3> QED
      BY <3>2, <3>3 DEF Coming
  <2>9. g \in 1 .. Len(inbox') /\ Len(inbox') = g + Len(turns') /\ g - 1 = h
    BY <1>5, <2>2, <2>3, <2>4, <2>7
  <2>10. Blank(g - 1)'
    BY <2>6, <2>9
  <2>11. inbox'[g] = GameStarted(game_players')
    BY <2>4, <2>7
  <2> QED
    BY <2>8, <2>9, <2>10, <2>11 DEF BeforeGame
<1> QED
  BY <1>2, <1>5, <1>7, <1>8, <1>9, <1>10 DEF KnownStill, Followed

(***************************************************************************)
(* The next turn explodes no bomb that the client will not know then.      *)
(***************************************************************************)
LEMMA TurnComes ==
  ASSUME IInv, EventInv, Saying, Known, Followed, link = "up", listener # "dead", in_progress
  PROVE  SaidInTurn(TurnEvents,
           0 \in DOMAIN status.bombs \/ \E m \in 1 .. Len(inbox) : Lays(inbox[m]))
<1> DEFINE Learns == 0 \in DOMAIN status.bombs \/ \E m \in 1 .. Len(inbox) : Lays(inbox[m])
<1>1. PICK L \in Nat : L = Len(turns)
  BY LogOfTurns
<1>2. PICK n \in Nat : n = Len(inbox)
  <2>1. inbox \in Seq(Message)
    BY DEF Known
  <2> QED
    BY <2>1, LenProperties
<1>3. ASSUME NEW j \in 0 .. L, Coming(j), NEW k \in (j + 1) .. L,
             BombPlaced(0, Origin) \in Range(turns[k])
      PROVE  Learns
  <2>1. inbox[n - L + k] = Turn(k - 1, turns[k]) /\ n >= L - j
    BY <1>1, <1>2, <1>3 DEF Coming
  <2>2. PICK m : m = n - L + k
    OBVIOUS
  <2>3. m \in 1 .. n
    BY <2>1, <2>2
  <2>4. Lays(inbox[m])
    BY <1>3, <2>1, <2>2 DEF Lays, Turn
  <2> QED
    BY <1>2, <2>3, <2>4
<1>4. ASSUME NEW k \in 1 .. L, BombPlaced(0, Origin) \in Range(turns[k])
      PROVE  Learns
  <2>1. CASE InGame
    <3>1. PICK j \in 0 .. L : Coming(j) /\ Taken(j)
      BY <1>1, <2>1 DEF InGame
    <3>2. k \in 1 .. j \/ k \in (j + 1) .. L
      OBVIOUS
    <3>3. k \in 1 .. j => 0 \in DOMAIN status.bombs
      BY <1>4, <3>1 DEF Taken
    <3> QED
      BY <1>3, <1>4, <3>1, <3>2, <3>3
  <2>2. CASE BeforeGame
    <3>1. PICK j \in 0 .. L : j = 0
      BY <1>1
    <3>2. Coming(j) /\ k \in (j + 1) .. L
      BY <2>2, <3>1 DEF BeforeGame
    <3> QED
      BY <1>3, <1>4, <3>2
  <2> QED
    BY <2>1, <2>2 DEF Followed
<1> HIDE DEF Learns
<1>5. (\E k \in 1 .. Len(turns) : BombPlaced(0, Origin) \in Range(turns[k])) => Learns
  BY <1>1, <1>4
<1>6. SaidInTurn(TurnEvents, Learns)
  BY <1>5, TurnSaid, SaidMore
<1> QED
  BY <1>6 DEF Learns

LEMMA TurnHeard ==
  ASSUME IInv, EventInv, Saying, Known, Seated, Followed, NextTurn,
         Hears(<<Turn(turn, TurnEvents)>>)
  PROVE  KnownStill /\ Seated' /\ Followed'
<1>1. PICK ms \in Seq(Message) : ms = <<Turn(turn, TurnEvents)>>
  BY DEF Hears
<1>2. inbox' = inbox \o ms /\ UNCHANGED <<listener, in_lobby, status, link>> /\ link = "up"
  BY <1>1 DEF Hears
<1>3. /\ Len(ms) = 1 /\ ms[1] = Turn(turn, TurnEvents)
      /\ ms[1].type = "Turn" /\ ms[1].events = TurnEvents
  BY <1>1 DEF Turn
<1>4. in_progress /\ in_progress' /\ next_id' = next_id /\ game_players' = game_players
  BY DEF NextTurn, IInv, OneTimer
<1>5. PICK L \in Nat : L = Len(turns) /\ L = turn
  BY <1>4, LogOfTurns DEF IInv, TurnsNumbered
<1>6. /\ Len(turns') = L + 1 /\ turns'[L + 1] = TurnEvents
      /\ \A k \in 1 .. L : turns'[k] = turns[k]
  BY <1>5, LongerLog DEF NextTurn
<1>7. PICK n \in Nat : n = Len(inbox)
  BY <1>2, Arriving
<1>8. /\ inbox' \in Seq(Message) /\ Len(inbox') = n + 1
      /\ inbox'[n + 1] = Turn(L, TurnEvents)
      /\ \A k \in 1 .. n : inbox'[k] = inbox[k]
  <2>1. 1 \in 1 .. Len(ms)
    BY <1>3
  <2>2. inbox'[n + 1] = ms[1]
    BY <1>2, <1>7, <2>1, Arriving
  <2> QED
    BY <1>2, <1>3, <1>5, <1>7, <2>2, Arriving
<1>9. listener # "dead" => Announced'
  <2>1. ASSUME listener # "dead"
        PROVE  \A k \in 1 .. Len(ms) : ms[k].type = "Turn" =>
                 SaidInTurn(ms[k].events,
                   \/ 0 \in DOMAIN status.bombs
                   \/ \E m \in 1 .. Len(inbox) : Lays(inbox[m])
                   \/ \E m \in 1 .. (k - 1) : Lays(ms[m]))
    <3>1. SaidInTurn(TurnEvents,
            0 \in DOMAIN status.bombs \/ \E m \in 1 .. Len(inbox) : Lays(inbox[m]))
      BY <1>2, <1>4, <2>1, TurnComes
    <3>2. \A k \in 1 .. Len(ms) : ms[k].events = TurnEvents
      BY <1>3
    <3> QED
      BY <3>1, <3>2, SaidMore
  <2> QED
    BY <1>2, <2>1, AnnouncedMore
<1>10. Seated'
  <2>1. \A k \in 1 .. Len(ms) : ms[k].type # "AcceptedPlayer" /\ ms[k].type # "GameStarted"
    BY <1>3
  <2>2. \A i \in 0 .. (next_id' - 1) : Heard(i, Len(inbox))
    BY <1>2, <1>4 DEF Seated
  <2> QED
    BY <1>2, <2>1, <2>2, SeatedMore
<1>11. \A i \in PlayerId : player_positions'[i] = player_positions[i]
  <2>1. PlayerId \subseteq DOMAIN player_positions
    BY <1>4 DEF EventInv, Standing
  <2> QED
    BY <2>1, TurnFacts DEF NextTurn
<1>12. ASSUME NEW j \in 0 .. L, Coming(j)
       PROVE  Coming(j)'
  <2>1. n >= L - j /\ \A k \in (j + 1) .. L : inbox[n - L + k] = Turn(k - 1, turns[k])
    BY <1>5, <1>7, <1>12 DEF Coming
  <2>2. ASSUME NEW k \in (j + 1) .. (L + 1)
        PROVE  inbox'[(n + 1) - (L + 1) + k] = Turn(k - 1, turns'[k])
    <3>1. CASE k = L + 1
      <4>1. (n + 1) - (L + 1) + k = n + 1 /\ k - 1 = L
        BY <3>1
      <4> QED
        BY <1>6, <1>8, <3>1, <4>1
    <3>2. CASE k # L + 1
      <4>1. PICK i : i = n - L + k
        OBVIOUS
      <4>2. i = (n + 1) - (L + 1) + k /\ i \in 1 .. n /\ k \in (j + 1) .. L /\ k \in 1 .. L
        BY <2>1, <3>2, <4>1
      <4>3. inbox'[i] = inbox[i] /\ inbox[i] = Turn(k - 1, turns[k]) /\ turns'[k] = turns[k]
        BY <1>6, <1>8, <2>1, <4>1, <4>2
      <4> QED
        BY <4>2, <4>3
    <3> QED
      BY <3>1, <3>2
  <2>3. n + 1 >= (L + 1) - j
    BY <2>1
  <2> QED
    BY <1>6, <1>8, <2>2, <2>3 DEF Coming
<1>13. ASSUME NEW j \in 0 .. L, Taken(j)
       PROVE  Taken(j)'
  <2>1. \A k \in 1 .. j : turns'[k] = turns[k]
    BY <1>6
  <2> QED
    BY <1>2, <1>4, <1>11, <1>13, <2>1 DEF Taken
<1>14. InGame => InGame'
  <2> SUFFICES ASSUME InGame
               PROVE  InGame'
    OBVIOUS
  <2>1. PICK j \in 0 .. L : n = L - j /\ Coming(j) /\ Taken(j)
    BY <1>5, <1>7 DEF InGame
  <2>2. j \in 0 .. (L + 1) /\ n + 1 = (L + 1) - j
    BY <2>1
  <2>3. Coming(j)' /\ Taken(j)'
    BY <1>12, <1>13, <2>1
  <2> QED
    BY <1>6, <1>8, <2>2, <2>3 DEF InGame
<1>15. BeforeGame => BeforeGame'
  <2> SUFFICES ASSUME BeforeGame
               PROVE  BeforeGame'
    OBVIOUS
  <2>1. PICK g \in 1 .. n : n = g + L /\ inbox[g] = GameStarted(game_players)
                            /\ Coming(0) /\ Blank(g - 1)
    BY <1>5, <1>7 DEF BeforeGame
  <2>2. g \in 1 .. n + 1 /\ n + 1 = g + (L + 1) /\ inbox'[g] = GameStarted(game_players')
    BY <1>4, <1>8, <2>1
  <2>3. Coming(0)'
    <3>1. PICK zero \in 0 .. L : zero = 0
      OBVIOUS
    <3>2. Coming(zero)'
      BY <1>12, <2>1, <3>1
    <3> QED
      BY <3>1, <3>2
  <2>4. \A k \in 1 .. (g - 1) : inbox'[k] = inbox[k]
    BY <1>8
  <2>5. Blank(g - 1)'
    <3>1. Blank(g - 1) /\ UNCHANGED <<in_lobby, status>>
      BY <1>2, <2>1
    <3>2. \A e \in 1 .. (g - 1) : \A k \in (e + 1) .. (g - 1) : k \in 1 .. (g - 1)
      BY <2>1
    <3> QED
      BY <2>4, <3>1, <3>2 DEF Blank, Chatter
  <2> QED
    BY <1>6, <1>8, <2>2, <2>3, <2>5 DEF BeforeGame
<1>16. Followed'
  BY <1>2, <1>4, <1>14, <1>15 DEF Followed
<1> QED
  BY <1>8, <1>9, <1>10, <1>16 DEF KnownStill

LEMMA EndHeard ==
  ASSUME IInv, EventInv, Saying, Known, Seated, Followed, LastTurn,
         Hears(<<Turn(turn, TurnEvents), GameEnded(<<>>)>>)
  PROVE  KnownStill /\ Seated' /\ Followed'
<1>1. PICK ms \in Seq(Message) : ms = <<Turn(turn, TurnEvents), GameEnded(<<>>)>>
  BY DEF Hears
<1>2. inbox' = inbox \o ms /\ UNCHANGED <<listener, in_lobby, status, link>> /\ link = "up"
  BY <1>1 DEF Hears
<1>3. /\ Len(ms) = 2 /\ ms[1].type = "Turn" /\ ms[1].events = TurnEvents
      /\ ms[2].type = "GameEnded"
  <2>1. Len(ms) = 2 /\ ms[1] = Turn(turn, TurnEvents) /\ ms[2] = GameEnded(<<>>)
    BY <1>1
  <2> QED
    BY <2>1 DEF Turn, GameEnded
<1>4. in_progress /\ ~ in_progress' /\ next_id' = 0
  BY DEF LastTurn, ResetState, IInv, OneTimer
<1>5. PICK n \in Nat : n = Len(inbox)
  BY <1>2, Arriving
<1>6. inbox' \in Seq(Message) /\ Len(inbox') = n + 2 /\ inbox'[n + 2].type = "GameEnded"
  <2>1. 2 \in 1 .. Len(ms)
    BY <1>3
  <2> QED
    BY <1>2, <1>3, <1>5, <2>1, Arriving
<1>7. \A k \in 1 .. Len(ms) : k \in {1, 2}
  BY <1>3
<1>8. listener # "dead" => Announced'
  <2>1. ASSUME listener # "dead"
        PROVE  \A k \in 1 .. Len(ms) : ms[k].type = "Turn" =>
                 SaidInTurn(ms[k].events,
                   \/ 0 \in DOMAIN status.bombs
                   \/ \E m \in 1 .. Len(inbox) : Lays(inbox[m])
                   \/ \E m \in 1 .. (k - 1) : Lays(ms[m]))
    <3>1. SaidInTurn(TurnEvents,
            0 \in DOMAIN status.bombs \/ \E m \in 1 .. Len(inbox) : Lays(inbox[m]))
      BY <1>2, <1>4, <2>1, TurnComes
    <3>2. \A k \in 1 .. Len(ms) : ms[k].type = "Turn" => ms[k].events = TurnEvents
      BY <1>3, <1>7
    <3> QED
      BY <3>1, <3>2, SaidMore
  <2> QED
    BY <1>2, <2>1, AnnouncedMore
<1>9. Seated'
  <2>1. \A k \in 1 .. Len(ms) : ms[k].type # "AcceptedPlayer" /\ ms[k].type # "GameStarted"
    BY <1>3, <1>7
  <2>2. \A i : i \notin 0 .. (next_id' - 1)
    BY <1>4
  <2> QED
    BY <1>2, <2>1, <2>2, SeatedMore
<1>10. Blank(Len(inbox))'
  <2>1. n + 2 \in 1 .. Len(inbox') /\ \A k : k \notin ((n + 2) + 1) .. Len(inbox')
    BY <1>6
  <2> QED
    BY <1>6, <2>1 DEF Blank
<1> QED
  BY <1>4, <1>6, <1>8, <1>9, <1>10 DEF KnownStill, Followed

LEMMA RoomHeard ==
  ASSUME IInv, EventInv, Saying, Linked, Known, Seated, Followed, link = "up", link' = "up",
         TurnTimer \/ \E s \in Session : SessionStep(s),
         UNCHANGED <<listener, in_lobby, status>>, inbox' = inbox \o sent'[Mine]
  PROVE  KnownStill /\ Seated' /\ Followed'
<1>1. IInv'
  BY RoomSteps DEF Next
<1>2. Hears(sent'[Mine])
  <2>1. sent'[Mine] \in Seq(Message)
    BY <1>1 DEF IInv, TypeOK
  <2> QED
    BY <2>1 DEF Hears
<1>3. Mine \in players
  BY DEF Linked
<1>4. \A ms : sent' = SendAll(ms) => sent'[Mine] = ms
  BY <1>3 DEF SendAll
<1>5. Quiet[Mine] = <<>>
  BY DEF Quiet
<1>6. ASSUME sent'[Mine] = <<>>, UNCHANGED <<statusVars, roomVars>>
      PROVE  KnownStill /\ Seated' /\ Followed'
  BY <1>2, <1>6, NothingHeard DEF statusVars, roomVars
<1>7. ASSUME NEW s \in Session,
             \/ Disconnect(s) \/ JoinIgnored(s) \/ ReceiveUnknown(s)
             \/ ReceivePlaceBomb(s) \/ ReceivePlaceBlock(s)
             \/ \E d \in Direction : ReceiveMove(s, d)
      PROVE  KnownStill /\ Seated' /\ Followed'
  <2>1. sent' = Quiet /\ UNCHANGED <<statusVars, roomVars>>
    BY <1>7 DEF Disconnect, JoinIgnored, ReceiveUnknown, ReceivePlaceBomb, ReceivePlaceBlock,
                ReceiveMove, AddMessage
  <2> QED
    BY <1>5, <1>6, <2>1
<1>8. ASSUME NEW s \in Session, Connect(s)
      PROVE  KnownStill /\ Seated' /\ Followed'
  <2>1. s # Mine /\ sent' = SendTo(s, <<Hello>> \o Catchup) /\ UNCHANGED <<statusVars, roomVars>>
    BY <1>3, <1>8 DEF Connect
  <2>2. \A ms : SendTo(s, ms)[Mine] = <<>>
    BY <1>5, <2>1 DEF SendTo, Quiet
  <2>3. sent'[Mine] = <<>>
    BY <2>1, <2>2
  <2> QED
    BY <1>6, <2>1, <2>3
<1>9. ASSUME NEW s \in Session, NEW n \in Names, JoinLobby(s, n)
      PROVE  KnownStill /\ Seated' /\ Followed'
  <2>1. sent'[Mine] = <<AcceptedPlayer(next_id, n)>>
    BY <1>4, <1>9 DEF JoinLobby
  <2> QED
    BY <1>2, <1>9, <2>1, LobbyHeard
<1>10. ASSUME NEW s \in Session, NEW n \in Names, JoinStart(s, n)
       PROVE  KnownStill /\ Seated' /\ Followed'
  <2>1. sent'[Mine] =
          <<AcceptedPlayer(next_id, n), GameStarted(game_players'), Turn(0, StartEvents)>>
    BY <1>4, <1>10 DEF JoinStart
  <2>2. GameIsFull'
    BY <1>1 DEF IInv
  <2> QED
    BY <1>2, <1>10, <2>1, <2>2, StartHeard
<1>11. CASE NextTurn
  <2>1. sent'[Mine] = <<Turn(turn, TurnEvents)>>
    BY <1>4, <1>11 DEF NextTurn
  <2> QED
    BY <1>2, <1>11, <2>1, TurnHeard
<1>12. CASE LastTurn
  <2>1. sent'[Mine] = <<Turn(turn, TurnEvents), GameEnded(<<>>)>>
    BY <1>4, <1>12 DEF LastTurn
  <2> QED
    BY <1>2, <1>12, <2>1, EndHeard
<1> QED
  BY <1>7, <1>8, <1>9, <1>10, <1>11, <1>12 DEF SessionStep, TurnTimer

(***************************************************************************)
(* A client that has just connected is told what there is to know.         *)
(***************************************************************************)
LEMMA Caught ==
  ASSUME IInv
  PROVE  LET ms == <<Hello>> \o Catchup
         IN  /\ ms \in Seq(Message) /\ ms[1] = Hello
             /\ in_progress =>
                  /\ Len(ms) = 2 + Len(turns) /\ ms[2] = GameStarted(game_players)
                  /\ \A k \in 1 .. Len(turns) : ms[2 + k] = Turn(k - 1, turns[k])
             /\ ~ in_progress =>
                  /\ Len(ms) = 1 + next_id
                  /\ \A k \in 1 .. next_id :
                       ms[1 + k] = AcceptedPlayer(k - 1, game_players[k - 1])
<1>1. PICK c \in Seq(Message) : c = Catchup
  BY CatchupType DEF IInv
<1>2. PICK l \in Nat : l = Len(c)
  BY LenProperties
<1>3. PICK ms : ms = <<Hello>> \o c
  OBVIOUS
<1>4. <<Hello>> \in Seq(Message) /\ Len(<<Hello>>) = 1 /\ <<Hello>>[1] = Hello
  BY DEF Message, Hello
<1>5. /\ ms \in Seq(Message) /\ Len(ms) = 1 + l
      /\ \A i \in 1 .. 1 + l : ms[i] = IF i <= 1 THEN <<Hello>>[i] ELSE c[i - 1]
  <2>1. PICK h \in Seq(Message) : h = <<Hello>> /\ Len(h) = 1
    BY <1>4
  <2>2. ms = h \o c
    BY <1>3, <2>1
  <2>3. /\ ms \in Seq(Message) /\ Len(ms) = 1 + l
        /\ \A i \in 1 .. 1 + l : ms[i] = IF i <= 1 THEN h[i] ELSE c[i - 1]
    BY <1>2, <2>1, <2>2, ConcatProperties
  <2> QED
    BY <2>1, <2>3
<1>6. ms[1] = Hello
  <2>1. 1 \in 1 .. 1 + l
    BY <1>2
  <2> QED
    BY <1>4, <1>5, <2>1
<1>7. ASSUME NEW k \in 1 .. l
      PROVE  ms[1 + k] = c[k]
  <2>1. 1 + k \in 1 .. 1 + l /\ ~ (1 + k <= 1) /\ (1 + k) - 1 = k
    OBVIOUS
  <2> QED
    BY <1>5, <2>1
<1>8. ASSUME in_progress
      PROVE  /\ Len(ms) = 2 + Len(turns) /\ ms[2] = GameStarted(game_players)
             /\ \A k \in 1 .. Len(turns) : ms[2 + k] = Turn(k - 1, turns[k])
  <2>1. PICK L \in Nat : L = Len(turns)
    BY LogOfTurns
  <2>2. PICK t : t = TurnMessages
    OBVIOUS
  <2>3. t = [k \in 1 .. L |-> Turn(k - 1, turns[k])]
    BY <2>1, <2>2 DEF TurnMessages
  <2>4. PICK g : g = GameStarted(game_players)
    OBVIOUS
  <2>5. c = <<g>> \o t
    BY <1>1, <1>8, <2>2, <2>4 DEF Catchup
  <2> DEFINE S == {g} \cup {Turn(k - 1, turns[k]) : k \in 1 .. L}
  <2>6. t \in [1 .. L -> S]
    BY <2>3
  <2>7. g \in S
    OBVIOUS
  <2> HIDE DEF S
  <2>8. t \in Seq(S) /\ Len(t) = L
    BY <2>6, FunctionIsSequence
  <2>9. PICK h \in Seq(S) : h = <<g>> /\ Len(h) = 1 /\ h[1] = g
    <3>1. <<g>> \in Seq(S) /\ Len(<<g>>) = 1 /\ <<g>>[1] = g
      BY <2>7
    <3> QED
      BY <3>1
  <2>10. /\ Len(c) = 1 + L
         /\ \A i \in 1 .. 1 + L : c[i] = IF i <= 1 THEN h[i] ELSE t[i - 1]
    BY <2>5, <2>8, <2>9, ConcatProperties
  <2>11. l = 1 + L
    BY <1>2, <2>10
  <2>12. c[1] = g
    <3>1. 1 \in 1 .. 1 + L
      BY <2>1
    <3> QED
      BY <2>9, <2>10, <3>1
  <2>13. ms[2] = g
    <3>1. 1 \in 1 .. l /\ 1 + 1 = 2
      BY <2>11
    <3> QED
      BY <1>7, <2>12, <3>1
  <2>14. ASSUME NEW k \in 1 .. L
         PROVE  ms[2 + k] = Turn(k - 1, turns[k])
    <3>1. PICK i : i = 1 + k
      OBVIOUS
    <3>2. i \in 1 .. 1 + L /\ ~ (i <= 1) /\ i - 1 = k /\ 1 + i = 2 + k
      BY <3>1
    <3>3. c[i] = t[k]
      BY <2>10, <3>2
    <3>4. ms[1 + i] = c[i]
      BY <1>7, <2>11, <3>2
    <3> QED
      BY <2>3, <3>2, <3>3, <3>4
  <2> QED
    BY <1>5, <2>1, <2>4, <2>11, <2>13, <2>14
<1>9. ASSUME ~ in_progress
      PROVE  /\ Len(ms) = 1 + next_id
             /\ \A k \in 1 .. next_id : ms[1 + k] = AcceptedPlayer(k - 1, game_players[k - 1])
  <2>1. PICK N \in Nat : N = next_id
    BY DEF IInv, TypeOK
  <2>2. c = [k \in 1 .. N |-> AcceptedPlayer(k - 1, game_players[k - 1])]
    BY <1>1, <1>9, <2>1 DEF Catchup, AcceptedPlayers
  <2> DEFINE S == {AcceptedPlayer(k - 1, game_players[k - 1]) : k \in 1 .. N}
  <2>3. c \in [1 .. N -> S]
    BY <2>2
  <2> HIDE DEF S
  <2>4. l = N
    BY <1>2, <2>3, FunctionIsSequence
  <2> QED
    BY <1>5, <1>7, <2>1, <2>2, <2>4
<1> QED
  BY <1>1, <1>3, <1>5, <1>6, <1>8, <1>9

LEMMA ConnectingHeard ==
  ASSUME IInv, Saying, Linked, Known, Seated, ClientConnects
  PROVE  KnownStill /\ Seated' /\ Followed'
<1>1. /\ link = "down" /\ link' = "up" /\ inbox' = inbox \o sent'[Mine]
      /\ UNCHANGED <<listener, in_lobby, status, next_id, in_progress, turns, game_players>>
      /\ sent' = SendTo(Mine, <<Hello>> \o Catchup)
  BY DEF ClientConnects, ServerOnly, Deliver, Connect, roomVars, statusVars
<1>2. inbox = <<>> /\ in_lobby /\ status.blocks = {}
  BY <1>1 DEF Linked, ClientInit, NoStatus
<1>3. PICK ms : ms = <<Hello>> \o Catchup
  OBVIOUS
<1>4. inbox' = inbox \o ms
  BY <1>1, <1>3 DEF SendTo, Quiet
<1>5. /\ ms \in Seq(Message) /\ ms[1] = Hello
      /\ in_progress =>
           /\ Len(ms) = 2 + Len(turns) /\ ms[2] = GameStarted(game_players)
           /\ \A k \in 1 .. Len(turns) : ms[2 + k] = Turn(k - 1, turns[k])
      /\ ~ in_progress =>
           /\ Len(ms) = 1 + next_id
           /\ \A k \in 1 .. next_id : ms[1 + k] = AcceptedPlayer(k - 1, game_players[k - 1])
  BY <1>3, Caught
<1>6. PICK l \in Nat : l = Len(ms)
  BY <1>5, LenProperties
<1>7. Len(inbox) = 0 /\ Blank(Len(inbox))
  <2>1. Len(inbox) = 0
    BY <1>2
  <2>2. \A k : k \notin 1 .. 0
    OBVIOUS
  <2> QED
    BY <1>2, <2>1, <2>2 DEF Blank
<1>8. inbox' \in Seq(Message) /\ Len(inbox') = l /\ \A k \in 1 .. l : inbox'[k] = ms[k]
  <2>1. inbox' \in Seq(Message) /\ Len(inbox') = 0 + l /\ \A k \in 1 .. l : inbox'[0 + k] = ms[k]
    BY <1>4, <1>5, <1>6, <1>7, Arriving
  <2>2. \A k \in 1 .. l : 0 + k = k
    OBVIOUS
  <2> QED
    BY <2>1, <2>2
<1>9. next_id \in Nat
  BY DEF IInv, TypeOK
<1>10. /\ Hello.type = "Hello"
       /\ \A i, n : AcceptedPlayer(i, n).type = "AcceptedPlayer" /\ AcceptedPlayer(i, n).id = i
       /\ \A ps : GameStarted(ps).type = "GameStarted" /\ GameStarted(ps).players = ps
       /\ \A t, es : Turn(t, es).type = "Turn" /\ Turn(t, es).events = es
  BY DEF Hello, AcceptedPlayer, GameStarted, Turn
<1>11. ASSUME ~ in_progress
       PROVE  KnownStill /\ Seated' /\ Followed'
  <2>1. \A k \in 1 .. l : k = 1 \/ (k - 1 \in 1 .. next_id /\ 1 + (k - 1) = k)
    BY <1>5, <1>6, <1>9, <1>11
  <2>2. \A k \in 1 .. l :
          \/ ms[k] = Hello
          \/ ms[k].type = "AcceptedPlayer" /\ ms[k].id = (k - 1) - 1
    <3> SUFFICES ASSUME NEW k \in 1 .. l, k # 1
                 PROVE  ms[k].type = "AcceptedPlayer" /\ ms[k].id = (k - 1) - 1
      BY <1>5
    <3>1. PICK j \in 1 .. next_id : j = k - 1 /\ 1 + j = k
      BY <2>1
    <3>2. ms[1 + j] = AcceptedPlayer(j - 1, game_players[j - 1])
      BY <1>5, <1>11
    <3> QED
      BY <1>10, <3>1, <3>2
  <2>3. ASSUME NEW i \in Nat, NEW k \in 1 .. l, i + 2 <= k
        PROVE  ToldOf(i, ms, k)
    <3>1. i + 2 \in 1 .. k /\ i + 2 \in 1 .. l /\ i + 2 # 1 /\ ((i + 2) - 1) - 1 = i
      BY <2>3
    <3>2. (i + 2) - 1 \in 1 .. next_id /\ 1 + ((i + 2) - 1) = i + 2
      BY <2>1, <3>1
    <3>3. ms[i + 2].type = "AcceptedPlayer" /\ ms[i + 2].id = i
      BY <1>5, <1>10, <1>11, <3>1, <3>2
    <3> QED
      BY <3>1, <3>3 DEF ToldOf
  <2>4. listener # "dead" => Announced'
    <3>1. \A k \in 1 .. Len(ms) : ms[k].type # "Turn"
      BY <1>6, <1>10, <2>2
    <3> QED
      BY <1>1, <1>4, <1>5, <3>1, AnnouncedMore
  <2>5. Seated'
    <3>1. ASSUME NEW k \in 1 .. Len(ms), ms[k].type = "AcceptedPlayer",
                 NEW i \in 0 .. (ms[k].id - 1)
          PROVE  ToldOf(i, ms, k - 1)
      <4>1. ms[k].id = (k - 1) - 1
        BY <1>6, <1>10, <2>2, <3>1
      <4>2. i \in Nat /\ k - 1 \in 1 .. l /\ i + 2 <= k - 1
        BY <1>6, <4>1
      <4> QED
        BY <2>3, <4>2
    <3>2. \A k \in 1 .. Len(ms) : ms[k].type # "GameStarted"
      BY <1>6, <1>10, <2>2
    <3>3. ASSUME NEW i \in 0 .. (next_id' - 1)
          PROVE  ToldOf(i, ms, Len(ms))
      <4>1. i \in Nat /\ l \in 1 .. l /\ i + 2 <= l
        BY <1>1, <1>5, <1>6, <1>9, <1>11
      <4> QED
        BY <1>6, <2>3, <4>1
    <3> QED
      BY <1>1, <1>4, <1>5, <3>1, <3>2, <3>3, SeatedMore
  <2>6. Blank(l)'
    <3>1. PICK c \in 0 .. Len(ms) : c = l
      BY <1>6
    <3>2. \A k \in 1 .. c : Chatter(ms[k])
      BY <1>10, <2>2, <3>1 DEF Chatter
    <3>3. l = Len(inbox) + c
      BY <1>7, <3>1
    <3> QED
      BY <1>1, <1>4, <1>5, <1>7, <3>2, <3>3, BlankMore
  <2>7. Blank(Len(inbox))'
    BY <1>8, <2>6 DEF Blank
  <2> QED
    BY <1>1, <1>8, <1>11, <2>4, <2>5, <2>7 DEF KnownStill, Followed
<1>12. ASSUME in_progress
       PROVE  KnownStill /\ Seated' /\ Followed'
  <2>1. PICK L \in Nat : L = Len(turns) /\ l = 2 + L
    BY <1>5, <1>6, <1>12, LogOfTurns
  <2>2. \A k \in 1 .. l : k \in {1, 2} \/ (k - 2 \in 1 .. L /\ 2 + (k - 2) = k)
    BY <2>1
  <2>3. /\ ms[1] = Hello /\ ms[2] = GameStarted(game_players)
        /\ \A k \in 1 .. L : ms[2 + k] = Turn(k - 1, turns[k])
    BY <1>5, <1>12, <2>1
  <2>4. listener # "dead" => Announced'
    <3>1. ASSUME NEW k \in 1 .. Len(ms), ms[k].type = "Turn"
          PROVE  SaidInTurn(ms[k].events, \E m \in 1 .. (k - 1) : Lays(ms[m]))
      <4>1. PICK t \in 1 .. L : t = k - 2 /\ 2 + t = k
        BY <1>6, <1>10, <2>2, <2>3, <3>1
      <4>2. ms[k].events = turns[t]
        BY <1>10, <2>3, <4>1
      <4>3. SaidInTurn(turns[t], LaidBefore(t))
        BY <2>1 DEF Saying
      <4>4. ASSUME NEW j \in 1 .. (t - 1), BombPlaced(0, Origin) \in Range(turns[j])
            PROVE  \E m \in 1 .. (k - 1) : Lays(ms[m])
        <5>1. j \in 1 .. L /\ 2 + j \in 1 .. (k - 1)
          BY <4>1
        <5>2. ms[2 + j].type = "Turn" /\ ms[2 + j].events = turns[j]
          BY <1>10, <2>3, <5>1
        <5> QED
          BY <4>4, <5>1, <5>2 DEF Lays
      <4>5. LaidBefore(t) => \E m \in 1 .. (k - 1) : Lays(ms[m])
        BY <4>4 DEF LaidBefore
      <4>6. SaidInTurn(turns[t], \E m \in 1 .. (k - 1) : Lays(ms[m]))
        BY <4>3, <4>5 DEF SaidInTurn
      <4> QED
        BY <4>2, <4>6 DEF SaidInTurn
    <3>2. \A k \in 1 .. Len(ms) : ms[k].type = "Turn" =>
            SaidInTurn(ms[k].events,
              \/ 0 \in DOMAIN status.bombs
              \/ \E m \in 1 .. Len(inbox) : Lays(inbox[m])
              \/ \E m \in 1 .. (k - 1) : Lays(ms[m]))
      BY <3>1, SaidMore
    <3> QED
      BY <1>1, <1>4, <1>5, <3>2, AnnouncedMore
  <2>5. Seated'
    <3>1. DOMAIN game_players = PlayerId
      BY <1>12 DEF IInv, GameIsFull, PlayerId
    <3>2. \A k \in 1 .. Len(ms) :
            /\ ms[k].type # "AcceptedPlayer"
            /\ ms[k].type = "GameStarted" => DOMAIN ms[k].players = PlayerId
      <4> SUFFICES ASSUME NEW k \in 1 .. l
                   PROVE  /\ ms[k].type # "AcceptedPlayer"
                          /\ ms[k].type = "GameStarted" => DOMAIN ms[k].players = PlayerId
        BY <1>6
      <4>1. CASE k = 1
        BY <1>10, <2>3, <4>1
      <4>2. CASE k = 2
        BY <1>10, <2>3, <3>1, <4>2
      <4>3. CASE k \notin {1, 2}
        <5>1. PICK t \in 1 .. L : 2 + t = k
          BY <2>2, <4>3
        <5>2. ms[k] = Turn(t - 1, turns[t])
          BY <2>3, <5>1
        <5> QED
          BY <1>10, <5>2
      <4> QED
        BY <4>1, <4>2, <4>3
    <3>3. \A i : ToldOf(i, ms, Len(ms))
      <4>1. 2 \in 1 .. Len(ms)
        BY <1>6, <2>1
      <4> QED
        BY <1>10, <2>3, <4>1 DEF ToldOf
    <3> QED
      BY <1>1, <1>4, <1>5, <3>2, <3>3, SeatedMore
  <2>6. PICK g \in 1 .. l : g = 2 /\ g - 1 = 1
    BY <2>1
  <2>7. Blank(g - 1)'
    <3>1. PICK c \in 0 .. Len(ms) : c = 1
      BY <1>6, <2>1
    <3>2. \A k \in 1 .. c : Chatter(ms[k])
      BY <1>10, <2>3, <3>1 DEF Chatter
    <3>3. PICK n : n = g - 1 /\ n = Len(inbox) + c
      BY <1>7, <2>6, <3>1
    <3>4. Blank(n)'
      BY <1>1, <1>4, <1>5, <1>7, <3>2, <3>3, BlankMore
    <3> QED
      BY <3>3, <3>4
  <2>8. Coming(0)'
    <3>1. ASSUME NEW k \in (0 + 1) .. L
          PROVE  inbox'[l - L + k] = Turn(k - 1, turns[k])
      <4>1. k \in 1 .. L /\ l - L + k = 2 + k /\ 2 + k \in 1 .. l
        BY <2>1
      <4> QED
        BY <1>8, <2>3, <4>1
    <3>2. l >= L - 0
      BY <2>1
    <3> QED
      BY <1>1, <1>8, <2>1, <3>1, <3>2 DEF Coming
  <2>9. Len(inbox') = g + Len(turns') /\ inbox'[g] = GameStarted(game_players')
    BY <1>1, <1>8, <2>1, <2>3, <2>6
  <2>10. BeforeGame'
    BY <1>8, <2>7, <2>8, <2>9 DEF BeforeGame
  <2> QED
    BY <1>1, <1>8, <1>12, <2>4, <2>5, <2>10 DEF KnownStill, Followed
<1> QED
  BY <1>11, <1>12

(***************************************************************************)
(* A step of the room, on whichever session.                               *)
(***************************************************************************)
LEMMA LinkedStep ==
  ASSUME Linked, OthersStep \/ RoomTurn \/ ServerReads \/ ClientConnects
  PROVE  Linked'
<1>1. CASE ClientConnects
  BY <1>1 DEF ClientConnects, Connect, Linked
<1>2. CASE ServerReads
  <2>1. link = "up" /\ link' = link /\ players' = players
    BY <1>2 DEF ServerReads, JoinIgnored, JoinLobby, JoinStart, Accept, ReceivePlaceBomb,
                ReceivePlaceBlock, ReceiveMove, AddMessage, Receive
  <2> QED
    BY <2>1 DEF Linked
<1>3. CASE OthersStep \/ RoomTurn
  <2>1. link' = link /\ ServerOnly
    BY <1>3 DEF OthersStep, RoomTurn
  <2>2. Mine \in players' <=> Mine \in players
    <3>1. CASE RoomTurn
      BY <3>1 DEF RoomTurn, TurnTimer, NextTurn, LastTurn, sessionVars
    <3>2. CASE OthersStep
      <4>1. PICK s \in Session : s # Mine /\ SessionStep(s)
        BY <3>2 DEF OthersStep
      <4>2. players' \in {players, players \cup {s}, players \ {s}}
        BY <4>1 DEF SessionStep, Connect, Disconnect, JoinIgnored, JoinLobby, JoinStart, Accept,
                    ReceivePlaceBomb, ReceivePlaceBlock, ReceiveMove, AddMessage, ReceiveUnknown,
                    Receive
      <4> QED
        BY <4>1, <4>2
    <3> QED
      BY <1>3, <3>1, <3>2
  <2>3. link = "down" => ClientInit'
    <3>1. link = "down" => ClientInit /\ UNCHANGED <<inbox, outbox, listener, input, in_lobby, status>>
      BY <2>1 DEF ServerOnly, Deliver, Linked
    <3> QED
      BY <3>1 DEF ClientInit
  <2> QED
    BY <2>1, <2>2, <2>3 DEF Linked
<1> QED
  BY <1>1, <1>2, <1>3

LEMMA ServerKeeps ==
  ASSUME IInv, EventInv, Saying, Linked, Known, Seated, Followed,
         OthersStep \/ RoomTurn \/ ServerReads \/ ClientConnects
  PROVE  Linked' /\ Known' /\ Seated' /\ Followed'
<1>1. UNCHANGED <<listener, input, in_lobby, status>> /\ Deliver
  BY DEF OthersStep, RoomTurn, ServerReads, ClientConnects, ServerOnly
<1>2. outbox' \in Seq(InputMessage \cup {Join})
  <2> DEFINE S == InputMessage \cup {Join}
  <2>1. outbox \in Seq(S)
    BY DEF Known
  <2> HIDE DEF S
  <2>2. outbox' = outbox \/ (outbox # <<>> /\ outbox' = Tail(outbox))
    BY DEF OthersStep, RoomTurn, ServerReads, ClientConnects, ServerOnly
  <2>3. outbox' \in Seq(S)
    BY <2>1, <2>2, HeadTailProperties
  <2> QED
    BY <2>3 DEF S
<1>3. CASE link' # "up"
  <2>1. inbox' = inbox
    BY <1>1, <1>3 DEF Deliver
  <2>2. Seated'
    BY <1>1, <1>3, <2>1 DEF Seated, Heard
  <2>3. Followed'
    BY <1>3 DEF Followed
  <2>4. Known'
    BY <1>1, <1>2, <2>1 DEF Known, Announced, SaidInTurn, Lays
  <2> QED
    BY <2>2, <2>3, <2>4, LinkedStep
<1>4. CASE link' = "up"
  <2>1. inbox' = inbox \o sent'[Mine]
    BY <1>1, <1>4 DEF Deliver
  <2>2. KnownStill /\ Seated' /\ Followed'
    <3>1. CASE ClientConnects
      BY <3>1, ConnectingHeard
    <3>2. CASE ~ ClientConnects
      <4>1. OthersStep \/ RoomTurn \/ ServerReads
        BY <3>2
      <4>2. link = "up"
        BY <1>4, <4>1 DEF OthersStep, RoomTurn, ServerReads
      <4>3. CASE RoomTurn
        BY <1>1, <1>4, <2>1, <4>2, <4>3, RoomHeard DEF RoomTurn
      <4>4. CASE OthersStep
        BY <1>1, <1>4, <2>1, <4>2, <4>4, RoomHeard DEF OthersStep
      <4>5. CASE ServerReads
        <5>1. SessionStep(Mine)
          BY <4>5, ReadSteps
        <5> QED
          BY <1>1, <1>4, <2>1, <4>2, <5>1, RoomHeard
      <4> QED
        BY <4>1, <4>3, <4>4, <4>5
    <3> QED
      BY <3>1, <3>2
  <2>3. Known'
    BY <1>1, <1>2, <2>2 DEF Known, KnownStill
  <2> QED
    BY <2>2, <2>3, LinkedStep
<1> QED
  BY <1>3, <1>4

LEMMA RobotsStep ==
  ASSUME RobotsInv, [RobotsNext]_robotsVars
  PROVE  RobotsInv'
<1>1. IInv /\ EventInv /\ Saying /\ Linked /\ Known /\ Seated /\ Followed
  BY DEF RobotsInv
<1>2. IInv' /\ EventInv' /\ Saying'
  BY <1>1, StepsOfRoom, RoomSteps, RoomIdles
<1>3. CASE OthersStep \/ RoomTurn \/ ServerReads \/ ClientConnects
  BY <1>1, <1>2, <1>3, ServerKeeps DEF RobotsInv
<1>4. CASE ClientListens
  BY <1>1, <1>2, <1>4, ListenKeeps DEF RobotsInv
<1>5. CASE ClientPlays
  BY <1>1, <1>2, <1>5, PlayKeeps DEF RobotsInv
<1>6. CASE LinkBreaks \/ ClientNotices \/ ServerNotices \/ UNCHANGED robotsVars
  BY <1>1, <1>2, <1>6, BreakKeeps DEF RobotsInv
<1> QED
  BY <1>3, <1>4, <1>5, <1>6 DEF RobotsNext

LEMMA RobotsStart ==
  ASSUME RobotsInit
  PROVE  RobotsInv
<1>1. /\ Init /\ link = "down" /\ inbox = <<>> /\ outbox = <<>> /\ listener = "reading"
      /\ input = "waiting" /\ in_lobby = TRUE /\ status = NoStatus /\ ClientInit
  BY DEF RobotsInit, ClientInit
<1>2. IInv /\ EventInv
  BY <1>1, InitInv, EventInit
<1>3. /\ ~ in_progress /\ turns = <<>> /\ bombs = <<>> /\ players = {}
  BY <1>1 DEF Init
<1>4. Saying
  BY <1>3 DEF Saying
<1>5. Linked
  BY <1>1, <1>3 DEF Linked
<1>6. Len(inbox) = 0 /\ \A k : k \notin 1 .. Len(inbox)
  BY <1>1
<1>7. status \in KnownStatus
  <2> DEFINE None == {{}}
  <2>1. \A S : <<>> \in [{} -> S] /\ {} \in SUBSET S
    OBVIOUS
  <2>2. <<>> \in PlayerMap /\ <<>> \in Places /\ <<>> \in KnownBombs /\ <<>> \in Zeros
    <3>1. <<>> \in Places
      BY <2>1 DEF Places
    <3>2. <<>> \in KnownBombs
      BY <2>1 DEF KnownBombs
    <3>3. <<>> \in Zeros
      BY <2>1 DEF Zeros
    <3>4. <<>> \in PlayerMap
      <4>1. PICK n \in 0 .. PlayersCount : n = 0
        OBVIOUS
      <4>2. 0 .. (n - 1) = {}
        BY <4>1
      <4>3. <<>> \in [0 .. (n - 1) -> Names]
        BY <2>1, <4>2
      <4> QED
        BY <4>3 DEF PlayerMap
    <3> QED
      BY <3>1, <3>2, <3>3, <3>4
  <2>3. {} \in SUBSET Position /\ {} \in None /\ 0 \in Nat
    OBVIOUS
  <2> HIDE DEF None
  <2>4. status \in [turn : Nat, players : PlayerMap, player_positions : Places,
                    blocks : SUBSET Position, bombs : KnownBombs, explosions : None,
                    scores : Zeros, players_scored : None]
    BY <1>1, <2>2, <2>3 DEF NoStatus
  <2> QED
    BY <2>4 DEF KnownStatus, None
<1>8. Announced
  BY <1>6 DEF Announced
<1>9. Known
  BY <1>1, <1>7, <1>8, EmptySeq DEF Known
<1>10. Seated
  BY <1>1, <1>6 DEF Seated
<1>11. Followed
  BY <1>1 DEF Followed
<1> QED
  BY <1>2, <1>4, <1>5, <1>9, <1>10, <1>11 DEF RobotsInv

LEMMA RobotsInvariance == RobotsSpec => []RobotsInv
<1>1. RobotsInit => RobotsInv
  BY RobotsStart
<1>2. RobotsInv /\ [RobotsNext]_robotsVars => RobotsInv'
  BY RobotsStep
<1> QED
  BY <1>1, <1>2, PTL DEF RobotsSpec

--------------------------------------------------------------------------------
(***************************************************************************)
(* A client that has read everything knows whether a game is on.           *)
(***************************************************************************)
THEOREM PhaseFollowed == RobotsSpec => []PhaseKnown
<1>1. RobotsInv => PhaseKnown
  <2> SUFFICES ASSUME RobotsInv, UpToDate
               PROVE  in_lobby <=> ~ in_progress
    BY DEF PhaseKnown
  <2>1. Len(inbox) = 0 /\ link = "up" /\ listener # "dead"
    BY DEF UpToDate
  <2>2. CASE in_progress
    <3>1. InGame
      BY <2>1, <2>2 DEF RobotsInv, Followed, BeforeGame
    <3> QED
      BY <2>2, <3>1 DEF InGame, Taken
  <2>3. CASE ~ in_progress
    <3>1. Blank(Len(inbox))
      BY <2>1, <2>3 DEF RobotsInv, Followed
    <3> QED
      BY <2>1, <2>3, <3>1 DEF Blank
  <2> QED
    BY <2>2, <2>3
<1> QED
  BY <1>1, RobotsInvariance, PTL

(***************************************************************************)
(* In a game it knows the turn, the players, where their robots stand, the *)
(* blocks and the bombs.                                                   *)
(***************************************************************************)
THEOREM GameFollowed == RobotsSpec => []GameKnown
<1>1. ASSUME RobotsInv, UpToDate, in_progress
      PROVE  /\ status.turn = turn - 1
             /\ status.players = game_players
             /\ PlayerId \subseteq DOMAIN status.player_positions
             /\ \A i \in PlayerId : status.player_positions[i] = player_positions[i]
             /\ status.blocks = blocks
             /\ \A b \in DOMAIN bombs :
                  /\ b \in DOMAIN status.bombs
                  /\ status.bombs[b].position = bombs[b].position
  <2>1. /\ Len(inbox) = 0 /\ link = "up" /\ listener # "dead"
        /\ IInv /\ EventInv /\ Saying /\ Known /\ Followed
    BY <1>1 DEF UpToDate, RobotsInv
  <2>2. InGame
    BY <1>1, <2>1 DEF Followed, BeforeGame
  <2>3. PICK L \in Nat : L = Len(turns) /\ L = turn /\ L # 0
    BY <1>1, <2>1, LogOfTurns DEF IInv, TurnsNumbered
  <2>4. Taken(L)
    <3>1. PICK j \in 0 .. L : 0 = L - j /\ Taken(j)
      BY <2>1, <2>2, <2>3 DEF InGame
    <3>2. j = L
      BY <3>1
    <3> QED
      BY <3>1, <3>2
  <2>5. /\ status.turn = turn - 1 /\ status.players = game_players
        /\ PlayerId \subseteq DOMAIN status.player_positions
        /\ \A i \in PlayerId : status.player_positions[i] = player_positions[i]
    BY <2>3, <2>4 DEF Taken
  <2>6. Standing
    BY <1>1, <2>1 DEF EventInv
  <2>7. status.blocks = blocks
    <3>1. status.blocks = {p \in Position : \E k \in 1 .. L : BlockPlaced(p) \in Range(turns[k])}
      BY <2>4 DEF Taken
    <3>2. blocks \in SUBSET Position
      BY <2>1 DEF IInv, TypeOK
    <3>3. \A p \in Position :
            p \in blocks <=> \E k \in 1 .. L : BlockPlaced(p) \in Range(turns[k])
      BY <1>1, <2>3, <2>6 DEF Standing, Tells
    <3> QED
      BY <3>1, <3>2, <3>3
  <2>8. ASSUME NEW b \in DOMAIN bombs
        PROVE  b \in DOMAIN status.bombs /\ status.bombs[b].position = bombs[b].position
    <3>1. b = 0 /\ bombs[b].position = Origin
      <4>1. bombs \in Bombs /\ DOMAIN bombs \subseteq 0 .. 0
        BY <2>1 DEF IInv, TypeOK, Corner
      <4> QED
        BY <4>1 DEF Bombs
    <3>2. PICK k \in 1 .. L, p \in Position : BombPlaced(0, p) \in Range(turns[k])
      BY <1>1, <2>3, <2>6, <3>1 DEF Standing, Tells
    <3>3. BombPlaced(0, Origin) \in Range(turns[k])
      <4>1. PICK i \in 1 .. Len(turns[k]) : turns[k][i] = BombPlaced(0, p)
        BY <2>1, <2>3, <3>2, LogOfTurns, ElementsInRange
      <4>2. turns[k][i].type = "BombPlaced"
        BY <4>1, EventsDiffer
      <4>3. BombPlaced(0, p) = BombPlaced(0, Origin)
        BY <2>1, <2>3, <4>1, <4>2 DEF Saying, SaidInTurn
      <4> QED
        BY <3>2, <4>3
    <3>4. 0 \in DOMAIN status.bombs
      BY <2>4, <3>3 DEF Taken
    <3>5. status.bombs[0].position = Origin
      <4>1. PICK D \in SUBSET {0} :
              status.bombs \in [D -> [position : {Origin}, timer : 0 .. (U16 - 1)]]
        BY <2>1 DEF Known, KnownStatus, KnownBombs
      <4> QED
        BY <3>4, <4>1
    <3> QED
      BY <3>1, <3>4, <3>5
  <2> QED
    BY <2>5, <2>7, <2>8
<1>2. RobotsInv => GameKnown
  BY <1>1 DEF GameKnown
<1> QED
  BY <1>2, RobotsInvariance, PTL

(***************************************************************************)
(* On a connection that holds, the client's reader dies of the robot 255   *)
(* in the explosion of a bomb it knows, and of nothing else that it reads. *)
(***************************************************************************)
THEOREM PhantomsKill == RobotsSpec => OnlyPhantomsKill
<1> DEFINE Phantom ==
             \E k \in 1 .. Len(Head(inbox).events) :
               LET event == Head(inbox).events[k]
               IN  /\ event.type = "BombExploded"
                   /\ event.bomb \in DOMAIN Replay(Head(inbox))[k - 1].bombs
                   /\ NoPlayer \in event.robots
           Dies == link = "up" /\ listener = "reading" /\ listener' = "dead"
<1>1. ASSUME RobotsInv, RobotsNext, Dies
      PROVE  Phantom
  <2>1. ReceiveTurnThrows
    <3>1. listener' # listener /\ listener' = "dead" /\ link = "up"
      BY <1>1
    <3>2. CASE ClientListens
      <4>1. \/ ReceiveHello \/ ReceiveAcceptedPlayer \/ ReceiveGameStarted \/ ReceiveTurn
            \/ ReceiveGameEnded \/ LobbyDrawn \/ GameDrawn
            => listener' # "dead" \/ listener' = listener
        BY DEF ReceiveHello, ReceiveAcceptedPlayer, ReceiveGameStarted, ReceiveTurn,
               ReceiveGameEnded, LobbyDrawn, GameDrawn
      <4>2. ~ DrawingFails
        BY <1>1 DEF DrawingFails
      <4> QED
        BY <3>1, <3>2, <4>1, <4>2 DEF ClientListens, Listen
    <3>3. ~ ClientNotices
      BY <3>1 DEF ClientNotices
    <3>4. OthersStep \/ RoomTurn \/ ServerReads \/ ClientConnects => listener' = listener
      BY DEF OthersStep, RoomTurn, ServerReads, ClientConnects, ServerOnly
    <3>5. LinkBreaks \/ ServerNotices => listener' = listener
      BY DEF LinkBreaks, ServerNotices, clientVars
    <3>6. ClientPlays => listener' = listener
      BY DEF ClientPlays, Play, InputSent, ReceiveInput
    <3> QED
      BY <1>1, <3>1, <3>2, <3>3, <3>4, <3>5, <3>6 DEF RobotsNext
  <2>2. TakeMessage /\ Head(inbox).type = "Turn" /\ TurnThrows(Head(inbox))
    BY <2>1 DEF ReceiveTurnThrows, Reads
  <2>3. PICK m : m = Head(inbox)
    OBVIOUS
  <2>4. Known /\ status \in KnownStatus
    BY <1>1 DEF RobotsInv, Known
  <2>5. /\ m.turn \in Nat /\ m.events \in Seq(Event)
        /\ SaidInTurn(m.events, 0 \in DOMAIN status.bombs)
    BY <2>2, <2>3, <2>4, TurnAhead
  <2>6. \E k \in 1 .. Len(m.events) :
          /\ m.events[k].type = "BombExploded"
          /\ m.events[k].bomb \in DOMAIN Replay(m)[k - 1].bombs
          /\ NoPlayer \in m.events[k].robots
    BY <2>2, <2>3, <2>4, <2>5, TurnKills
  <2> QED
    BY <2>3, <2>6
<1>2. RobotsInv /\ [RobotsNext]_robotsVars => [Dies => Phantom]_robotsVars
  <2> HIDE DEF Phantom, Dies
  <2> QED
    BY <1>1
<1> QED
  BY <1>2, RobotsInvariance, PTL DEF RobotsSpec, OnlyPhantomsKill

(***************************************************************************)
(* The variables of the client keep their types.                           *)
(***************************************************************************)
THEOREM ClientTypes == RobotsSpec => []ClientTypeOK
<1>1. ASSUME RobotsInv
      PROVE  ClientTypeOK
  <2>1. Known /\ status \in KnownStatus
    BY <1>1 DEF RobotsInv, Known
  <2>2. /\ status.turn \in Nat /\ status.players \in PlayerMap
        /\ status.player_positions \in Places /\ status.blocks \in SUBSET Position
        /\ status.bombs \in KnownBombs /\ status.scores \in Zeros
        /\ status.explosions = {} /\ status.players_scored = {}
    BY <2>1 DEF KnownStatus
  <2>3. \A i \in DOMAIN status.player_positions :
          i \in AnyId /\ status.player_positions[i] \in Position
    BY <2>2 DEF Places
  <2>4. \A b \in DOMAIN status.bombs : status.bombs[b] \in Bomb
    <3>1. PICK D \in SUBSET {0} :
            status.bombs \in [D -> [position : {Origin}, timer : 0 .. (U16 - 1)]]
      BY <2>2 DEF KnownBombs
    <3> QED
      BY <3>1, CornerOnBoard DEF Bomb
  <2>5. DOMAIN status.scores \subseteq PlayerId
    BY <2>2 DEF Zeros
  <2> QED
    BY <2>1, <2>2, <2>3, <2>4, <2>5 DEF ClientTypeOK, Known
<1> QED
  BY <1>1, RobotsInvariance, PTL
================================================================================
