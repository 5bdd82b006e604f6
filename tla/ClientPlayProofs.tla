---------------------------- MODULE ClientPlayProofs ---------------------------
(***************************************************************************)
(* Theorems about ClientPlay: on any board, with any number of players,    *)
(* games, turns and bombs, the client draws what a server that plays by    *)
(* the rules has, and never meets something unknown.                       *)
(***************************************************************************)
EXTENDS ClientPlay, ExplosionProofs, SequenceTheorems, FiniteSetTheorems

USE BoardAssumption, PlayersAssumption, RadiusAssumption, TimerAssumption, BoundsAssumption

(***************************************************************************)
(* The types of the server, and of a status of the client.                 *)
(***************************************************************************)
Laid == [position : Position, turn : Nat]

Served ==
  /\ games \in Nat /\ next \in Nat
  /\ laid \in Seq(Laid)
  /\ next # 0 => \A k \in 1 .. Len(laid) : laid[k].turn < next
  /\ walls \in SUBSET Position /\ blast \in SUBSET Position
  /\ robots \in [PlayerId -> Position] /\ deaths \in [PlayerId -> Nat]

Places == UNION {[D -> Position] : D \in SUBSET PlayerId}
KnownBombs == UNION {[D -> Bomb] : D \in SUBSET Nat}
Tallies == UNION {[D -> Nat] : D \in SUBSET PlayerId}

KnownStatus ==
  [turn : Nat, players : PlayerMap, player_positions : Places, blocks : SUBSET Position,
   bombs : KnownBombs, explosions : SUBSET Position, scores : Tallies,
   players_scored : SUBSET PlayerId]

Kept ==
  /\ outbox = <<>> /\ input = "waiting"
  /\ in_lobby \in BOOLEAN /\ status \in KnownStatus

(***************************************************************************)
(* A status st, once its turn is read, is right about the board and knows  *)
(* every bomb that is still to explode, in every game.  In the first game  *)
(* it is right about scores and bombs too, with timers that count down to  *)
(* turn n.                                                                 *)
(***************************************************************************)
Live(n) == {b \in 0 .. (Len(laid) - 1) : laid[b + 1].turn + BombTimer >= n}

Burning(b, n) == [position |-> laid[b + 1].position, timer |-> laid[b + 1].turn + BombTimer - n]

Right(st, n) ==
  /\ st.player_positions = robots /\ st.blocks = walls
  /\ DOMAIN st.players = PlayerId /\ DOMAIN st.scores = PlayerId
  /\ Live(st.turn + 1) \subseteq DOMAIN st.bombs
  /\ games = 1 =>
       /\ st.scores = deaths
       /\ BombTimer # 0 => st.bombs = [b \in Live(st.turn + 1) |-> Burning(b, n)]

Pictured(st) ==
  /\ st \in KnownStatus
  /\ next # 0 => next = st.turn + 1
  /\ Right(st, st.turn)
  /\ games = 1 => st.explosions = blast

(***************************************************************************)
(* Where the two are, one after the other: between games; GameStarted has  *)
(* been written, and then read; a turn has been written; it is drawn; it   *)
(* has been drawn; or a drawing has failed.  Of a turn that is under way,  *)
(* what matters is what the client will make of it.                        *)
(***************************************************************************)
Forgotten == status.explosions = {} /\ status.players_scored = {}

Last == IF next = 0 THEN <<GameEnded(<<>>)>> ELSE <<>>

FirstTurn == Turn(0, [k \in 1 .. PlayersCount |-> PlayerMoved(k - 1, Origin)])

Begun ==
  /\ listener = "reading" /\ next = 1
  /\ laid = <<>> /\ walls = {} /\ blast = {}
  /\ robots = [i \in PlayerId |-> Origin] /\ deaths = [i \in PlayerId |-> 0]
  /\ Forgotten /\ status.blocks = {}
  /\ games = 1 => status.bombs = <<>>

Idle ==
  /\ listener \in {"reading", "lobby"} /\ inbox = <<>> /\ next = 0
  /\ Forgotten /\ status.blocks = {}
  /\ games = 0 => status.bombs = <<>> /\ status.scores = <<>>

Called ==
  /\ Begun
  /\ \E players \in [PlayerId -> Names] : inbox = <<GameStarted(players), FirstTurn>>
  /\ games = 1 => status.scores = <<>>

Ready ==
  /\ Begun
  /\ inbox = <<FirstTurn>>
  /\ DOMAIN status.players = PlayerId /\ DOMAIN status.scores = PlayerId
  /\ games = 1 => status.scores = deaths

Coming ==
  /\ listener = "reading"
  /\ \E m \in Message :
       /\ m.type = "Turn" /\ inbox = <<m>> \o Last
       /\ ~ TurnThrows(m)
       /\ Pictured(Replay(m)[Len(m.events)])

Shown == listener = "game" /\ inbox = Last /\ Pictured(status)

Resting ==
  /\ listener = "reading" /\ inbox = Last
  /\ Forgotten
  /\ next # 0 => next = status.turn + 1 /\ Right(status, next)

\* No drawing has left any more, and nothing is read.
Over == listener = "dead" /\ inbox \in Seq(Message)

Phases ==
  \/ Idle \/ Over
  \/ games # 0 /\ (Called \/ Ready \/ Coming \/ Shown \/ Resting)

PlayInv == Served /\ Kept /\ Phases

--------------------------------------------------------------------------------
(***************************************************************************)
(* receive_turn, event by event.  Replay is defined by recursion, whatever *)
(* becomes of the status once an event has thrown.                         *)
(***************************************************************************)
LEMMA ReplayDefined ==
  ASSUME NEW m, Len(m.events) \in Nat
  PROVE  /\ Replay(m)[0] = [status EXCEPT !.turn = m.turn]
         /\ \A k \in 1 .. Len(m.events) :
              Replay(m)[k] = ResolveEvent(Replay(m)[k - 1], m.events[k])
<1> DEFINE N == Len(m.events)
           start == [status EXCEPT !.turn = m.turn]
           Runs(f, n) == f = [k \in 0 .. n |->
                                IF k = 0 THEN start ELSE ResolveEvent(f[k - 1], m.events[k])]
           T == {n \in 0 .. N : \E f : Runs(f, n)}
<1>1. 0 \in T
  <2> DEFINE f == [k \in 0 .. 0 |-> start]
  <2>1. f = [k \in 0 .. 0 |-> IF k = 0 THEN start ELSE ResolveEvent(f[k - 1], m.events[k])]
    <3> HIDE DEF start
    <3> QED
      OBVIOUS
  <2>2. Runs(f, 0)
    BY <2>1
  <2> HIDE DEF Runs, f
  <2> QED
    BY <2>2
<1>2. ASSUME NEW n \in 0 .. (N - 1), n \in T
      PROVE  n + 1 \in T
  <2>1. PICK f : Runs(f, n)
    BY <1>2
  <2> DEFINE outcome == ResolveEvent(f[n], m.events[n + 1])
             g == [k \in 0 .. (n + 1) |-> IF k = n + 1 THEN outcome ELSE f[k]]
  <2>2. ASSUME NEW k \in 0 .. (n + 1)
        PROVE  g[k] = IF k = 0 THEN start ELSE ResolveEvent(g[k - 1], m.events[k])
    <3>1. CASE k = n + 1
      <4>1. k # 0 /\ k - 1 = n /\ n \in 0 .. (n + 1) /\ n # n + 1
        BY <3>1
      <4>2. g[k] = outcome /\ g[k - 1] = f[n]
        <5> HIDE DEF outcome
        <5> QED
          BY <3>1, <4>1
      <4> HIDE DEF g, start
      <4> QED
        BY <3>1, <4>1, <4>2
    <3>2. CASE k # n + 1
      <4>1. k \in 0 .. n /\ (k # 0 => k - 1 \in 0 .. (n + 1) /\ k - 1 # n + 1)
        BY <3>2
      <4>2. g[k] = f[k] /\ (k # 0 => g[k - 1] = f[k - 1])
        <5> HIDE DEF outcome
        <5> QED
          BY <3>2, <4>1
      <4>3. f[k] = IF k = 0 THEN start ELSE ResolveEvent(f[k - 1], m.events[k])
        <5> HIDE DEF start
        <5> QED
          BY <2>1, <4>1
      <4> HIDE DEF g, start
      <4> QED
        BY <4>2, <4>3
    <3> QED
      BY <3>1, <3>2
  <2>3. Runs(g, n + 1)
    <3>1. g = [k \in 0 .. (n + 1) |-> g[k]]
      OBVIOUS
    <3> HIDE DEF g, start
    <3> QED
      BY <2>2, <3>1
  <2>4. n + 1 \in 0 .. N
    OBVIOUS
  <2> HIDE DEF Runs, g
  <2> QED
    BY <2>3, <2>4
<1>3. N \in T
  <2> HIDE DEF T
  <2>1. \A n \in 0 .. N : n \in T
    BY <1>1, <1>2, IntervalInduction
  <2> QED
    BY <2>1
<1>4. Replay(m) = CHOOSE f : Runs(f, N)
  BY DEF Replay
<1>5. Runs(Replay(m), N)
  <2> HIDE DEF Runs
  <2> QED
    BY <1>3, <1>4
<1>6. ASSUME NEW k \in 0 .. N
      PROVE  Replay(m)[k] = IF k = 0 THEN start ELSE ResolveEvent(Replay(m)[k - 1], m.events[k])
  <2> HIDE DEF start
  <2> QED
    BY <1>5
<1> HIDE DEF start
<1>7. Replay(m)[0] = start
  <2>1. PICK zero \in 0 .. N : zero = 0
    OBVIOUS
  <2> QED
    BY <1>6, <2>1
<1>8. \A k \in 1 .. N : Replay(m)[k] = ResolveEvent(Replay(m)[k - 1], m.events[k])
  BY <1>6
<1> QED
  BY <1>7, <1>8 DEF start

--------------------------------------------------------------------------------
(***************************************************************************)
(* The reports of a turn: each bomb that is due explodes once.             *)
(***************************************************************************)
LEMMA BlownEvent ==
  ASSUME Served, NEW b \in 0 .. (Len(laid) - 1)
  PROVE  /\ laid[b + 1] \in Laid /\ Reach(b) \in SUBSET Position
         /\ Blown(b) \in Event
         /\ Blown(b).type = "BombExploded" /\ Blown(b).bomb = b
         /\ Blown(b).robots = {i \in PlayerId : robots[i] \in Reach(b)}
         /\ Blown(b).blocks = walls \cap Reach(b)
<1>1. laid \in Seq(Laid)
  BY DEF Served
<1>2. b + 1 \in 1 .. Len(laid) /\ b \in Nat
  BY <1>1
<1>3. laid[b + 1] \in Laid
  BY <1>1, <1>2, ElementOfSeq
<1>4. Reach(b) \in SUBSET Position
  BY DEF Reach, Cross
<1> DEFINE rs == {i \in PlayerId : robots[i] \in Reach(b)}
           bs == walls \cap Reach(b)
<1>5. rs \in SUBSET AnyId /\ bs \in SUBSET Position
  BY <1>4 DEF AnyId
<1>6. Blown(b) = [type |-> "BombExploded", bomb |-> b, robots |-> rs, blocks |-> bs]
  BY DEF Blown, BombExploded
<1> HIDE DEF rs, bs
<1>7. Blown(b) \in [type : {"BombExploded"}, bomb : Nat,
                    robots : SUBSET AnyId, blocks : SUBSET Position]
  BY <1>2, <1>5, <1>6
<1>8. Blown(b) \in Event
  BY <1>7 DEF Event
<1> QED
  BY <1>3, <1>4, <1>6, <1>8 DEF rs, bs

LEMMA ReportsDefined ==
  ASSUME Served
  PROVE  /\ Reports[0] = <<>>
         /\ \A k \in 1 .. Len(laid) :
              Reports[k] = IF k - 1 \in Due THEN Append(Reports[k - 1], Blown(k - 1))
                                            ELSE Reports[k - 1]
<1> DEFINE N == Len(laid)
           S == Seq(Event)
           step == [x \in (1 .. N) \X S |->
                      IF x[1] - 1 \in Due THEN Append(x[2], Blown(x[1] - 1)) ELSE x[2]]
           Runs(f) == f = [k \in 0 .. N |->
                             IF k = 0 THEN <<>>
                             ELSE IF k - 1 \in Due THEN Append(f[k - 1], Blown(k - 1)) ELSE f[k - 1]]
<1>1. N \in Nat
  BY DEF Served
<1>2. step \in [(1 .. N) \X S -> S]
  <2> SUFFICES ASSUME NEW k \in 1 .. N, NEW es \in S
               PROVE  (IF k - 1 \in Due THEN Append(es, Blown(k - 1)) ELSE es) \in S
    OBVIOUS
  <2>1. k - 1 \in Due => Blown(k - 1) \in Event
    BY BlownEvent DEF Due
  <2> QED
    BY <2>1
<1>3. PICK f : IsRecursion(f, N, S, <<>>, step)
  <2>1. <<>> \in S
    OBVIOUS
  <2> HIDE DEF step, S, N
  <2> QED
    BY <1>1, <1>2, <2>1, RecursionExists
<1>4. ASSUME NEW k \in 1 .. N
      PROVE  f[k] = IF k - 1 \in Due THEN Append(f[k - 1], Blown(k - 1)) ELSE f[k - 1]
  <2>1. k - 1 \in 0 .. N
    BY <1>1
  <2>2. f[k - 1] \in S /\ f[k] = step[<<k, f[k - 1]>>]
    <3> HIDE DEF step, S, N
    <3> QED
      BY <1>3, <2>1 DEF IsRecursion
  <2>3. step[<<k, f[k - 1]>>] =
          IF k - 1 \in Due THEN Append(f[k - 1], Blown(k - 1)) ELSE f[k - 1]
    BY <2>2
  <2> HIDE DEF step
  <2> QED
    BY <2>2, <2>3
<1>5. Runs(f)
  <2> HIDE DEF step, S
  <2>1. f = [k \in 0 .. N |-> f[k]] /\ f[0] = <<>>
    BY <1>3 DEF IsRecursion
  <2>2. \A k \in 0 .. N :
          f[k] = IF k = 0 THEN <<>>
                 ELSE IF k - 1 \in Due THEN Append(f[k - 1], Blown(k - 1)) ELSE f[k - 1]
    <3> SUFFICES ASSUME NEW k \in 0 .. N, k # 0
                 PROVE  f[k] = IF k - 1 \in Due THEN Append(f[k - 1], Blown(k - 1)) ELSE f[k - 1]
      BY <2>1
    <3>1. k \in 1 .. N
      BY <1>1
    <3> QED
      BY <1>4, <3>1
  <2> QED
    BY <2>1, <2>2
<1>6. Reports = CHOOSE g : Runs(g)
  BY DEF Reports
<1>7. Runs(Reports)
  <2> HIDE DEF Runs
  <2> QED
    BY <1>5, <1>6
<1>8. \A k \in 0 .. N :
        Reports[k] = IF k = 0 THEN <<>>
                     ELSE IF k - 1 \in Due THEN Append(Reports[k - 1], Blown(k - 1))
                                           ELSE Reports[k - 1]
  BY <1>7
<1>9. Reports[0] = <<>>
  <2>1. PICK zero \in 0 .. N : zero = 0
    BY <1>1
  <2> QED
    BY <1>8, <2>1
<1>10. ASSUME NEW k \in 1 .. N
       PROVE  Reports[k] = IF k - 1 \in Due THEN Append(Reports[k - 1], Blown(k - 1))
                                            ELSE Reports[k - 1]
  <2>1. k \in 0 .. N /\ k # 0
    BY <1>1
  <2> QED
    BY <1>8, <2>1
<1> QED
  BY <1>9, <1>10

(***************************************************************************)
(* es reports the bombs that are due and have an id below k.               *)
(***************************************************************************)
Reported(es, k) ==
  /\ es \in Seq(Event)
  /\ \A i \in 1 .. Len(es) : \E b \in Due : b < k /\ es[i] = Blown(b)
  /\ \A i, j \in 1 .. Len(es) : es[i].bomb = es[j].bomb => i = j
  /\ \A b \in Due : b < k => \E i \in 1 .. Len(es) : es[i] = Blown(b)

LEMMA ReportedMore ==
  ASSUME Served, NEW k \in 1 .. Len(laid), NEW es, Reported(es, k - 1), k - 1 \in Due
  PROVE  Reported(Append(es, Blown(k - 1)), k)
<1> DEFINE e == Blown(k - 1)
           fs == Append(es, e)
<1>1. Len(laid) \in Nat /\ Due \subseteq 0 .. (Len(laid) - 1)
  BY DEF Served, Due
<1>2. e \in Event /\ e.bomb = k - 1
  BY <1>1, BlownEvent
<1>3. \A b \in Due : Blown(b).bomb = b
  BY <1>1, BlownEvent
<1>4. es \in Seq(Event)
  BY DEF Reported
<1> HIDE DEF e
<1>5. fs \in Seq(Event) /\ Len(fs) = Len(es) + 1 /\ Len(es) \in Nat
  BY <1>2, <1>4
<1>6. \A i \in 1 .. Len(fs) : i \in 1 .. Len(es) \/ i = Len(es) + 1
  BY <1>5
<1>7. (\A i \in 1 .. Len(es) : fs[i] = es[i]) /\ fs[Len(es) + 1] = e
  BY <1>2, <1>4
<1> HIDE DEF fs
<1>8. ASSUME NEW i \in 1 .. Len(es)
      PROVE  es[i].bomb < k - 1
  <2>1. PICK b \in Due : b < k - 1 /\ es[i] = Blown(b)
    BY DEF Reported
  <2> QED
    BY <1>3, <2>1
<1>9. \A i \in 1 .. Len(fs) : \E b \in Due : b < k /\ fs[i] = Blown(b)
  <2> SUFFICES ASSUME NEW i \in 1 .. Len(fs)
               PROVE  \E b \in Due : b < k /\ fs[i] = Blown(b)
    OBVIOUS
  <2>1. CASE i \in 1 .. Len(es)
    <3>1. PICK b \in Due : b < k - 1 /\ es[i] = Blown(b)
      BY <2>1 DEF Reported
    <3> QED
      BY <1>1, <1>7, <2>1, <3>1
  <2>2. CASE i = Len(es) + 1
    BY <1>1, <1>7, <2>2 DEF e
  <2> QED
    BY <1>6, <2>1, <2>2
<1>10. \A i, j \in 1 .. Len(fs) : fs[i].bomb = fs[j].bomb => i = j
  <2> SUFFICES ASSUME NEW i \in 1 .. Len(fs), NEW j \in 1 .. Len(fs), fs[i].bomb = fs[j].bomb
               PROVE  i = j
    OBVIOUS
  <2>1. CASE i \in 1 .. Len(es) /\ j \in 1 .. Len(es)
    BY <1>7, <2>1 DEF Reported
  <2>2. CASE i \in 1 .. Len(es) /\ j = Len(es) + 1
    <3>1. fs[i].bomb < k - 1 /\ fs[j].bomb = k - 1
      BY <1>2, <1>7, <1>8, <2>2
    <3> QED
      BY <3>1
  <2>3. CASE j \in 1 .. Len(es) /\ i = Len(es) + 1
    <3>1. fs[j].bomb < k - 1 /\ fs[i].bomb = k - 1
      BY <1>2, <1>7, <1>8, <2>3
    <3> QED
      BY <3>1
  <2> QED
    BY <1>6, <2>1, <2>2, <2>3
<1>11. \A b \in Due : b < k => \E i \in 1 .. Len(fs) : fs[i] = Blown(b)
  <2> SUFFICES ASSUME NEW b \in Due, b < k
               PROVE  \E i \in 1 .. Len(fs) : fs[i] = Blown(b)
    OBVIOUS
  <2>1. CASE b < k - 1
    <3>1. PICK i \in 1 .. Len(es) : es[i] = Blown(b)
      BY <2>1 DEF Reported
    <3> QED
      BY <1>5, <1>7, <3>1
  <2>2. CASE b = k - 1
    <3>1. Len(es) + 1 \in 1 .. Len(fs)
      BY <1>5
    <3> QED
      BY <1>7, <2>2, <3>1 DEF e
  <2> QED
    BY <1>1, <2>1, <2>2
<1> QED
  BY <1>5, <1>9, <1>10, <1>11 DEF Reported, fs, e

LEMMA ReportsComplete ==
  ASSUME Served
  PROVE  Reported(Reports[Len(laid)], Len(laid))
<1> DEFINE N == Len(laid)
           T == {k \in 0 .. N : Reported(Reports[k], k)}
<1>1. N \in Nat /\ Due \subseteq 0 .. (N - 1)
  BY DEF Served, Due
<1>2. 0 \in T
  <2>1. Reports[0] = <<>>
    BY ReportsDefined
  <2>2. Reported(<<>>, 0)
    BY <1>1 DEF Reported
  <2> QED
    BY <1>1, <2>1, <2>2
<1>3. ASSUME NEW k \in 0 .. (N - 1), k \in T
      PROVE  k + 1 \in T
  <2>1. PICK n \in 1 .. N : n = k + 1 /\ k = n - 1
    BY <1>1
  <2>2. Reports[n] = IF n - 1 \in Due THEN Append(Reports[n - 1], Blown(n - 1)) ELSE Reports[n - 1]
    BY ReportsDefined
  <2>3. Reported(Reports[n - 1], n - 1)
    BY <1>3, <2>1
  <2>4. CASE n - 1 \in Due
    <3>1. Reported(Append(Reports[n - 1], Blown(n - 1)), n)
      BY <2>3, <2>4, ReportedMore
    <3>2. Reports[n] = Append(Reports[n - 1], Blown(n - 1))
      BY <2>2, <2>4
    <3>3. Reported(Reports[n], n) /\ n \in 0 .. N
      BY <1>1, <3>1, <3>2
    <3> QED
      BY <2>1, <3>3
  <2>5. CASE n - 1 \notin Due
    <3>1. \A b \in Due : b < n <=> b < n - 1
      BY <1>1, <2>1, <2>5
    <3>2. Reported(Reports[n - 1], n)
      BY <2>3, <3>1 DEF Reported
    <3> QED
      BY <1>1, <2>1, <2>2, <2>5, <3>2
  <2> QED
    BY <2>4, <2>5
<1> HIDE DEF T
<1>4. \A k \in 0 .. N : k \in T
  BY <1>1, <1>2, <1>3, IntervalInduction
<1>5. N \in T
  BY <1>1, <1>4
<1> QED
  BY <1>5 DEF T

--------------------------------------------------------------------------------
(***************************************************************************)
(* A status with some of its fields changed is a status.                   *)
(***************************************************************************)
LEMMA KnownUpdate ==
  ASSUME NEW st \in KnownStatus
  PROVE  /\ \A n \in Nat : [st EXCEPT !.turn = n] \in KnownStatus
         /\ \A ps \in PlayerMap, z \in Tallies :
              [st EXCEPT !.players = ps, !.scores = z] \in KnownStatus
         /\ \A ps \in Places : [st EXCEPT !.player_positions = ps] \in KnownStatus
         /\ \A bs \in SUBSET Position : [st EXCEPT !.blocks = bs] \in KnownStatus
         /\ \A n \in Nat : [st EXCEPT !.turn = n, !.blocks = {}] \in KnownStatus
         /\ \A bs \in KnownBombs : [st EXCEPT !.bombs = bs] \in KnownStatus
         /\ \A bs \in KnownBombs :
              [st EXCEPT !.bombs = bs, !.explosions = {}, !.players_scored = {}] \in KnownStatus
         /\ \A x \in SUBSET Position, w \in SUBSET Position, z \in Tallies,
               s \in SUBSET PlayerId, bs \in KnownBombs :
              [st EXCEPT !.explosions = x, !.blocks = w, !.scores = z,
                         !.players_scored = s, !.bombs = bs] \in KnownStatus
<1> DEFINE Boards == SUBSET Position
           Ids == SUBSET PlayerId
           S == [turn : Nat, players : PlayerMap, player_positions : Places, blocks : Boards,
                 bombs : KnownBombs, explosions : Boards, scores : Tallies, players_scored : Ids]
<1>1. KnownStatus = S
  BY DEF KnownStatus
<1>2. {} \in Boards /\ {} \in Ids
  OBVIOUS
<1> HIDE DEF Boards, Ids
<1>3. st \in S
  BY <1>1
<1>4. /\ \A n \in Nat : [st EXCEPT !.turn = n] \in S
      /\ \A ps \in PlayerMap, z \in Tallies : [st EXCEPT !.players = ps, !.scores = z] \in S
      /\ \A ps \in Places : [st EXCEPT !.player_positions = ps] \in S
  BY <1>3
<1>5. /\ \A bs \in Boards : [st EXCEPT !.blocks = bs] \in S
      /\ \A n \in Nat : [st EXCEPT !.turn = n, !.blocks = {}] \in S
      /\ \A bs \in KnownBombs : [st EXCEPT !.bombs = bs] \in S
  BY <1>2, <1>3
<1>6. \A bs \in KnownBombs :
        [st EXCEPT !.bombs = bs, !.explosions = {}, !.players_scored = {}] \in S
  BY <1>2, <1>3
<1>7. \A x \in Boards, w \in Boards, z \in Tallies, s \in Ids, bs \in KnownBombs :
        [st EXCEPT !.explosions = x, !.blocks = w, !.scores = z,
                   !.players_scored = s, !.bombs = bs] \in S
  BY <1>3
<1> HIDE DEF S
<1> QED
  BY <1>1, <1>4, <1>5, <1>6, <1>7 DEF Boards, Ids

(***************************************************************************)
(* What the client makes of the reports.  It has drawn the turn before;    *)
(* Burnt(st, D) says what it knows once the bombs D have exploded.         *)
(***************************************************************************)
Waits ==
  /\ Served /\ Kept /\ Forgotten
  /\ next # 0 /\ next = status.turn + 1
  /\ Right(status, next)

Fire(D) == UNION {Reach(b) : b \in D}
Hit(D) == {i \in PlayerId : robots[i] \in Fire(D)}
Toll(D) == [i \in PlayerId |-> IF i \in Hit(D) THEN deaths[i] + 1 ELSE deaths[i]]

Burnt(st, D) ==
  /\ st \in KnownStatus
  /\ st.turn = next /\ st.players = status.players
  /\ st.player_positions = status.player_positions
  /\ st.blocks = walls \ Fire(D)
  /\ DOMAIN st.bombs = DOMAIN status.bombs \ D
  /\ \A b \in DOMAIN st.bombs : st.bombs[b] = status.bombs[b]
  /\ DOMAIN st.scores = PlayerId
  /\ st.players_scored = Hit(D)
  /\ games = 1 => st.explosions = Fire(D) /\ st.scores = Toll(D)

LEMMA DueKnown ==
  ASSUME Waits, NEW b \in Due
  PROVE  /\ b \in 0 .. (Len(laid) - 1)
         /\ b \in DOMAIN status.bombs
         /\ games = 1 => status.bombs[b].position = laid[b + 1].position
<1>1. b \in 0 .. (Len(laid) - 1) /\ laid[b + 1].turn + BombTimer = next
  BY DEF Due
<1>2. Len(laid) \in Nat /\ b + 1 \in 1 .. Len(laid) /\ next \in Nat /\ laid[b + 1] \in Laid
  BY <1>1, BlownEvent DEF Waits, Served
<1>3. laid[b + 1].turn < next /\ laid[b + 1].turn \in Nat
  BY <1>2 DEF Waits, Served, Laid
<1>4. BombTimer # 0
  BY <1>1, <1>2, <1>3
<1>5. b \in Live(status.turn + 1)
  BY <1>1, <1>2 DEF Live, Waits
<1>6. b \in DOMAIN status.bombs
  BY <1>5 DEF Waits, Right
<1>7. ASSUME games = 1
      PROVE  status.bombs[b].position = laid[b + 1].position
  <2>1. status.bombs[b] = Burning(b, next)
    BY <1>4, <1>5, <1>7 DEF Waits, Right
  <2> QED
    BY <2>1 DEF Burning
<1> QED
  BY <1>1, <1>6, <1>7

(***************************************************************************)
(* From what an event tells of the blocks the client draws the cross.      *)
(***************************************************************************)
LEMMA BlastOfReport ==
  ASSUME Served, NEW b \in 0 .. (Len(laid) - 1)
  PROVE  ClientBlast(laid[b + 1].position, walls \cap Reach(b)) = Reach(b)
<1> DEFINE p == laid[b + 1].position
<1>1. p \in Position /\ walls \in SUBSET Position
  BY BlownEvent DEF Served, Laid
<1>2. Reach(b) = Cross(p, walls)
  BY DEF Reach
<1> HIDE DEF p
<1>3. ClientBlast(p, walls \cap Cross(p, walls)) = ClientBlast(p, walls)
  BY <1>1, CrossBlocksSuffice
<1> QED
  BY <1>1, <1>2, <1>3, ClientBlastIsCross DEF p

LEMMA BurntMore ==
  ASSUME Waits, NEW D \in SUBSET Due, NEW b \in Due \ D, NEW st, Burnt(st, D)
  PROVE  /\ ~ Throws(st, Blown(b))
         /\ Burnt(ResolveEvent(st, Blown(b)), D \cup {b})
<1> DEFINE e == Blown(b)
           new == ResolveEvent(st, e)
           E == D \cup {b}
           x == st.explosions \cup ClientBlast(st.bombs[b].position, walls \cap Reach(b))
           w == st.blocks \ (walls \cap Reach(b))
           z == [i \in PlayerId |-> IF i \in e.robots \ Hit(D) THEN st.scores[i] + 1 ELSE st.scores[i]]
           s == Hit(D) \cup e.robots
           bs == [c \in DOMAIN st.bombs \ {b} |-> st.bombs[c]]
<1>1. /\ b \in 0 .. (Len(laid) - 1) /\ b \in DOMAIN status.bombs
      /\ games = 1 => status.bombs[b].position = laid[b + 1].position
  BY DueKnown
<1>2. /\ e.type = "BombExploded" /\ e.bomb = b
      /\ e.robots = {i \in PlayerId : robots[i] \in Reach(b)}
      /\ e.blocks = walls \cap Reach(b)
      /\ Reach(b) \in SUBSET Position
  BY <1>1, BlownEvent DEF Waits
<1> HIDE DEF e
<1>3. st \in KnownStatus /\ DOMAIN st.scores = PlayerId /\ st.players_scored = Hit(D)
  BY DEF Burnt
<1>4. b \in DOMAIN st.bombs /\ st.bombs[b] = status.bombs[b]
  BY <1>1 DEF Burnt
<1>5. ~ Throws(st, e)
  BY <1>2, <1>3, <1>4 DEF Throws
<1>6. new = [st EXCEPT !.explosions = x, !.blocks = w, !.scores = z,
                       !.players_scored = s, !.bombs = bs]
  BY <1>2, <1>3 DEF ResolveEvent, Explode, KnownStatus
<1>7. Fire(E) = Fire(D) \cup Reach(b)
  BY DEF Fire
<1>8. s = Hit(E)
  BY <1>2, <1>7 DEF Hit
<1>9. w = walls \ Fire(E)
  BY <1>7 DEF Burnt
<1>10. st.bombs \in KnownBombs /\ st.scores \in Tallies /\ st.explosions \in SUBSET Position
  BY <1>3 DEF KnownStatus
<1>11. bs \in KnownBombs /\ st.bombs[b] \in Bomb
  <2>1. PICK B \in SUBSET Nat : st.bombs \in [B -> Bomb]
    BY <1>10 DEF KnownBombs
  <2>2. bs \in [(B \ {b}) -> Bomb] /\ st.bombs[b] \in Bomb
    BY <1>4, <2>1
  <2>3. B \ {b} \in SUBSET Nat
    OBVIOUS
  <2> HIDE DEF bs
  <2> QED
    BY <2>2, <2>3 DEF KnownBombs
<1>12. z \in [PlayerId -> Nat] /\ \A i \in PlayerId : st.scores[i] \in Nat
  <2>1. st.scores \in [PlayerId -> Nat]
    BY <1>3, <1>10 DEF Tallies
  <2> QED
    BY <2>1
<1>13. z \in Tallies
  <2> HIDE DEF z
  <2> QED
    BY <1>12 DEF Tallies
<1>14. x \in SUBSET Position
  <2>1. st.bombs[b].position \in Position /\ walls \cap Reach(b) \in SUBSET Position
    BY <1>2, <1>11 DEF Bomb
  <2>2. ClientBlast(st.bombs[b].position, walls \cap Reach(b)) \in SUBSET Position
    BY <2>1, ClientBlastIsCross DEF Cross
  <2> QED
    BY <1>10, <2>2
<1>15. w \in SUBSET Position /\ s \in SUBSET PlayerId
  BY <1>8, <1>9 DEF Hit, Waits, Served
<1>16. new \in KnownStatus
  <2> HIDE DEF x, w, z, s, bs, new
  <2> QED
    BY <1>3, <1>6, <1>11, <1>13, <1>14, <1>15, KnownUpdate
<1>17. /\ new.turn = st.turn /\ new.players = st.players
       /\ new.player_positions = st.player_positions
       /\ new.explosions = x /\ new.blocks = w /\ new.scores = z
       /\ new.players_scored = s /\ new.bombs = bs
  <2> HIDE DEF x, w, z, s, bs, new
  <2> QED
    BY <1>3, <1>6 DEF KnownStatus
<1>18. /\ DOMAIN bs = DOMAIN status.bombs \ E
       /\ \A c \in DOMAIN bs : bs[c] = status.bombs[c]
  BY DEF Burnt
<1>19. ASSUME games = 1
       PROVE  x = Fire(E) /\ z = Toll(E)
  <2>1. st.explosions = Fire(D) /\ st.scores = Toll(D)
    BY <1>19 DEF Burnt
  <2>2. x = Fire(E)
    <3>1. ClientBlast(st.bombs[b].position, walls \cap Reach(b)) = Reach(b)
      BY <1>1, <1>4, <1>19, BlastOfReport DEF Waits
    <3> QED
      BY <1>7, <2>1, <3>1
  <2>3. ASSUME NEW i \in PlayerId
        PROVE  z[i] = Toll(E)[i]
    <3>1. i \in e.robots <=> robots[i] \in Reach(b)
      BY <1>2
    <3>2. i \in Hit(E) <=> i \in Hit(D) \/ i \in e.robots
      BY <1>8
    <3> HIDE DEF E
    <3> QED
      BY <2>1, <3>2 DEF Toll
  <2> QED
    BY <2>2, <2>3 DEF Toll
<1> HIDE DEF x, w, z, s, bs, new
<1>20. new.turn = next /\ new.players = status.players /\ new.player_positions = status.player_positions
  BY <1>17 DEF Burnt
<1>21. DOMAIN new.scores = PlayerId
  BY <1>12, <1>17
<1>22. Burnt(new, E)
  <2> HIDE DEF E
  <2> QED
    BY <1>8, <1>9, <1>16, <1>17, <1>18, <1>19, <1>20, <1>21 DEF Burnt
<1> QED
  BY <1>5, <1>22 DEF new, e

LEMMA BurntFirst ==
  ASSUME Waits
  PROVE  Burnt([status EXCEPT !.turn = next], {})
<1> DEFINE new == [status EXCEPT !.turn = next]
<1>1. status \in KnownStatus /\ next \in Nat
  BY DEF Waits, Kept, Served
<1>2. new \in KnownStatus
  BY <1>1, KnownUpdate
<1>3. /\ new.turn = next /\ new.players = status.players
      /\ new.player_positions = status.player_positions /\ new.blocks = status.blocks
      /\ new.bombs = status.bombs /\ new.explosions = status.explosions
      /\ new.scores = status.scores /\ new.players_scored = status.players_scored
  BY <1>1 DEF KnownStatus
<1> HIDE DEF new
<1>4. Fire({}) = {} /\ Hit({}) = {}
  BY DEF Fire, Hit
<1>5. Toll({}) = deaths
  BY <1>4 DEF Toll, Waits, Served
<1>6. /\ status.blocks = walls /\ DOMAIN status.scores = PlayerId
      /\ games = 1 => status.scores = deaths
      /\ status.explosions = {} /\ status.players_scored = {}
  BY DEF Waits, Right, Forgotten
<1>7. new.blocks = walls \ Fire({}) /\ DOMAIN new.bombs = DOMAIN status.bombs \ {}
  BY <1>3, <1>4, <1>6
<1>8. Burnt(new, {})
  BY <1>2, <1>3, <1>4, <1>5, <1>6, <1>7 DEF Burnt
<1> QED
  BY <1>8 DEF new

LEMMA ReportsRead ==
  ASSUME Waits, NEW m, m.turn = next, Len(m.events) \in Nat,
         NEW es, es = Reports[Len(laid)], Len(es) <= Len(m.events),
         \A i \in 1 .. Len(es) : m.events[i] = es[i]
  PROVE  /\ \A i \in 1 .. Len(es) : ~ Throws(Replay(m)[i - 1], m.events[i])
         /\ Burnt(Replay(m)[Len(es)], Due)
<1> DEFINE N == Len(es)
           Told(i) == {b \in Due : \E j \in 1 .. i : es[j] = Blown(b)}
           T == {i \in 0 .. N : /\ Burnt(Replay(m)[i], Told(i))
                                /\ \A j \in 1 .. i : ~ Throws(Replay(m)[j - 1], m.events[j])}
<1>1. Reported(es, Len(laid))
  BY ReportsComplete DEF Waits
<1>2. N \in Nat /\ Due \subseteq 0 .. (Len(laid) - 1) /\ Len(laid) \in Nat
  BY <1>1 DEF Reported, Due, Waits, Served
<1>3. PICK R : R = Replay(m)
  OBVIOUS
<1>4. /\ R[0] = [status EXCEPT !.turn = m.turn]
      /\ \A i \in 1 .. Len(m.events) : R[i] = ResolveEvent(R[i - 1], m.events[i])
  BY <1>3, ReplayDefined
<1>5. 0 \in T
  <2>1. Told(0) = {}
    BY DEF Told
  <2>2. Burnt(R[0], {})
    BY <1>4, BurntFirst
  <2>3. \A j \in 1 .. 0 : ~ Throws(R[j - 1], m.events[j])
    OBVIOUS
  <2> HIDE DEF Told
  <2>4. Burnt(R[0], Told(0))
    BY <2>1, <2>2, <1>4
  <2> QED
    BY <1>2, <1>3, <2>3, <2>4
<1>6. ASSUME NEW i \in 0 .. (N - 1), i \in T
      PROVE  i + 1 \in T
  <2>1. PICK n \in 1 .. N : n = i + 1 /\ i = n - 1
    BY <1>2
  <2>2. PICK b \in Due : es[n] = Blown(b)
    BY <1>1 DEF Reported
  <2>3. b \notin Told(n - 1)
    <3>1. \A j \in 1 .. (n - 1) : j \in 1 .. N /\ j # n
      BY <1>2
    <3>2. \A j \in 1 .. (n - 1) : es[j] # es[n]
      BY <1>1, <3>1 DEF Reported
    <3> QED
      BY <2>2, <3>2
  <2>4. Told(n) = Told(n - 1) \cup {b}
    <3>1. \A j : j \in 1 .. n <=> j \in 1 .. (n - 1) \/ j = n
      BY <1>2
    <3>2. \A c \in Due : Blown(c) = Blown(b) => c = b
      <4>1. \A c \in Due : Blown(c).bomb = c
        BY <1>2, BlownEvent DEF Waits
      <4> QED
        BY <4>1
    <3> QED
      BY <2>2, <3>1, <3>2
  <2>5. m.events[n] = Blown(b) /\ R[n] = ResolveEvent(R[n - 1], Blown(b))
    <3>1. n \in 1 .. Len(m.events) /\ n \in 1 .. Len(es)
      BY <1>2
    <3>2. m.events[n] = es[n]
      BY <3>1
    <3> QED
      BY <1>4, <2>2, <3>1, <3>2
  <2>6. /\ Burnt(R[n - 1], Told(n - 1))
        /\ \A j \in 1 .. (n - 1) : ~ Throws(R[j - 1], m.events[j])
    BY <1>3, <1>6, <2>1
  <2>7. Told(n - 1) \in SUBSET Due
    OBVIOUS
  <2> HIDE DEF Told
  <2>8. ~ Throws(R[n - 1], m.events[n]) /\ Burnt(R[n], Told(n))
    <3>1. b \in Due \ Told(n - 1)
      BY <2>3
    <3>2. ~ Throws(R[n - 1], Blown(b)) /\ Burnt(ResolveEvent(R[n - 1], Blown(b)), Told(n - 1) \cup {b})
      BY <2>6, <2>7, <3>1, BurntMore
    <3> QED
      BY <2>4, <2>5, <3>2
  <2>9. \A j \in 1 .. n : j \in 1 .. (n - 1) \/ j = n
    BY <1>2
  <2>10. \A j \in 1 .. n : ~ Throws(R[j - 1], m.events[j])
    BY <2>6, <2>8, <2>9
  <2>11. n \in 0 .. N
    BY <1>2
  <2>12. n \in T
    BY <1>3, <2>8, <2>10, <2>11
  <2> HIDE DEF T
  <2> QED
    BY <2>1, <2>12
<1>7. N \in T
  <2> HIDE DEF T, N
  <2>1. \A i \in 0 .. N : i \in T
    BY <1>2, <1>5, <1>6, IntervalInduction
  <2> QED
    BY <1>2, <2>1
<1>8. Told(N) = Due
  <2>1. \A b \in Due : b < Len(laid)
    BY <1>2
  <2> QED
    BY <1>1, <2>1 DEF Reported
<1>9. Burnt(Replay(m)[N], Told(N)) /\ \A j \in 1 .. N : ~ Throws(Replay(m)[j - 1], m.events[j])
  BY <1>7
<1> HIDE DEF Told
<1> QED
  BY <1>8, <1>9

(***************************************************************************)
(* Bombs that are laid, at the places ps, after the status old: st is what *)
(* the client knows after k of them.                                       *)
(***************************************************************************)
SameButBombs(st, old) ==
  /\ st \in KnownStatus
  /\ st.turn = old.turn /\ st.players = old.players
  /\ st.player_positions = old.player_positions /\ st.blocks = old.blocks
  /\ st.explosions = old.explosions /\ st.scores = old.scores
  /\ st.players_scored = old.players_scored

BombsPlaced(bombs, old, ps, k) ==
  LET n == Len(laid)
  IN  /\ DOMAIN bombs = DOMAIN old \cup n .. (n + k - 1)
      /\ \A b \in DOMAIN old : bombs[b] = old[b]
      /\ \A b \in n .. (n + k - 1) :
           b \notin DOMAIN old =>
             bombs[b] = [position |-> ps[b - n + 1], timer |-> BombTimer]

Placed(st, old, ps, k) == SameButBombs(st, old) /\ BombsPlaced(st.bombs, old.bombs, ps, k)

LEMMA PlacedMore ==
  ASSUME Served, NEW old, NEW ps \in Seq(Position), NEW k \in 1 .. Len(ps),
         NEW st, Placed(st, old, ps, k - 1)
  PROVE  Placed(ResolveEvent(st, BombPlaced(Len(laid) + k - 1, ps[k])), old, ps, k)
<1> DEFINE n == Len(laid)
           c == n + k - 1
           e == BombPlaced(c, ps[k])
           new == ResolveEvent(st, e)
           bomb == [position |-> ps[k], timer |-> BombTimer]
           bs == Insert(st.bombs, c, bomb)
<1>1. n \in Nat /\ c \in Nat /\ k \in Nat /\ c - n + 1 = k /\ n + (k - 1) - 1 = c - 1
  BY DEF Served
<1>2. ps[k] \in Position
  BY ElementOfSeq
<1>3. bomb \in Bomb
  BY <1>2 DEF Bomb
<1>4. e.type = "BombPlaced" /\ e.bomb = c /\ e.position = ps[k]
  BY DEF BombPlaced
<1>5. \A b : b \in n .. c <=> b \in n .. (c - 1) \/ b = c
  BY <1>1
<1> HIDE DEF n, c, bomb, e
<1>6. st \in KnownStatus
  BY DEF Placed, SameButBombs
<1>7. new = [st EXCEPT !.bombs = bs]
  BY <1>4, <1>6 DEF ResolveEvent, PutBomb, KnownStatus, bomb
<1>8. bs \in KnownBombs
  <2>1. PICK B \in SUBSET Nat : st.bombs \in [B -> Bomb]
    BY <1>6 DEF KnownStatus, KnownBombs
  <2>2. bs \in [B \cup {c} -> Bomb]
    BY <1>3, <2>1 DEF Insert
  <2>3. B \cup {c} \in SUBSET Nat
    BY <1>1
  <2> HIDE DEF bs
  <2> QED
    BY <2>2, <2>3 DEF KnownBombs
<1>9. /\ DOMAIN bs = DOMAIN st.bombs \cup {c}
      /\ \A b \in DOMAIN st.bombs : bs[b] = st.bombs[b]
      /\ c \notin DOMAIN st.bombs => bs[c] = bomb
  BY DEF Insert
<1> HIDE DEF bs, new
<1>10. new \in KnownStatus
  BY <1>6, <1>7, <1>8, KnownUpdate
<1>11. /\ new.turn = st.turn /\ new.players = st.players
       /\ new.player_positions = st.player_positions /\ new.blocks = st.blocks
       /\ new.explosions = st.explosions /\ new.scores = st.scores
       /\ new.players_scored = st.players_scored /\ new.bombs = bs
  BY <1>6, <1>7 DEF KnownStatus
<1>12. SameButBombs(new, old)
  BY <1>10, <1>11 DEF Placed, SameButBombs
<1>13. /\ DOMAIN st.bombs = DOMAIN old.bombs \cup n .. (c - 1)
       /\ \A b \in DOMAIN old.bombs : st.bombs[b] = old.bombs[b]
       /\ \A b \in n .. (c - 1) :
            b \notin DOMAIN old.bombs =>
              st.bombs[b] = [position |-> ps[b - n + 1], timer |-> BombTimer]
  BY <1>1 DEF Placed, BombsPlaced, n
<1>14. DOMAIN new.bombs = DOMAIN old.bombs \cup n .. c
  BY <1>5, <1>9, <1>11, <1>13
<1>15. \A b \in DOMAIN old.bombs : new.bombs[b] = old.bombs[b]
  BY <1>9, <1>11, <1>13
<1>16. ASSUME NEW b \in n .. c, b \notin DOMAIN old.bombs
       PROVE  new.bombs[b] = [position |-> ps[b - n + 1], timer |-> BombTimer]
  <2>1. CASE b \in n .. (c - 1)
    BY <1>9, <1>11, <1>13, <1>16, <2>1
  <2>2. CASE b = c
    <3>1. c \notin n .. (c - 1)
      BY <1>1
    <3>2. c \notin DOMAIN st.bombs
      BY <1>13, <1>16, <2>2, <3>1
    <3> QED
      BY <1>1, <1>9, <1>11, <2>2, <3>2 DEF bomb
  <2> QED
    BY <1>5, <2>1, <2>2
<1>17. Placed(new, old, ps, k)
  BY <1>12, <1>14, <1>15, <1>16 DEF Placed, BombsPlaced, n, c
<1> QED
  BY <1>17 DEF new, e, c, n

LEMMA PlacedRead ==
  ASSUME Served, NEW m, Len(m.events) \in Nat,
         NEW n \in Nat, NEW ps \in Seq(Position), Len(m.events) = n + Len(ps),
         \A k \in 1 .. Len(ps) : m.events[n + k] = BombPlaced(Len(laid) + k - 1, ps[k]),
         Replay(m)[n] \in KnownStatus
  PROVE  /\ Placed(Replay(m)[n + Len(ps)], Replay(m)[n], ps, Len(ps))
         /\ \A k \in 1 .. Len(ps) : ~ Throws(Replay(m)[n + k - 1], m.events[n + k])
<1> DEFINE N == Len(ps)
           T == {k \in 0 .. N : Placed(Replay(m)[n + k], Replay(m)[n], ps, k)}
<1>1. N \in Nat /\ Len(laid) \in Nat
  BY DEF Served
<1>2. PICK R : R = Replay(m)
  OBVIOUS
<1>3. \A i \in 1 .. Len(m.events) : R[i] = ResolveEvent(R[i - 1], m.events[i])
  BY <1>2, ReplayDefined
<1>4. 0 \in T
  <2>1. n + 0 = n /\ \A b \in Len(laid) .. (Len(laid) + 0 - 1) : FALSE
    BY <1>1
  <2>2. Placed(R[n], R[n], ps, 0)
    BY <1>2, <2>1 DEF Placed, SameButBombs, BombsPlaced
  <2> QED
    BY <1>1, <1>2, <2>1, <2>2
<1>5. ASSUME NEW i \in 0 .. (N - 1), i \in T
      PROVE  i + 1 \in T
  <2>1. PICK k \in 1 .. N : k = i + 1 /\ i = k - 1
    BY <1>1
  <2>2. n + k \in 1 .. Len(m.events) /\ (n + k) - 1 = n + i
    BY <1>1, <2>1
  <2>3. R[n + k] = ResolveEvent(R[n + i], BombPlaced(Len(laid) + k - 1, ps[k]))
    BY <1>3, <2>2
  <2>4. Placed(R[n + i], R[n], ps, k - 1)
    BY <1>2, <1>5, <2>1
  <2>5. Placed(R[n + k], R[n], ps, k)
    BY <2>3, <2>4, PlacedMore
  <2>6. k \in 0 .. N
    BY <1>1
  <2> QED
    BY <1>2, <2>1, <2>5, <2>6
<1>6. N \in T
  <2> HIDE DEF T, N
  <2>1. \A k \in 0 .. N : k \in T
    BY <1>1, <1>4, <1>5, IntervalInduction
  <2> QED
    BY <1>1, <2>1
<1>7. \A b, p : BombPlaced(b, p).type # "BombExploded"
  BY DEF BombPlaced
<1>8. \A k \in 1 .. N : ~ Throws(Replay(m)[n + k - 1], m.events[n + k])
  BY <1>7 DEF Throws
<1> QED
  BY <1>6, <1>8

(***************************************************************************)
(* The bombs of the server after a turn: those that are left, and those    *)
(* laid at ps.                                                             *)
(***************************************************************************)
Lay(ps) == [k \in 1 .. Len(ps) |-> [position |-> ps[k], turn |-> next]]

LEMMA LaidMore ==
  ASSUME Served, NEW ps \in Seq(Position), laid' = laid \o Lay(ps)
  PROVE  /\ laid' \in Seq(Laid) /\ Len(laid') = Len(laid) + Len(ps)
         /\ Len(laid) \in Nat /\ Len(ps) \in Nat
         /\ \A b \in 0 .. (Len(laid) - 1) : laid'[b + 1] = laid[b + 1]
         /\ \A b \in Len(laid) .. (Len(laid) + Len(ps) - 1) :
              /\ b - Len(laid) + 1 \in 1 .. Len(ps)
              /\ laid'[b + 1] = [position |-> ps[b - Len(laid) + 1], turn |-> next]
<1> DEFINE more == Lay(ps)
<1>1. laid \in Seq(Laid) /\ next \in Nat /\ Len(laid) \in Nat /\ Len(ps) \in Nat
  BY DEF Served
<1>2. more \in Seq(Laid) /\ Len(more) = Len(ps)
  <2>1. \A k \in 1 .. Len(ps) : ps[k] \in Position
    BY ElementOfSeq
  <2>2. \A k \in 1 .. Len(ps) : [position |-> ps[k], turn |-> next] \in Laid
    BY <1>1, <2>1 DEF Laid
  <2> QED
    BY <1>1, <2>2 DEF Lay
<1>3. \A k \in 1 .. Len(ps) : more[k] = [position |-> ps[k], turn |-> next]
  BY DEF Lay
<1>4. laid' = laid \o more
  OBVIOUS
<1> HIDE DEF more
<1>5. /\ laid' \in Seq(Laid) /\ Len(laid') = Len(laid) + Len(ps)
      /\ \A i \in 1 .. (Len(laid) + Len(ps)) :
           laid'[i] = IF i <= Len(laid) THEN laid[i] ELSE more[i - Len(laid)]
  <2>1. PICK new : new = laid'
    OBVIOUS
  <2>2. new = laid \o more
    BY <1>4, <2>1
  <2>3. /\ new \in Seq(Laid) /\ Len(new) = Len(laid) + Len(more)
        /\ \A i \in 1 .. (Len(laid) + Len(more)) :
             new[i] = IF i <= Len(laid) THEN laid[i] ELSE more[i - Len(laid)]
    BY <1>1, <1>2, <2>2, ConcatProperties
  <2> QED
    BY <1>2, <2>1, <2>3
<1>6. ASSUME NEW b \in 0 .. (Len(laid) - 1)
      PROVE  laid'[b + 1] = laid[b + 1]
  <2>1. PICK k : k = b + 1
    OBVIOUS
  <2>2. k \in 1 .. (Len(laid) + Len(ps)) /\ k <= Len(laid)
    BY <1>1, <2>1
  <2> QED
    BY <1>5, <2>1, <2>2
<1>7. ASSUME NEW b \in Len(laid) .. (Len(laid) + Len(ps) - 1)
      PROVE  /\ b - Len(laid) + 1 \in 1 .. Len(ps)
             /\ laid'[b + 1] = [position |-> ps[b - Len(laid) + 1], turn |-> next]
  <2>1. PICK k : k = b - Len(laid) + 1
    OBVIOUS
  <2>2. /\ k \in 1 .. Len(ps) /\ b + 1 = Len(laid) + k
        /\ b + 1 \in 1 .. (Len(laid) + Len(ps)) /\ ~ (b + 1 <= Len(laid)) /\ b + 1 - Len(laid) = k
    BY <1>1, <2>1
  <2>3. laid'[b + 1] = more[k]
    BY <1>5, <2>2
  <2>4. laid'[b + 1] = [position |-> ps[k], turn |-> next]
    BY <1>3, <2>2, <2>3
  <2>5. b - Len(laid) + 1 \in 1 .. Len(ps)
    BY <2>1, <2>2
  <2>6. ps[b - Len(laid) + 1] = ps[k]
    BY <2>1
  <2> QED
    BY <2>4, <2>5, <2>6
<1> QED
  BY <1>1, <1>5, <1>6, <1>7

(***************************************************************************)
(* The bombs that have still to explode after turn n: of those that had    *)
(* before, the ones that were not due, and the ones laid in the turn.      *)
(***************************************************************************)
LEMMA LiveNext ==
  ASSUME Served, next # 0, NEW n, n = next + 1,
         NEW ps \in Seq(Position), laid' = laid \o Lay(ps)
  PROVE  /\ \A b \in 0 .. (Len(laid) - 1) : b \in Live(n)' <=> b \in Live(next) /\ b \notin Due
         /\ Live(n)' \subseteq 0 .. (Len(laid) + Len(ps) - 1)
         /\ BombTimer # 0 => Len(laid) .. (Len(laid) + Len(ps) - 1) \subseteq Live(n)'
<1>1. next \in Nat
  BY DEF Served
<1>2. Len(laid) \in Nat /\ Len(ps) \in Nat /\ Len(laid') = Len(laid) + Len(ps)
  BY LaidMore
<1>3. PICK L \in Nat : L = Len(laid)
  BY <1>2
<1>4. PICK M \in Nat : M = Len(laid) + Len(ps)
  BY <1>2
<1>5. L = Len(laid) /\ M = Len(laid) + Len(ps) /\ L <= M /\ Len(laid') = M
  BY <1>3, <1>4, <1>2
<1>6. \A b \in 0 .. (L - 1) : laid'[b + 1] = laid[b + 1]
  BY <1>5, LaidMore
<1>7. \A b \in L .. (M - 1) : laid'[b + 1].turn = next
  <2>1. \A b \in Len(laid) .. (Len(laid) + Len(ps) - 1) :
          laid'[b + 1] = [position |-> ps[b - Len(laid) + 1], turn |-> next]
    BY LaidMore
  <2>2. \A b \in Len(laid) .. (Len(laid) + Len(ps) - 1) : laid'[b + 1].turn = next
    <3> SUFFICES ASSUME NEW b \in Len(laid) .. (Len(laid) + Len(ps) - 1)
                 PROVE  laid'[b + 1].turn = next
      OBVIOUS
    <3>1. laid'[b + 1] = [position |-> ps[b - Len(laid) + 1], turn |-> next]
      BY <2>1
    <3> QED
      BY <3>1
  <2> QED
    BY <1>5, <2>2
<1>8. Live(n)' = {b \in 0 .. (M - 1) : laid'[b + 1].turn + BombTimer >= n}
  <2>1. Live(n)' = {b \in 0 .. (Len(laid') - 1) : laid'[b + 1].turn + BombTimer >= n}
    BY DEF Live
  <2> QED
    BY <1>5, <2>1
<1>9. ASSUME NEW b \in 0 .. (L - 1)
      PROVE  b \in Live(n)' <=> b \in Live(next) /\ b \notin Due
  <2>1. laid[b + 1].turn \in Nat /\ BombTimer \in Nat
    <3>1. laid[b + 1] \in Laid
      BY <1>5, BlownEvent
    <3> QED
      BY <3>1 DEF Laid
  <2>2. b \in 0 .. (M - 1)
    BY <1>5
  <2>3. b \in Live(n)' <=> laid[b + 1].turn + BombTimer >= n
    BY <1>6, <1>8, <2>2
  <2>4. b \in Live(next) <=> laid[b + 1].turn + BombTimer >= next
    BY <1>5 DEF Live
  <2>5. b \in Due <=> laid[b + 1].turn + BombTimer = next
    BY <1>5 DEF Due
  <2>6. PICK t \in Nat : t = laid[b + 1].turn
    BY <2>1
  <2>7. t + BombTimer >= n <=> t + BombTimer >= next /\ t + BombTimer # next
    <3>1. PICK e \in Nat : e = t + BombTimer
      BY <2>1
    <3> QED
      BY <1>1, <3>1
  <2> QED
    BY <2>3, <2>4, <2>5, <2>6, <2>7
<1>10. ASSUME BombTimer # 0, NEW b \in L .. (M - 1)
      PROVE  b \in Live(n)'
  <2>1. laid'[b + 1].turn = next
    BY <1>7
  <2>2. b \in 0 .. (M - 1)
    OBVIOUS
  <2>3. next + BombTimer >= n
    BY <1>1, <1>10
  <2> QED
    BY <1>8, <2>1, <2>3, <2>2
<1>11. Live(n)' \subseteq 0 .. (M - 1)
  BY <1>8
<1> QED
  BY <1>9, <1>10, <1>11, <1>5

(***************************************************************************)
(* A status in which the bombs that are due have exploded, and those at ps *)
(* have been laid, is right about the turn if it is about the robots and   *)
(* the blocks.                                                             *)
(***************************************************************************)
SameGame(st, old) ==
  /\ st.turn = old.turn /\ st.players = old.players
  /\ st.explosions = old.explosions /\ st.scores = old.scores

LEMMA PicturedNext ==
  ASSUME Waits, NEW old, Burnt(old, Due), NEW ps \in Seq(Position),
         NEW st \in KnownStatus, SameGame(st, old),
         BombsPlaced(st.bombs, old.bombs, ps, Len(ps)),
         st.player_positions = robots', st.blocks = walls', laid' = laid \o Lay(ps),
         next' # 0 => next' = next + 1, games' = games,
         deaths' = Toll(Due), blast' = Fire(Due)
  PROVE  Pictured(st)'
<1>1. Served /\ next # 0 /\ next \in Nat
  BY DEF Waits, Served
<1>2. PICK n : n = next + 1
  OBVIOUS
<1>3. st.turn = next /\ st.turn + 1 = n /\ status.turn + 1 = next /\ st.players = status.players
  BY <1>2 DEF SameGame, Burnt, Waits
<1>4. Len(laid) \in Nat /\ Len(ps) \in Nat
  BY <1>1, LaidMore
<1>5. PICK L \in Nat : L = Len(laid)
  BY <1>4
<1>6. PICK M \in Nat : M = Len(laid) + Len(ps)
  BY <1>4
<1>7. /\ \A b \in 0 .. (L - 1) : b \in Live(n)' <=> b \in Live(next) /\ b \notin Due
      /\ Live(n)' \subseteq 0 .. (M - 1)
      /\ BombTimer # 0 => L .. (M - 1) \subseteq Live(n)'
  <2>1. \A b \in 0 .. (Len(laid) - 1) : b \in Live(n)' <=> b \in Live(next) /\ b \notin Due
    BY <1>1, <1>2, LiveNext
  <2>2. Live(n)' \subseteq 0 .. (Len(laid) + Len(ps) - 1)
    BY <1>1, <1>2, LiveNext
  <2>3. BombTimer # 0 => Len(laid) .. (Len(laid) + Len(ps) - 1) \subseteq Live(n)'
    BY <1>1, <1>2, LiveNext
  <2> QED
    BY <1>5, <1>6, <2>1, <2>2, <2>3
<1>8. /\ L <= M
      /\ \A b \in 0 .. (L - 1) : laid'[b + 1] = laid[b + 1]
      /\ \A b \in L .. (M - 1) : laid'[b + 1] = [position |-> ps[b - L + 1], turn |-> next]
  <2>1. L <= M
    BY <1>5, <1>6, <1>4
  <2>2. \A b \in 0 .. (Len(laid) - 1) : laid'[b + 1] = laid[b + 1]
    BY <1>1, LaidMore
  <2>3. \A b \in Len(laid) .. (Len(laid) + Len(ps) - 1) :
          laid'[b + 1] = [position |-> ps[b - Len(laid) + 1], turn |-> next]
    BY <1>1, LaidMore
  <2>4. \A b \in 0 .. (L - 1) : laid'[b + 1] = laid[b + 1]
    BY <1>5, <2>2
  <2>5. \A b \in L .. (M - 1) : laid'[b + 1] = [position |-> ps[b - L + 1], turn |-> next]
    <3> SUFFICES ASSUME NEW b \in L .. (M - 1)
                 PROVE  laid'[b + 1] = [position |-> ps[b - L + 1], turn |-> next]
      OBVIOUS
    <3>1. b \in Len(laid) .. (Len(laid) + Len(ps) - 1)
      BY <1>5, <1>6
    <3>2. laid'[b + 1] = [position |-> ps[b - Len(laid) + 1], turn |-> next]
      BY <2>3, <3>1
    <3> QED
      BY <1>5, <3>2
  <2> QED
    BY <2>1, <2>4, <2>5
<1>9. /\ DOMAIN st.bombs = DOMAIN old.bombs \cup L .. (M - 1)
      /\ \A b \in DOMAIN old.bombs : st.bombs[b] = old.bombs[b]
      /\ \A b \in L .. (M - 1) :
           b \notin DOMAIN old.bombs =>
             st.bombs[b] = [position |-> ps[b - L + 1], timer |-> BombTimer]
  BY <1>5, <1>6 DEF BombsPlaced
<1>10. /\ DOMAIN old.bombs = DOMAIN status.bombs \ Due
      /\ \A b \in DOMAIN old.bombs : old.bombs[b] = status.bombs[b]
  BY DEF Burnt
<1>11. Live(next) \subseteq 0 .. (L - 1)
  BY <1>5 DEF Live
<1>12. /\ Live(next) \subseteq DOMAIN status.bombs
       /\ games = 1 /\ BombTimer # 0 => status.bombs = [b \in Live(next) |-> Burning(b, next)]
  BY <1>3 DEF Waits, Right
<1>13. Live(n)' \subseteq DOMAIN st.bombs
  <2> SUFFICES ASSUME NEW b \in Live(n)'
               PROVE  b \in DOMAIN st.bombs
    OBVIOUS
  <2>1. b \in 0 .. (L - 1) \/ b \in L .. (M - 1)
    BY <1>7, <1>8
  <2>2. CASE b \in 0 .. (L - 1)
    BY <1>7, <1>9, <1>10, <1>12, <2>2
  <2>3. CASE b \in L .. (M - 1)
    BY <1>9, <2>3
  <2> QED
    BY <2>1, <2>2, <2>3
<1>14. ASSUME games = 1, BombTimer # 0
       PROVE  st.bombs = [b \in Live(n)' |-> Burning(b, st.turn)']
  <2>1. DOMAIN st.bombs = Live(n)'
    <3> SUFFICES ASSUME NEW b \in DOMAIN st.bombs
                 PROVE  b \in Live(n)'
      BY <1>13
    <3>1. b \in DOMAIN old.bombs \/ b \in L .. (M - 1)
      BY <1>9
    <3>2. DOMAIN status.bombs = Live(next)
      BY <1>12, <1>14
    <3> QED
      BY <1>7, <1>10, <1>11, <1>14, <3>1, <3>2
  <2>2. ASSUME NEW b \in Live(n)'
        PROVE  st.bombs[b] = Burning(b, st.turn)'
    <3>1. b \in 0 .. (L - 1) \/ b \in L .. (M - 1)
      BY <1>7, <1>8
    <3>2. Burning(b, st.turn)' = [position |-> laid'[b + 1].position,
                                  timer |-> laid'[b + 1].turn + BombTimer - next]
      BY <1>3 DEF Burning
    <3>3. CASE b \in 0 .. (L - 1)
      <4>1. b \in Live(next) /\ b \notin Due
        BY <1>7, <3>3
      <4>2. b \in DOMAIN old.bombs /\ status.bombs[b] = Burning(b, next)
        BY <1>10, <1>12, <1>14, <4>1
      <4>3. st.bombs[b] = Burning(b, next)
        BY <1>9, <1>10, <4>2
      <4>4. laid'[b + 1] = laid[b + 1]
        BY <1>8, <3>3
      <4> QED
        BY <3>2, <4>3, <4>4 DEF Burning
    <3>4. CASE b \in L .. (M - 1)
      <4>1. b \notin 0 .. (L - 1)
        BY <1>8, <3>4
      <4>2. b \notin DOMAIN old.bombs
        BY <1>10, <1>11, <1>12, <1>14, <4>1
      <4>3. st.bombs[b] = [position |-> ps[b - L + 1], timer |-> BombTimer]
        BY <1>9, <3>4, <4>2
      <4>4. laid'[b + 1] = [position |-> ps[b - L + 1], turn |-> next]
        BY <1>8, <3>4
      <4>5. laid'[b + 1].position = ps[b - L + 1] /\ laid'[b + 1].turn = next
        BY <4>4
      <4>6. next + BombTimer - next = BombTimer
        BY <1>1
      <4> QED
        BY <3>2, <4>3, <4>5, <4>6
    <3> QED
      BY <3>1, <3>3, <3>4
  <2>3. PICK B \in SUBSET Nat : st.bombs \in [B -> Bomb]
    BY DEF KnownStatus, KnownBombs
  <2>4. st.bombs = [b \in DOMAIN st.bombs |-> st.bombs[b]]
    BY <2>3
  <2> QED
    BY <2>1, <2>2, <2>4
<1>15. /\ DOMAIN st.players = PlayerId /\ DOMAIN st.scores = PlayerId
       /\ games = 1 => st.scores = Toll(Due) /\ st.explosions = Fire(Due)
  BY <1>3 DEF SameGame, Burnt, Waits, Right
<1>16. Right(st, st.turn)'
  BY <1>3, <1>13, <1>14, <1>15 DEF Right
<1>17. next' # 0 => next' = st.turn + 1
  BY <1>2, <1>3
<1> QED
  BY <1>15, <1>16, <1>17 DEF Pictured

(***************************************************************************)
(* A turn of the server begins when the client has drawn the one before.   *)
(***************************************************************************)
Written(events) == Turn(next, Reports[Len(laid)] \o events)

LEMMA TurnBegins ==
  ASSUME PlayInv, NEW events \in Seq(Event), PlayTurn(events)
  PROVE  /\ Waits /\ games # 0 /\ listener' = "reading"
         /\ Kept' /\ status' = status /\ games' = games
         /\ next' \in Nat /\ (next' # 0 => next' = next + 1)
         /\ deaths' = Toll(Due) /\ blast' = Fire(Due) /\ LeftWalls = walls \ Fire(Due)
         /\ Written(events) \in Message /\ inbox' = <<Written(events)>> \o Last'
<1>1. /\ next # 0 /\ inbox = <<>> /\ listener = "reading"
      /\ inbox' = <<Written(events)>>
                    \o (IF next = TurnsBound THEN <<GameEnded(<<>>)>> ELSE <<>>)
      /\ UNCHANGED <<outbox, listener, input, in_lobby, status, games>>
      /\ next' = IF next = TurnsBound THEN 0 ELSE next + 1
      /\ blast' = UNION {Reach(b) : b \in Due}
      /\ deaths' = [i \in PlayerId |->
                      IF i \in {j \in PlayerId : robots[j] \in UNION {Reach(b) : b \in Due}}
                        THEN deaths[i] + 1 ELSE deaths[i]]
  BY DEF PlayTurn, Write, Written
<1>2. Served /\ Kept /\ Phases
  BY DEF PlayInv
<1>3. next \in Nat /\ TurnsBound \in Nat
  BY <1>2 DEF Served
<1>4. ~ Idle
  BY <1>1 DEF Idle
<1>5. ~ Called
  BY <1>1 DEF Called
<1>6. ~ Ready
  BY <1>1 DEF Ready
<1>7. ~ Coming
  <2> SUFFICES ASSUME NEW m, inbox = <<m>> \o Last
               PROVE  FALSE
    BY DEF Coming
  <2>1. <<m>> \o Last # <<>>
    BY DEF Last
  <2> QED
    BY <1>1, <2>1
<1>8. ~ Shown
  BY <1>1 DEF Shown
<1>9. Resting /\ games # 0
  BY <1>1, <1>2, <1>4, <1>5, <1>6, <1>7, <1>8 DEF Phases, Over
<1>10. Waits
  BY <1>1, <1>2, <1>9 DEF Resting, Waits
<1>11. next' \in Nat /\ (next' # 0 => next' = next + 1) /\ (next' = 0 <=> next = TurnsBound)
  BY <1>1, <1>3
<1>12. Last' = IF next = TurnsBound THEN <<GameEnded(<<>>)>> ELSE <<>>
  BY <1>11 DEF Last
<1>13. blast' = Fire(Due) /\ deaths' = Toll(Due) /\ LeftWalls = walls \ Fire(Due)
  BY <1>1 DEF Fire, Hit, Toll, LeftWalls
<1>14. Reports[Len(laid)] \o events \in Seq(Event)
  <2>1. PICK es : es = Reports[Len(laid)]
    OBVIOUS
  <2>2. es \in Seq(Event)
    BY <1>2, <2>1, ReportsComplete DEF Reported
  <2> QED
    BY <2>1, <2>2, ConcatProperties
<1>15. Written(events) \in Message
  BY <1>3, <1>14 DEF Written, Turn, Message
<1>16. Kept'
  BY <1>1, <1>2 DEF Kept
<1> QED
  BY <1>1, <1>9, <1>10, <1>11, <1>12, <1>13, <1>15, <1>16

LEMMA ServedNext ==
  ASSUME Served, next # 0, NEW ps \in Seq(Position), laid' = laid \o Lay(ps),
         next' \in Nat, next' # 0 => next' = next + 1, games' = games,
         walls' \in SUBSET Position, robots' \in [PlayerId -> Position],
         deaths' = Toll(Due), blast' = Fire(Due)
  PROVE  Served'
<1>1. /\ games \in Nat /\ next \in Nat /\ Len(laid) \in Nat /\ Len(ps) \in Nat
      /\ laid' \in Seq(Laid) /\ Len(laid') = Len(laid) + Len(ps)
  BY LaidMore DEF Served
<1>2. ASSUME NEW k \in 1 .. Len(laid'), next' # 0
      PROVE  laid'[k].turn < next'
  <2>1. PICK b : b = k - 1 /\ k = b + 1
    BY <1>1
  <2>2. CASE b \in 0 .. (Len(laid) - 1)
    <3>1. laid'[b + 1] = laid[b + 1]
      BY <2>2, LaidMore
    <3>2. b + 1 \in 1 .. Len(laid)
      BY <1>1, <2>2
    <3>3. laid[b + 1].turn < next /\ laid[b + 1].turn \in Nat
      <4>1. laid[b + 1] \in Laid
        BY <2>2, BlownEvent
      <4> QED
        BY <3>2, <4>1 DEF Served, Laid
    <3>4. laid'[k] = laid[b + 1]
      BY <2>1, <3>1
    <3>5. PICK t \in Nat : t = laid[b + 1].turn
      BY <3>3
    <3>6. t < next /\ laid'[k].turn = t /\ next' = next + 1
      BY <1>2, <3>3, <3>4, <3>5
    <3> QED
      BY <1>1, <3>6
  <2>3. CASE b \in Len(laid) .. (Len(laid) + Len(ps) - 1)
    <3>1. laid'[b + 1] = [position |-> ps[b - Len(laid) + 1], turn |-> next]
      BY <2>3, LaidMore
    <3> QED
      BY <1>1, <1>2, <2>1, <3>1
  <2> QED
    BY <1>1, <2>1, <2>2, <2>3
<1>3. \A b \in Due : Reach(b) \in SUBSET Position
  BY BlownEvent DEF Due
<1>4. blast' \in SUBSET Position
  BY <1>3 DEF Fire
<1>5. deaths' \in [PlayerId -> Nat]
  BY DEF Toll, Served
<1> QED
  BY <1>1, <1>2, <1>4, <1>5 DEF Served

(***************************************************************************)
(* How the client reads it: the reports, and then events.                  *)
(***************************************************************************)
Tells(m, es, events) ==
  /\ m.type = "Turn" /\ m.turn = next
  /\ Len(es) \in Nat /\ Len(events) \in Nat /\ Len(m.events) = Len(es) + Len(events)
  /\ \A i \in 1 .. Len(es) : m.events[i] = es[i]
  /\ \A k \in 1 .. Len(events) : m.events[Len(es) + k] = events[k]

LEMMA TurnEvents ==
  ASSUME Served, NEW events \in Seq(Event), NEW m, m = Written(events),
         NEW es, es = Reports[Len(laid)]
  PROVE  Tells(m, es, events)
<1>1. es \in Seq(Event)
  BY ReportsComplete DEF Reported
<1>2. m.type = "Turn" /\ m.turn = next /\ m.events = es \o events
  BY DEF Written, Turn
<1>3. PICK all : all = m.events
  OBVIOUS
<1>4. Len(es) \in Nat /\ Len(events) \in Nat
  BY <1>1
<1>5. /\ Len(all) = Len(es) + Len(events)
      /\ \A i \in 1 .. (Len(es) + Len(events)) :
           all[i] = IF i <= Len(es) THEN es[i] ELSE events[i - Len(es)]
  BY <1>1, <1>2, <1>3, ConcatProperties
<1>6. \A i \in 1 .. Len(es) : all[i] = es[i]
  BY <1>4, <1>5
<1>7. ASSUME NEW k \in 1 .. Len(events)
      PROVE  all[Len(es) + k] = events[k]
  <2>1. /\ Len(es) + k \in 1 .. (Len(es) + Len(events))
        /\ ~ (Len(es) + k <= Len(es)) /\ (Len(es) + k) - Len(es) = k
    BY <1>4
  <2> QED
    BY <1>5, <2>1
<1> QED
  BY <1>2, <1>3, <1>4, <1>5, <1>6, <1>7 DEF Tells

LEMMA TurnRead ==
  ASSUME Waits, NEW events \in Seq(Event), NEW m, m = Written(events),
         NEW es, es = Reports[Len(laid)]
  PROVE  /\ \A i \in 1 .. Len(es) : ~ Throws(Replay(m)[i - 1], m.events[i])
         /\ Burnt(Replay(m)[Len(es)], Due)
<1>1. /\ m.turn = next
      /\ Len(es) \in Nat /\ Len(events) \in Nat /\ Len(m.events) = Len(es) + Len(events)
      /\ \A i \in 1 .. Len(es) : m.events[i] = es[i]
  <2>1. Served
    BY DEF Waits
  <2>2. Tells(m, es, events)
    BY <2>1, TurnEvents
  <2> QED
    BY <2>2 DEF Tells
<1>2. Len(es) <= Len(m.events) /\ Len(m.events) \in Nat
  BY <1>1
<1> QED
  BY <1>1, <1>2, ReportsRead

LEMMA TurnDone ==
  ASSUME PlayInv, NEW events \in Seq(Event), PlayTurn(events),
         NEW m, m = Written(events), NEW es, es = Reports[Len(laid)], NEW n, n = Len(es),
         NEW ps \in Seq(Position), laid' = laid \o Lay(ps),
         NEW st \in KnownStatus, st = Replay(m)[n + Len(events)],
         SameGame(st, Replay(m)[n]),
         BombsPlaced(st.bombs, Replay(m)[n].bombs, ps, Len(ps)),
         st.player_positions = robots', st.blocks = walls',
         robots' \in [PlayerId -> Position],
         \A k \in 1 .. Len(events) : ~ Throws(Replay(m)[n + k - 1], events[k])
  PROVE  PlayInv'
<1>1. /\ Waits /\ games # 0 /\ listener' = "reading"
      /\ Kept' /\ status' = status /\ games' = games
      /\ next' \in Nat /\ (next' # 0 => next' = next + 1)
      /\ deaths' = Toll(Due) /\ blast' = Fire(Due)
      /\ m \in Message /\ inbox' = <<m>> \o Last'
  BY TurnBegins
<1>2. Served /\ next # 0
  BY <1>1 DEF Waits
<1>3. Served'
  <2>1. walls' \in SUBSET Position
    BY DEF KnownStatus
  <2> QED
    BY <1>1, <1>2, <2>1, ServedNext
<1>4. /\ m.type = "Turn" /\ n \in Nat /\ Len(events) \in Nat
      /\ Len(m.events) = n + Len(events)
      /\ \A k \in 1 .. Len(events) : m.events[n + k] = events[k]
  <2>1. Tells(m, es, events)
    BY <1>2, TurnEvents
  <2> QED
    BY <2>1 DEF Tells
<1>5. /\ \A i \in 1 .. n : ~ Throws(Replay(m)[i - 1], m.events[i])
      /\ Burnt(Replay(m)[n], Due)
  BY <1>1, TurnRead
<1>6. PICK R : R = Replay(m)
  OBVIOUS
<1>7. Replay(m)' = R
  BY <1>1, <1>6 DEF Replay
<1>8. Pictured(st)'
  <2>1. SameGame(st, R[n]) /\ Burnt(R[n], Due)
    <3>1. SameGame(st, R[n])
      BY <1>6
    <3>2. Burnt(R[n], Due)
      BY <1>5, <1>6
    <3> QED
      BY <3>1, <3>2
  <2>2. BombsPlaced(st.bombs, R[n].bombs, ps, Len(ps))
    BY <1>6
  <2> QED
    BY <1>1, <2>1, <2>2, PicturedNext
<1>9. ASSUME NEW i \in 1 .. Len(m.events)
      PROVE  ~ Throws(R[i - 1], m.events[i])
  <2>1. CASE i \in 1 .. n
    BY <1>5, <1>6, <2>1
  <2>2. CASE i \notin 1 .. n
    <3>1. PICK k : k = i - n
      OBVIOUS
    <3>2. k \in 1 .. Len(events) /\ i - 1 = n + k - 1
      BY <1>4, <2>2, <3>1
    <3>3. ~ Throws(R[i - 1], events[k])
      BY <1>6, <3>2
    <3>4. m.events[n + k] = events[k]
      BY <1>4, <3>2
    <3>5. i = n + k
      BY <1>4, <3>1
    <3> QED
      BY <3>3, <3>4, <3>5
  <2> QED
    BY <2>1, <2>2
<1>10. ~ TurnThrows(m)'
  BY <1>7, <1>9 DEF TurnThrows
<1>11. Pictured(Replay(m)[Len(m.events)])'
  <2>1. Replay(m)[Len(m.events)]' = st
    BY <1>4, <1>6, <1>7
  <2> QED
    BY <1>8, <2>1
<1>12. Coming'
  BY <1>1, <1>4, <1>10, <1>11 DEF Coming
<1> QED
  BY <1>1, <1>3, <1>12 DEF PlayInv, Phases

(***************************************************************************)
(* The turns in which no bomb is laid.                                     *)
(***************************************************************************)
LEMMA NothingLaid ==
  ASSUME Served
  PROVE  laid = laid \o Lay(<<>>) /\ \A bombs : BombsPlaced(bombs, bombs, <<>>, Len(<<>>))
<1>1. Lay(<<>>) = <<>>
  BY DEF Lay
<1>2. PICK L : L = laid
  OBVIOUS
<1>3. L \in Seq(Laid)
  BY <1>2 DEF Served
<1>4. L \o <<>> = L
  BY <1>3
<1>5. Len(L) .. (Len(L) + 0 - 1) = {}
  BY <1>3
<1>6. ASSUME NEW bombs
      PROVE  BombsPlaced(bombs, bombs, <<>>, Len(<<>>))
  <2>1. Len(<<>>) = 0
    OBVIOUS
  <2>2. Len(laid) .. (Len(laid) + Len(<<>>) - 1) = {}
    BY <1>2, <1>5, <2>1
  <2> QED
    BY <2>2 DEF BombsPlaced
<1> QED
  BY <1>1, <1>2, <1>4, <1>6

After(st, old) ==
  /\ st \in KnownStatus /\ SameGame(st, old) /\ st.bombs = old.bombs
  /\ st.player_positions = robots' /\ st.blocks = walls'

LEMMA NothingDone ==
  ASSUME PlayInv, NothingTurn
  PROVE  PlayInv'
<1>1. PlayTurn(<<>>) /\ walls' = LeftWalls /\ laid' = laid /\ robots' = robots
  BY DEF NothingTurn
<1>2. <<>> \in Seq(Event) /\ <<>> \in Seq(Position) /\ Len(<<>>) = 0
  OBVIOUS
<1>3. Waits /\ LeftWalls = walls \ Fire(Due)
  BY <1>1, <1>2, TurnBegins
<1>4. PICK m : m = Written(<<>>)
  OBVIOUS
<1>5. PICK es : es = Reports[Len(laid)]
  OBVIOUS
<1>6. PICK n : n = Len(es)
  OBVIOUS
<1>7. PICK st : st = Replay(m)[n]
  OBVIOUS
<1>8. Served /\ robots \in [PlayerId -> Position] /\ status.player_positions = robots
  BY <1>3 DEF Waits, Served, Right
<1>9. Burnt(st, Due) /\ n \in Nat
  <2>1. Burnt(st, Due)
    BY <1>2, <1>3, <1>4, <1>5, <1>6, <1>7, TurnRead
  <2>2. Tells(m, es, <<>>)
    BY <1>2, <1>4, <1>5, <1>8, TurnEvents
  <2> QED
    BY <1>6, <2>1, <2>2 DEF Tells
<1>10. n + Len(<<>>) = n
  BY <1>2, <1>9
<1>11. /\ st \in KnownStatus /\ SameGame(st, st)
       /\ st.player_positions = robots' /\ st.blocks = walls'
  BY <1>1, <1>3, <1>8, <1>9 DEF Burnt, SameGame
<1>12. laid' = laid \o Lay(<<>>) /\ BombsPlaced(st.bombs, st.bombs, <<>>, Len(<<>>))
  BY <1>1, <1>8, NothingLaid
<1>13. \A k \in 1 .. Len(<<>>) : ~ Throws(Replay(m)[n + k - 1], (<<>>)[k])
  BY <1>2
<1>14. st = Replay(m)[n + Len(<<>>)]
  BY <1>7, <1>10
<1>15. SameGame(st, Replay(m)[n]) /\ BombsPlaced(st.bombs, Replay(m)[n].bombs, <<>>, Len(<<>>))
  BY <1>7, <1>11, <1>12
<1> QED
  BY <1>1, <1>2, <1>4, <1>5, <1>6, <1>8, <1>11, <1>12, <1>13, <1>14, <1>15, TurnDone

LEMMA OneEventDone ==
  ASSUME PlayInv, NEW e \in Event, e.type # "BombExploded", PlayTurn(<<e>>),
         laid' = laid, robots' \in [PlayerId -> Position],
         \A old : Burnt(old, Due) => After(ResolveEvent(old, e), old)
  PROVE  PlayInv'
<1>1. PICK events : events = <<e>>
  OBVIOUS
<1>2. /\ events \in Seq(Event) /\ Len(events) = 1 /\ events[1] = e
      /\ <<>> \in Seq(Position)
  BY <1>1
<1>3. Waits
  BY <1>1, <1>2, TurnBegins
<1>4. PICK m : m = Written(events)
  OBVIOUS
<1>5. PICK es : es = Reports[Len(laid)]
  OBVIOUS
<1>6. PICK n : n = Len(es)
  OBVIOUS
<1>7. PICK R : R = Replay(m)
  OBVIOUS
<1>8. Served
  BY <1>3 DEF Waits
<1>9. Burnt(R[n], Due)
  BY <1>2, <1>3, <1>4, <1>5, <1>6, <1>7, TurnRead
<1>10. n \in Nat /\ Len(m.events) = n + 1 /\ m.events[n + 1] = e
  <2>1. Tells(m, es, events)
    BY <1>2, <1>4, <1>5, <1>8, TurnEvents
  <2>2. 1 \in 1 .. Len(events)
    BY <1>2
  <2> QED
    BY <1>2, <1>6, <2>1, <2>2 DEF Tells
<1>11. R[n + 1] = ResolveEvent(R[n], e)
  <2>1. /\ Len(m.events) \in Nat /\ n + 1 \in 1 .. Len(m.events) /\ (n + 1) - 1 = n
    BY <1>10
  <2>2. \A k \in 1 .. Len(m.events) : R[k] = ResolveEvent(R[k - 1], m.events[k])
    BY <1>7, <2>1, ReplayDefined
  <2> QED
    BY <1>10, <2>1, <2>2
<1>12. PICK st : st = R[n + 1]
  OBVIOUS
<1>13. After(st, R[n])
  BY <1>9, <1>11, <1>12
<1>14. laid' = laid \o Lay(<<>>) /\ BombsPlaced(st.bombs, R[n].bombs, <<>>, Len(<<>>))
  BY <1>8, <1>13, NothingLaid DEF After
<1>15. \A k \in 1 .. Len(events) : ~ Throws(Replay(m)[n + k - 1], events[k])
  BY <1>2 DEF Throws
<1>16. st = Replay(m)[n + Len(events)]
  BY <1>2, <1>7, <1>12
<1>17. /\ st \in KnownStatus /\ SameGame(st, Replay(m)[n])
       /\ st.player_positions = robots' /\ st.blocks = walls'
       /\ BombsPlaced(st.bombs, Replay(m)[n].bombs, <<>>, Len(<<>>))
  BY <1>7, <1>13, <1>14 DEF After
<1>18. PlayTurn(events)
  BY <1>1
<1> QED
  BY <1>2, <1>4, <1>5, <1>6, <1>14, <1>15, <1>16, <1>17, <1>18, TurnDone

LEMMA BlockDone ==
  ASSUME PlayInv, NEW i \in PlayerId, BlockTurn(i)
  PROVE  PlayInv'
<1> DEFINE e == BlockPlaced(robots[i])
<1>1. /\ PlayTurn(<<e>>) /\ walls' = LeftWalls \cup {robots[i]}
      /\ laid' = laid /\ robots' = robots
  BY DEF BlockTurn
<1>2. robots \in [PlayerId -> Position]
  BY DEF PlayInv, Served
<1>3. e \in Event /\ e.type = "BlockPlaced" /\ e.position = robots[i] /\ robots[i] \in Position
  BY <1>2 DEF BlockPlaced, Event
<1>4. PICK events : events = <<e>>
  OBVIOUS
<1> HIDE DEF e
<1>5. events \in Seq(Event) /\ PlayTurn(events)
  BY <1>1, <1>3, <1>4
<1>6. Waits /\ LeftWalls = walls \ Fire(Due)
  BY <1>5, TurnBegins
<1>7. ASSUME NEW old, Burnt(old, Due)
      PROVE  After(ResolveEvent(old, e), old)
  <2> DEFINE w == old.blocks \cup {robots[i]}
             st == [old EXCEPT !.blocks = w]
  <2>1. old \in KnownStatus /\ old.blocks = walls \ Fire(Due) /\ old.player_positions = robots
    BY <1>6, <1>7 DEF Burnt, Waits, Right
  <2>2. w \in SUBSET Position /\ w = walls'
    BY <1>1, <1>3, <1>6, <2>1 DEF KnownStatus
  <2>3. ResolveEvent(old, e) = st
    BY <1>3, <2>1 DEF ResolveEvent, PutBlock, KnownStatus
  <2>4. st \in KnownStatus
    <3> HIDE DEF w
    <3> QED
      BY <2>1, <2>2, KnownUpdate
  <2>5. /\ st.turn = old.turn /\ st.players = old.players
        /\ st.explosions = old.explosions /\ st.scores = old.scores
        /\ st.bombs = old.bombs /\ st.player_positions = old.player_positions /\ st.blocks = w
    <3> HIDE DEF w
    <3> QED
      BY <2>1 DEF KnownStatus
  <2> HIDE DEF w, st
  <2> QED
    BY <1>1, <2>1, <2>2, <2>3, <2>4, <2>5 DEF After, SameGame
<1>8. PICK f : f = e
  OBVIOUS
<1>9. /\ f \in Event /\ f.type # "BombExploded" /\ PlayTurn(<<f>>)
      /\ \A old : Burnt(old, Due) => After(ResolveEvent(old, f), old)
  BY <1>1, <1>3, <1>7, <1>8
<1> QED
  BY <1>1, <1>2, <1>9, OneEventDone

LEMMA MoveDone ==
  ASSUME PlayInv, NEW i \in PlayerId, NEW p \in Position, MoveTurn(i, p)
  PROVE  PlayInv'
<1> DEFINE e == PlayerMoved(i, p)
<1>1. /\ PlayTurn(<<e>>) /\ walls' = LeftWalls
      /\ laid' = laid /\ robots' = [robots EXCEPT ![i] = p]
  BY DEF MoveTurn
<1>2. robots \in [PlayerId -> Position] /\ robots' \in [PlayerId -> Position]
  BY <1>1 DEF PlayInv, Served
<1>3. e \in Event /\ e.type = "PlayerMoved" /\ e.player = i /\ e.position = p
  BY DEF PlayerMoved, Event, AnyId
<1> HIDE DEF e
<1>4. <<e>> \in Seq(Event)
  BY <1>3
<1>5. Waits /\ LeftWalls = walls \ Fire(Due)
  <2>1. PICK events : events = <<e>>
    OBVIOUS
  <2>2. events \in Seq(Event) /\ PlayTurn(events)
    BY <1>1, <1>4, <2>1
  <2> QED
    BY <2>2, TurnBegins
<1>6. ASSUME NEW old, Burnt(old, Due)
      PROVE  After(ResolveEvent(old, e), old)
  <2> DEFINE ps == [j \in DOMAIN old.player_positions \cup {i} |->
                      IF j = i THEN p ELSE old.player_positions[j]]
             st == [old EXCEPT !.player_positions = ps]
  <2>1. old \in KnownStatus /\ old.blocks = walls \ Fire(Due) /\ old.player_positions = robots
    BY <1>5, <1>6 DEF Burnt, Waits, Right
  <2>2. ps = robots'
    BY <1>1, <1>2, <2>1
  <2>3. ps \in Places
    <3> HIDE DEF ps
    <3> QED
      BY <1>2, <2>2 DEF Places
  <2>4. ResolveEvent(old, e) = st
    BY <1>3, <2>1 DEF ResolveEvent, MoveRobot, KnownStatus
  <2>5. st \in KnownStatus
    <3> HIDE DEF ps
    <3> QED
      BY <2>1, <2>3, KnownUpdate
  <2>6. /\ st.turn = old.turn /\ st.players = old.players
        /\ st.explosions = old.explosions /\ st.scores = old.scores
        /\ st.bombs = old.bombs /\ st.player_positions = ps /\ st.blocks = old.blocks
    <3> HIDE DEF ps
    <3> QED
      BY <2>1 DEF KnownStatus
  <2> HIDE DEF ps, st
  <2> QED
    BY <1>1, <1>5, <2>1, <2>2, <2>4, <2>5, <2>6 DEF After, SameGame
<1>7. PICK f : f = e
  OBVIOUS
<1>8. /\ f \in Event /\ f.type # "BombExploded" /\ PlayTurn(<<f>>)
      /\ \A old : Burnt(old, Due) => After(ResolveEvent(old, f), old)
  BY <1>1, <1>3, <1>6, <1>7
<1> QED
  BY <1>1, <1>2, <1>8, OneEventDone

LEMMA BombDone ==
  ASSUME PlayInv, NEW who \in SUBSET PlayerId, BombTurn(who)
  PROVE  PlayInv'
<1>1. PICK order \in [1 .. Cardinality(who) -> who] :
        /\ PlayTurn([k \in DOMAIN order |-> BombPlaced(Len(laid) + k - 1, robots[order[k]])])
        /\ laid' = laid \o [k \in DOMAIN order |->
                              [position |-> robots[order[k]], turn |-> next]]
  BY DEF BombTurn
<1>2. walls' = LeftWalls /\ robots' = robots
  BY DEF BombTurn
<1>3. Cardinality(who) \in Nat
  <2>1. IsFiniteSet(PlayerId)
    BY FS_Interval DEF PlayerId
  <2> QED
    BY <2>1, FS_Subset, FS_CardinalityType
<1>4. PICK count \in Nat : count = Cardinality(who)
  BY <1>3
<1>5. Served /\ robots \in [PlayerId -> Position] /\ Len(laid) \in Nat
  BY DEF PlayInv, Served
<1>6. PICK ps : ps = [k \in 1 .. count |-> robots[order[k]]]
  OBVIOUS
<1>7. ps \in Seq(Position) /\ Len(ps) = count /\ \A k \in 1 .. count : ps[k] = robots[order[k]]
  <2>1. \A k \in 1 .. count : robots[order[k]] \in Position
    BY <1>4, <1>5
  <2> QED
    BY <1>6, <2>1
<1>8. PICK L \in Nat : L = Len(laid)
  BY <1>5
<1>9. PICK events : events = [k \in 1 .. count |-> BombPlaced(L + k - 1, ps[k])]
  OBVIOUS
<1>10. /\ events \in Seq(Event) /\ Len(events) = count
       /\ \A k \in 1 .. count : events[k] = BombPlaced(L + k - 1, ps[k])
  <2>1. ASSUME NEW k \in 1 .. count
        PROVE  BombPlaced(L + k - 1, ps[k]) \in Event
    <3>1. ps[k] \in Position /\ L + k - 1 \in Nat
      BY <1>7, ElementOfSeq
    <3> QED
      BY <3>1 DEF BombPlaced, Event
  <2> QED
    BY <1>9, <2>1
<1>11. PlayTurn(events)
  <2>1. events = [k \in DOMAIN order |-> BombPlaced(Len(laid) + k - 1, robots[order[k]])]
    BY <1>4, <1>7, <1>8, <1>9
  <2> QED
    BY <1>1, <2>1
<1>12. laid' = laid \o Lay(ps)
  <2>1. Lay(ps) = [k \in DOMAIN order |-> [position |-> robots[order[k]], turn |-> next]]
    BY <1>4, <1>7 DEF Lay
  <2> QED
    BY <1>1, <2>1
<1>13. Waits /\ LeftWalls = walls \ Fire(Due)
  BY <1>10, <1>11, TurnBegins
<1>14. PICK m : m = Written(events)
  OBVIOUS
<1>15. PICK es : es = Reports[Len(laid)]
  OBVIOUS
<1>16. PICK n : n = Len(es)
  OBVIOUS
<1>17. PICK R : R = Replay(m)
  OBVIOUS
<1>18. Burnt(R[n], Due)
  BY <1>10, <1>13, <1>14, <1>15, <1>16, <1>17, TurnRead
<1>19. /\ n \in Nat /\ Len(m.events) \in Nat /\ Len(m.events) = n + count
       /\ \A k \in 1 .. count : m.events[n + k] = events[k]
  <2>1. Tells(m, es, events)
    BY <1>5, <1>10, <1>14, <1>15, TurnEvents
  <2> QED
    BY <1>10, <1>16, <2>1 DEF Tells
<1>20. \A k \in 1 .. Len(ps) : m.events[n + k] = BombPlaced(Len(laid) + k - 1, ps[k])
  BY <1>7, <1>8, <1>10, <1>19
<1>21. /\ Placed(R[n + Len(ps)], R[n], ps, Len(ps))
       /\ \A k \in 1 .. Len(ps) : ~ Throws(R[n + k - 1], m.events[n + k])
  <2>1. R[n] \in KnownStatus /\ Len(m.events) = n + Len(ps)
    BY <1>7, <1>18, <1>19 DEF Burnt
  <2> QED
    BY <1>5, <1>7, <1>17, <1>19, <1>20, <2>1, PlacedRead
<1>22. PICK st : st = R[n + Len(ps)]
  OBVIOUS
<1>23. /\ st \in KnownStatus /\ SameGame(st, R[n])
       /\ BombsPlaced(st.bombs, R[n].bombs, ps, Len(ps))
       /\ st.player_positions = R[n].player_positions /\ st.blocks = R[n].blocks
  BY <1>21, <1>22 DEF Placed, SameButBombs, SameGame
<1>24. st.player_positions = robots' /\ st.blocks = walls'
  BY <1>2, <1>13, <1>18, <1>23 DEF Burnt, Waits, Right
<1>25. \A k \in 1 .. Len(events) : ~ Throws(Replay(m)[n + k - 1], events[k])
  BY <1>7, <1>10, <1>17, <1>19, <1>21
<1>26. st = Replay(m)[n + Len(events)]
  BY <1>7, <1>10, <1>17, <1>22
<1>27. robots' \in [PlayerId -> Position]
  BY <1>2, <1>5
<1>28. SameGame(st, Replay(m)[n]) /\ BombsPlaced(st.bombs, Replay(m)[n].bombs, ps, Len(ps))
  BY <1>17, <1>23
<1> QED
  BY <1>7, <1>10, <1>11, <1>12, <1>14, <1>15, <1>16, <1>23, <1>24, <1>25, <1>26, <1>27, <1>28, TurnDone

--------------------------------------------------------------------------------
(***************************************************************************)
(* The other steps.                                                        *)
(***************************************************************************)
LEMMA StartDone ==
  ASSUME PlayInv, StartGame
  PROVE  PlayInv'
<1>1. PICK name \in Names :
        Write(<<GameStarted([i \in PlayerId |-> name]),
                Turn(0, [k \in 1 .. PlayersCount |-> PlayerMoved(k - 1, Origin)])>>)
  BY DEF StartGame
<1>2. PICK players : players = [i \in PlayerId |-> name]
  OBVIOUS
<1>3. players \in [PlayerId -> Names]
  BY <1>2
<1>4. /\ inbox = <<>> /\ listener = "reading" /\ listener' = "reading"
      /\ inbox' = <<GameStarted(players), FirstTurn>>
      /\ UNCHANGED <<outbox, input, in_lobby, status>>
  BY <1>1, <1>2 DEF Write, FirstTurn
<1>5. /\ next = 0 /\ games' = games + 1 /\ next' = 1
      /\ laid' = <<>> /\ walls' = {} /\ blast' = {}
      /\ robots' = [i \in PlayerId |-> Origin]
      /\ deaths' = [i \in PlayerId |-> 0]
  BY DEF StartGame
<1>6. Served /\ Kept /\ Phases
  BY DEF PlayInv
<1>7. Idle
  <2>1. ~ Called /\ ~ Ready
    BY <1>5 DEF Called, Ready, Begun
  <2>2. ~ Coming
    <3> SUFFICES ASSUME NEW m, inbox = <<m>> \o Last
                 PROVE  FALSE
      BY DEF Coming
    <3>1. <<m>> \o Last # <<>>
      BY DEF Last
    <3> QED
      BY <1>4, <3>1
  <2>3. ~ Shown /\ ~ Resting
    BY <1>4, <1>5 DEF Shown, Resting, Last
  <2> QED
    BY <1>4, <1>6, <2>1, <2>2, <2>3 DEF Phases, Over
<1>8. games \in Nat /\ games' \in Nat /\ games' # 0 /\ (games' = 1 => games = 0)
  BY <1>5, <1>6 DEF Served
<1>9. Origin \in Position
  BY DEF Origin, Position
<1>10. Served'
  <2>1. <<>> \in Seq(Laid) /\ Len(<<>>) = 0
    OBVIOUS
  <2>2. robots' \in [PlayerId -> Position] /\ deaths' \in [PlayerId -> Nat]
    BY <1>5, <1>9
  <2> QED
    BY <1>5, <1>8, <2>1, <2>2 DEF Served
<1>11. Kept'
  BY <1>4, <1>6 DEF Kept
<1>12. Begun'
  BY <1>4, <1>5, <1>7, <1>8 DEF Begun, Idle, Forgotten
<1>13. Called'
  <2>1. FirstTurn' = FirstTurn
    BY DEF FirstTurn
  <2>2. \E ps \in [PlayerId -> Names] : inbox' = <<GameStarted(ps), FirstTurn'>>
    BY <1>3, <1>4, <2>1
  <2>3. games' = 1 => status'.scores = <<>>
    BY <1>4, <1>7, <1>8 DEF Idle
  <2> QED
    BY <1>12, <2>2, <2>3 DEF Called
<1> QED
  BY <1>8, <1>10, <1>11, <1>13 DEF PlayInv, Phases

(***************************************************************************)
(* What the client reads, in which phase.                                  *)
(***************************************************************************)
LEMMA Reading ==
  ASSUME PlayInv, TakeMessage
  PROVE  /\ games # 0
         /\ \/ Called /\ Head(inbox).type = "GameStarted" /\ Tail(inbox) = <<FirstTurn>>
            \/ Ready /\ Head(inbox) = FirstTurn /\ Tail(inbox) = <<>>
            \/ Coming /\ Head(inbox).type = "Turn"
            \/ Resting /\ next = 0 /\ Head(inbox).type = "GameEnded" /\ Tail(inbox) = <<>>
<1>1. listener = "reading" /\ inbox # <<>>
  BY DEF TakeMessage
<1>2. Phases
  BY DEF PlayInv
<1>3. ~ Idle /\ ~ Shown
  BY <1>1 DEF Idle, Shown
<1>4. ASSUME Called
      PROVE  Head(inbox).type = "GameStarted" /\ Tail(inbox) = <<FirstTurn>>
  <2>1. PICK players : inbox = <<GameStarted(players), FirstTurn>>
    BY <1>4 DEF Called
  <2> QED
    BY <2>1 DEF GameStarted
<1>5. ASSUME Ready
      PROVE  Head(inbox) = FirstTurn /\ Tail(inbox) = <<>>
  <2>1. inbox = <<FirstTurn>>
    BY <1>5 DEF Ready
  <2> QED
    BY <2>1
<1>6. ASSUME Coming
      PROVE  Head(inbox).type = "Turn"
  <2>1. PICK m : m.type = "Turn" /\ inbox = <<m>> \o Last
    BY <1>6 DEF Coming
  <2>2. Head(inbox) = m
    BY <2>1 DEF Last
  <2> QED
    BY <2>1, <2>2
<1>7. ASSUME Resting
      PROVE  next = 0 /\ Head(inbox).type = "GameEnded" /\ Tail(inbox) = <<>>
  <2>1. inbox = <<GameEnded(<<>>)>> /\ next = 0
    BY <1>1, <1>7 DEF Resting, Last
  <2> QED
    BY <2>1 DEF GameEnded
<1> QED
  BY <1>1, <1>2, <1>3, <1>4, <1>5, <1>6, <1>7 DEF Phases, Over

LEMMA GameStartedDone ==
  ASSUME PlayInv, ReceiveGameStarted, UNCHANGED serverVars
  PROVE  PlayInv'
<1>1. TakeMessage /\ Head(inbox).type = "GameStarted" /\ inbox' = Tail(inbox)
      /\ UNCHANGED <<outbox, input, listener>> /\ in_lobby' = FALSE
  BY DEF ReceiveGameStarted, Reads, TakeMessage
<1>2. UNCHANGED <<games, next, laid, walls, robots, deaths, blast>>
  BY DEF serverVars
<1>3. games # 0 /\ Called /\ Tail(inbox) = <<FirstTurn>>
  <2>1. FirstTurn.type = "Turn"
    BY DEF FirstTurn, Turn
  <2> QED
    BY <1>1, <2>1, Reading
<1>4. PICK players \in [PlayerId -> Names] : inbox = <<GameStarted(players), FirstTurn>>
  BY <1>3 DEF Called
<1>5. Head(inbox).players = players /\ DOMAIN players = PlayerId
  BY <1>4 DEF GameStarted
<1>6. Served /\ Kept
  BY DEF PlayInv
<1>7. status \in KnownStatus
  BY <1>6 DEF Kept
<1> DEFINE all == PlayerId \cup DOMAIN status.scores
           z == [i \in all |-> IF i \in DOMAIN status.scores THEN status.scores[i] ELSE 0]
<1>8. status' = [status EXCEPT !.players = players, !.scores = z]
  BY <1>5, <1>7 DEF ReceiveGameStarted, KnownStatus
<1>9. PICK D \in SUBSET PlayerId : status.scores \in [D -> Nat]
  BY <1>7 DEF KnownStatus, Tallies
<1>10. all = PlayerId /\ z \in [PlayerId -> Nat]
  BY <1>9
<1>11. ASSUME games = 1
       PROVE  z = deaths
  <2>1. status.scores = <<>> /\ deaths = [i \in PlayerId |-> 0]
    BY <1>3, <1>11 DEF Called, Begun
  <2>2. DOMAIN status.scores = {}
    BY <2>1
  <2> QED
    BY <1>10, <2>1, <2>2
<1> HIDE DEF all, z
<1>12. z \in Tallies
  BY <1>10 DEF Tallies
<1>13. players \in PlayerMap
  <2>1. PlayersCount \in 0 .. PlayersCount /\ players \in [0 .. (PlayersCount - 1) -> Names]
    BY DEF PlayerId
  <2> QED
    BY <2>1 DEF PlayerMap
<1>14. status' \in KnownStatus
  BY <1>7, <1>8, <1>12, <1>13, KnownUpdate
<1>15. /\ status'.players = players /\ status'.scores = z
       /\ status'.blocks = status.blocks /\ status'.bombs = status.bombs
       /\ status'.explosions = status.explosions /\ status'.players_scored = status.players_scored
  BY <1>7, <1>8 DEF KnownStatus
<1>16. Served'
  BY <1>2, <1>6 DEF Served
<1>17. Kept'
  BY <1>1, <1>6, <1>14 DEF Kept
<1>18. Begun'
  BY <1>1, <1>2, <1>3, <1>15 DEF Called, Begun, Forgotten
<1>19. Ready'
  <2>1. FirstTurn' = FirstTurn
    BY DEF FirstTurn
  <2>2. inbox' = <<FirstTurn'>>
    BY <1>1, <1>3, <2>1
  <2>3. DOMAIN z = PlayerId
    BY <1>10
  <2> QED
    BY <1>2, <1>5, <1>11, <1>15, <1>18, <2>2, <2>3 DEF Ready
<1> QED
  BY <1>2, <1>3, <1>16, <1>17, <1>19 DEF PlayInv, Phases

(***************************************************************************)
(* The first turn tells where every robot stands.                          *)
(***************************************************************************)
Met(st, k) ==
  /\ st \in KnownStatus
  /\ st.turn = 0 /\ st.players = status.players /\ st.blocks = status.blocks
  /\ st.bombs = status.bombs /\ st.explosions = status.explosions
  /\ st.scores = status.scores
  /\ 0 .. (k - 1) \subseteq DOMAIN st.player_positions
  /\ \A i \in 0 .. (k - 1) : st.player_positions[i] = Origin

LEMMA MetMore ==
  ASSUME NEW st, NEW k \in 1 .. PlayersCount, Met(st, k - 1)
  PROVE  Met(ResolveEvent(st, PlayerMoved(k - 1, Origin)), k)
<1> DEFINE e == PlayerMoved(k - 1, Origin)
           ps == [i \in DOMAIN st.player_positions \cup {k - 1} |->
                    IF i = k - 1 THEN Origin ELSE st.player_positions[i]]
           new == [st EXCEPT !.player_positions = ps]
<1>1. /\ e.type = "PlayerMoved" /\ e.player = k - 1 /\ e.position = Origin
      /\ k - 1 \in PlayerId /\ Origin \in Position
  BY DEF PlayerMoved, PlayerId, Origin, Position
<1>2. st \in KnownStatus
  BY DEF Met
<1> HIDE DEF e
<1>3. ResolveEvent(st, e) = new
  BY <1>1, <1>2 DEF ResolveEvent, MoveRobot, KnownStatus
<1>4. PICK D \in SUBSET PlayerId : st.player_positions \in [D -> Position]
  BY <1>2 DEF KnownStatus, Places
<1>5. D \cup {k - 1} \in SUBSET PlayerId /\ ps \in [D \cup {k - 1} -> Position]
  BY <1>1, <1>4
<1>6. \A i \in 0 .. (k - 1) : i \in 0 .. (k - 1 - 1) \/ i = k - 1
  OBVIOUS
<1>7. /\ 0 .. (k - 1 - 1) \subseteq D
      /\ \A i \in 0 .. (k - 1 - 1) : st.player_positions[i] = Origin
  BY <1>4 DEF Met
<1>8. /\ 0 .. (k - 1) \subseteq DOMAIN ps
      /\ \A i \in 0 .. (k - 1) : ps[i] = Origin
  BY <1>4, <1>6, <1>7
<1> HIDE DEF ps
<1>9. ps \in Places
  BY <1>5 DEF Places
<1>10. new \in KnownStatus
  BY <1>2, <1>9, KnownUpdate
<1>11. /\ new.turn = st.turn /\ new.players = st.players /\ new.blocks = st.blocks
       /\ new.bombs = st.bombs /\ new.explosions = st.explosions
       /\ new.scores = st.scores /\ new.player_positions = ps
  BY <1>2 DEF KnownStatus
<1> HIDE DEF new
<1>12. Met(new, k)
  BY <1>8, <1>10, <1>11 DEF Met
<1> QED
  BY <1>3, <1>12 DEF e

LEMMA FirstTurnRead ==
  ASSUME Served, Kept, Ready
  PROVE  ~ TurnThrows(FirstTurn) /\ Pictured(Replay(FirstTurn)[Len(FirstTurn.events)])
<1> DEFINE N == PlayersCount
<1>1. PICK m : m = FirstTurn
  OBVIOUS
<1>2. /\ N \in Nat /\ m.turn = 0 /\ Len(m.events) = N
      /\ \A k \in 1 .. N : m.events[k] = PlayerMoved(k - 1, Origin)
  <2>1. N \in Nat
    OBVIOUS
  <2>2. m.turn = 0 /\ m.events = [k \in 1 .. N |-> PlayerMoved(k - 1, Origin)]
    BY <1>1 DEF FirstTurn, Turn
  <2> QED
    BY <2>1, <2>2
<1>3. PICK R : R = Replay(m)
  OBVIOUS
<1>4. /\ R[0] = [status EXCEPT !.turn = 0]
      /\ \A k \in 1 .. N : R[k] = ResolveEvent(R[k - 1], m.events[k])
  <2>1. Len(m.events) \in Nat
    BY <1>2
  <2>2. R[0] = [status EXCEPT !.turn = m.turn]
    BY <1>3, <2>1, ReplayDefined
  <2>3. \A k \in 1 .. Len(m.events) : R[k] = ResolveEvent(R[k - 1], m.events[k])
    BY <1>3, <2>1, ReplayDefined
  <2> QED
    BY <1>2, <2>2, <2>3
<1> DEFINE T == {k \in 0 .. N : Met(R[k], k)}
<1>5. 0 \in T
  <2>1. status \in KnownStatus
    BY DEF Kept
  <2>2. R[0] \in KnownStatus
    <3>1. \A n \in Nat : [status EXCEPT !.turn = n] \in KnownStatus
      BY <2>1, KnownUpdate
    <3> QED
      BY <1>4, <3>1
  <2>3. R[0].turn = 0 /\ R[0].players = status.players /\ R[0].blocks = status.blocks
    BY <1>4, <2>1 DEF KnownStatus
  <2>4. /\ R[0].bombs = status.bombs /\ R[0].explosions = status.explosions
        /\ R[0].scores = status.scores
    BY <1>4, <2>1 DEF KnownStatus
  <2>5. Met(R[0], 0)
    BY <2>2, <2>3, <2>4 DEF Met
  <2> QED
    BY <1>2, <2>5
<1>6. ASSUME NEW i \in 0 .. (N - 1), i \in T
      PROVE  i + 1 \in T
  <2>1. PICK k \in 1 .. N : k = i + 1 /\ i = k - 1
    BY <1>2
  <2>2. R[k] = ResolveEvent(R[k - 1], PlayerMoved(k - 1, Origin))
    BY <1>2, <1>4
  <2>3. Met(R[k - 1], k - 1)
    BY <1>6, <2>1
  <2>4. Met(R[k], k)
    BY <2>2, <2>3, MetMore
  <2>5. k \in 0 .. N
    BY <1>2
  <2> QED
    BY <2>1, <2>4, <2>5
<1>7. N \in T
  <2> HIDE DEF T, N
  <2>1. \A k \in 0 .. N : k \in T
    BY <1>2, <1>5, <1>6, IntervalInduction
  <2> QED
    BY <1>2, <2>1
<1>8. PICK st : st = R[N]
  OBVIOUS
<1>9. Met(st, PlayersCount)
  BY <1>7, <1>8
<1>10. /\ next = 1 /\ laid = <<>> /\ walls = {} /\ blast = {}
       /\ robots = [i \in PlayerId |-> Origin]
       /\ status.blocks = {} /\ status.explosions = {}
       /\ DOMAIN status.players = PlayerId /\ DOMAIN status.scores = PlayerId
       /\ games = 1 => status.bombs = <<>> /\ status.scores = deaths
  BY DEF Ready, Begun, Forgotten
<1>11. st.player_positions = robots
  <2>1. PICK D \in SUBSET PlayerId : st.player_positions \in [D -> Position]
    BY <1>9 DEF Met, KnownStatus, Places
  <2>2. PlayerId \subseteq D /\ \A i \in PlayerId : st.player_positions[i] = Origin
    BY <1>9, <2>1 DEF Met, PlayerId
  <2> QED
    BY <1>10, <2>1, <2>2
<1>12. Live(st.turn + 1) = {}
  BY <1>10 DEF Live
<1>13. games = 1 => st.bombs = [b \in Live(st.turn + 1) |-> Burning(b, st.turn)]
  <2>1. \A f, g : f = [b \in {} |-> f[b]] /\ g = [b \in {} |-> g[b]] => f = g
    OBVIOUS
  <2>2. <<>> = [b \in {} |-> Burning(b, st.turn)]
    BY <2>1
  <2> QED
    BY <1>9, <1>10, <1>12, <2>2 DEF Met
<1>14. Right(st, st.turn)
  BY <1>9, <1>10, <1>11, <1>12, <1>13 DEF Right, Met
<1>15. Pictured(st)
  BY <1>9, <1>10, <1>14 DEF Pictured, Met
<1>16. ~ TurnThrows(m)
  <2>1. \A k \in 1 .. N : m.events[k].type = "PlayerMoved"
    <3>1. \A i, p : PlayerMoved(i, p).type = "PlayerMoved"
      BY DEF PlayerMoved
    <3> QED
      BY <1>2, <3>1
  <2> QED
    BY <1>2, <2>1 DEF TurnThrows, Throws
<1> QED
  BY <1>1, <1>2, <1>3, <1>8, <1>15, <1>16

LEMMA PairOf ==
  ASSUME NEW a, NEW b
  PROVE  <<a>> \o <<b>> = <<a, b>>
<1> DEFINE S == {a, b}
<1>1. /\ <<a>> \in Seq(S) /\ Len(<<a>>) = 1 /\ <<a>>[1] = a
      /\ <<b>> \in Seq(S) /\ Len(<<b>>) = 1 /\ <<b>>[1] = b
      /\ <<a, b>> \in Seq(S) /\ Len(<<a, b>>) = 2 /\ <<a, b>>[1] = a /\ <<a, b>>[2] = b
  OBVIOUS
<1> HIDE DEF S
<1>2. /\ <<a>> \o <<b>> \in Seq(S) /\ Len(<<a>> \o <<b>>) = 2
      /\ (<<a>> \o <<b>>)[1] = a /\ (<<a>> \o <<b>>)[2] = b
  BY <1>1, ConcatProperties
<1>3. \A i \in 1 .. 2 : (<<a>> \o <<b>>)[i] = <<a, b>>[i]
  <2>1. \A i \in 1 .. 2 : i = 1 \/ i = 2
    OBVIOUS
  <2> QED
    BY <1>1, <1>2, <2>1
<1> QED
  BY <1>1, <1>2, <1>3, SeqEqual

(***************************************************************************)
(* A turn that is read never throws, and is drawn as it is.                *)
(***************************************************************************)
LEMMA TurnPictured ==
  ASSUME PlayInv, TakeMessage, Head(inbox).type = "Turn"
  PROVE  /\ games # 0 /\ ~ TurnThrows(Head(inbox)) /\ Tail(inbox) = Last
         /\ Pictured(Replay(Head(inbox))[Len(Head(inbox).events)])
<1>1. games # 0 /\ (Coming \/ (Ready /\ Head(inbox) = FirstTurn /\ Tail(inbox) = <<>>))
  <2>1. Head(inbox).type # "GameStarted" /\ Head(inbox).type # "GameEnded"
    OBVIOUS
  <2> QED
    BY <2>1, Reading
<1>2. CASE Coming
  <2>1. PICK m \in Message :
          /\ inbox = <<m>> \o Last /\ ~ TurnThrows(m)
          /\ Pictured(Replay(m)[Len(m.events)])
    BY <1>2 DEF Coming
  <2>2. Head(inbox) = m /\ Tail(inbox) = Last
    <3>1. Last \in {<<>>, <<GameEnded(<<>>)>>}
      BY DEF Last
    <3>2. CASE Last = <<>>
      BY <2>1, <3>2
    <3>3. CASE Last = <<GameEnded(<<>>)>>
      <4>1. PICK g : Last = <<g>>
        BY <3>3
      <4>2. <<m>> \o <<g>> = <<m, g>>
        BY PairOf
      <4>3. inbox = <<m, g>>
        BY <2>1, <4>1, <4>2
      <4> QED
        BY <4>1, <4>3
    <3> QED
      BY <3>1, <3>2, <3>3
  <2> QED
    BY <1>1, <2>1, <2>2
<1>3. CASE Ready /\ Head(inbox) = FirstTurn /\ Tail(inbox) = <<>>
  <2>1. Served /\ Kept
    BY DEF PlayInv
  <2>2. Last = <<>>
    BY <1>3 DEF Ready, Begun, Last
  <2> QED
    BY <1>1, <1>3, <2>1, <2>2, FirstTurnRead
<1> QED
  BY <1>1, <1>2, <1>3

LEMMA TurnReadDone ==
  ASSUME PlayInv, ReceiveTurn, UNCHANGED serverVars
  PROVE  PlayInv'
<1>1. /\ TakeMessage /\ Head(inbox).type = "Turn" /\ inbox' = Tail(inbox)
      /\ status' = Replay(Head(inbox))[Len(Head(inbox).events)]
      /\ listener' = "game" /\ UNCHANGED <<outbox, input, in_lobby>>
  BY DEF ReceiveTurn, Reads, TakeMessage
<1>2. UNCHANGED <<games, next, laid, walls, robots, deaths, blast>>
  BY DEF serverVars
<1>3. PICK st : st = status'
  OBVIOUS
<1>4. games # 0 /\ inbox' = Last /\ Pictured(st)
  BY <1>1, <1>3, TurnPictured
<1>5. Last' = Last
  BY <1>2 DEF Last
<1>6. Pictured(st)'
  BY <1>2, <1>4 DEF Pictured, Right, Live, Burning
<1>7. Pictured(status)'
  BY <1>3, <1>6
<1>8. Served' /\ Kept'
  BY <1>1, <1>2, <1>3, <1>4 DEF PlayInv, Served, Kept, Pictured
<1>9. Shown'
  BY <1>1, <1>4, <1>5, <1>7 DEF Shown
<1> QED
  BY <1>2, <1>4, <1>8, <1>9 DEF PlayInv, Phases

(***************************************************************************)
(* After a drawing the timers count down, and none of them wraps: a bomb   *)
(* that is drawn has a turn left.                                          *)
(***************************************************************************)
LEMMA GameDrawnDone ==
  ASSUME PlayInv, GameDrawn, UNCHANGED serverVars
  PROVE  PlayInv'
<1> DEFINE bs == CountDown(status.bombs)
<1>1. /\ listener = "game" /\ listener' = "reading"
      /\ status' = [status EXCEPT !.bombs = bs, !.explosions = {}, !.players_scored = {}]
      /\ UNCHANGED <<inbox, outbox, input, in_lobby>>
  BY DEF GameDrawn
<1>2. UNCHANGED <<games, next, laid, walls, robots, deaths, blast>>
  BY DEF serverVars
<1>3. Served /\ Kept /\ Shown /\ games # 0
  BY <1>1 DEF PlayInv, Phases, Idle, Over, Called, Ready, Begun, Coming, Resting
<1>4. inbox = Last /\ Pictured(status)
  BY <1>3 DEF Shown
<1>5. status \in KnownStatus /\ Right(status, status.turn) /\ (next # 0 => next = status.turn + 1)
  BY <1>4 DEF Pictured
<1>6. PICK B \in SUBSET Nat : status.bombs \in [B -> Bomb]
  BY <1>5 DEF KnownStatus, KnownBombs
<1>7. bs \in [B -> Bomb] /\ DOMAIN bs = DOMAIN status.bombs
  <2> SUFFICES ASSUME NEW b \in B
               PROVE  [status.bombs[b] EXCEPT !.timer = (@ - 1) % U16] \in Bomb
    BY <1>6 DEF CountDown
  <2>1. PICK bomb \in Bomb : bomb = status.bombs[b]
    BY <1>6
  <2>2. bomb.position \in Position /\ bomb.timer \in Int
    BY <2>1 DEF Bomb
  <2>3. U16 \in Nat /\ U16 > 0
    OBVIOUS
  <2>4. (bomb.timer - 1) % U16 \in 0 .. (U16 - 1)
    BY <2>2, <2>3
  <2>5. PICK t : t = (bomb.timer - 1) % U16
    OBVIOUS
  <2>6. [bomb EXCEPT !.timer = t] \in Bomb
    BY <2>4, <2>5 DEF Bomb
  <2>7. [bomb EXCEPT !.timer = (@ - 1) % U16] = [bomb EXCEPT !.timer = t]
    BY <2>1, <2>5 DEF Bomb
  <2> QED
    BY <2>1, <2>6, <2>7
<1>8. bs \in KnownBombs
  BY <1>7 DEF KnownBombs
<1>9. ASSUME games = 1, BombTimer # 0, next # 0
      PROVE  bs = [b \in Live(status.turn + 1) |-> Burning(b, next)]
  <2>1. status.bombs = [b \in Live(next) |-> Burning(b, status.turn)]
    BY <1>5, <1>9 DEF Right
  <2>2. ASSUME NEW b \in Live(next)
        PROVE  [status.bombs[b] EXCEPT !.timer = (@ - 1) % U16] = Burning(b, next)
    <3>1. PICK p, t : p = laid[b + 1].position /\ t = laid[b + 1].turn
      OBVIOUS
    <3>2. t \in Nat /\ t + BombTimer >= next /\ t < next /\ next \in Nat /\ status.turn \in Nat
      <4>1. b \in 0 .. (Len(laid) - 1) /\ laid[b + 1].turn + BombTimer >= next
        BY DEF Live
      <4>2. laid[b + 1] \in Laid /\ Len(laid) \in Nat
        BY <1>3, <4>1, BlownEvent DEF Served
      <4>3. b + 1 \in 1 .. Len(laid)
        BY <4>1, <4>2
      <4>4. laid[b + 1].turn < next /\ next \in Nat
        BY <1>3, <1>9, <4>3 DEF Served
      <4> QED
        BY <1>5, <3>1, <4>1, <4>2, <4>4 DEF Laid, KnownStatus
    <3>3. status.bombs[b] = [position |-> p, timer |-> t + BombTimer - status.turn]
      BY <2>1, <3>1 DEF Burning
    <3>4. PICK u : u = t + BombTimer - next
      OBVIOUS
    <3>5. BombTimer \in 0 .. (U16 - 1) /\ U16 \in Nat
      OBVIOUS
    <3>6. u \in 0 .. (U16 - 1) /\ (t + BombTimer - status.turn) - 1 = u
      BY <1>5, <1>9, <3>2, <3>4, <3>5
    <3>7. u % U16 = u
      BY <3>5, <3>6
    <3>8. Burning(b, next) = [position |-> p, timer |-> u]
      BY <3>1, <3>4 DEF Burning
    <3> QED
      BY <3>3, <3>6, <3>7, <3>8
  <2>3. DOMAIN status.bombs = Live(next)
    BY <2>1
  <2>4. bs = [b \in Live(next) |-> Burning(b, next)]
    BY <2>2, <2>3 DEF CountDown
  <2> QED
    BY <1>5, <1>9, <2>4
<1> HIDE DEF bs
<1>10. status' \in KnownStatus
  BY <1>1, <1>5, <1>8, KnownUpdate
<1>11. /\ status'.turn = status.turn /\ status'.players = status.players
       /\ status'.player_positions = status.player_positions
       /\ status'.blocks = status.blocks /\ status'.bombs = bs
       /\ status'.explosions = {} /\ status'.scores = status.scores
       /\ status'.players_scored = {}
  BY <1>1, <1>5 DEF KnownStatus
<1>12. ASSUME next # 0
       PROVE  Right(status', next)
  BY <1>5, <1>7, <1>9, <1>11, <1>12 DEF Right
<1>13. PICK st, n : st = status' /\ n = next
  OBVIOUS
<1>14. next # 0 => Right(st, n)'
  <2>1. next # 0 => Right(st, n)
    BY <1>12, <1>13
  <2> QED
    BY <1>2, <2>1 DEF Right, Live, Burning
<1>15. (next # 0 => next = status.turn + 1 /\ Right(status, next))'
  BY <1>2, <1>5, <1>11, <1>13, <1>14
<1>16. Served' /\ Kept'
  BY <1>1, <1>2, <1>3, <1>10 DEF Served, Kept
<1>17. Last' = Last
  BY <1>2 DEF Last
<1>18. Resting'
  BY <1>1, <1>4, <1>11, <1>15, <1>17 DEF Resting, Forgotten
<1> QED
  BY <1>2, <1>3, <1>16, <1>18 DEF PlayInv, Phases

LEMMA GameEndedDone ==
  ASSUME PlayInv, ReceiveGameEnded, UNCHANGED serverVars
  PROVE  PlayInv'
<1>1. /\ TakeMessage /\ Head(inbox).type = "GameEnded" /\ inbox' = Tail(inbox)
      /\ status' = [status EXCEPT !.turn = 0, !.blocks = {}]
      /\ listener' = "lobby" /\ in_lobby' = TRUE /\ UNCHANGED <<outbox, input>>
  BY DEF ReceiveGameEnded, Reads, TakeMessage
<1>2. UNCHANGED <<games, next, laid, walls, robots, deaths, blast>>
  BY DEF serverVars
<1>3. games # 0 /\ Resting /\ next = 0 /\ Tail(inbox) = <<>>
  <2>1. FirstTurn.type = "Turn"
    BY DEF FirstTurn, Turn
  <2> QED
    BY <1>1, <2>1, Reading
<1>4. Served /\ Kept /\ status \in KnownStatus
  BY DEF PlayInv, Kept
<1>5. status' \in KnownStatus
  BY <1>1, <1>4, KnownUpdate
<1>6. /\ status'.blocks = {} /\ status'.explosions = status.explosions
      /\ status'.players_scored = status.players_scored
  BY <1>1, <1>4 DEF KnownStatus
<1>7. Served' /\ Kept'
  BY <1>1, <1>2, <1>4, <1>5 DEF Served, Kept
<1>8. Idle'
  BY <1>1, <1>2, <1>3, <1>6 DEF Idle, Resting, Forgotten
<1> QED
  BY <1>7, <1>8 DEF PlayInv, Phases

LEMMA LobbyDrawnDone ==
  ASSUME PlayInv, LobbyDrawn, UNCHANGED serverVars
  PROVE  PlayInv'
<1>1. /\ listener = "lobby" /\ listener' = "reading"
      /\ UNCHANGED <<inbox, outbox, input, in_lobby, status>>
  BY DEF LobbyDrawn
<1>2. UNCHANGED <<games, next, laid, walls, robots, deaths, blast>>
  BY DEF serverVars
<1>3. Served /\ Kept /\ Idle
  BY <1>1 DEF PlayInv, Phases, Over, Called, Ready, Begun, Coming, Shown, Resting
<1>4. Served' /\ Kept' /\ Idle'
  BY <1>1, <1>2, <1>3 DEF Served, Kept, Idle, Forgotten
<1> QED
  BY <1>4 DEF PlayInv, Phases

LEMMA DrawingFailsDone ==
  ASSUME PlayInv, DrawingFails, UNCHANGED serverVars
  PROVE  PlayInv'
<1>1. /\ listener \in {"lobby", "game"} /\ listener' = "dead"
      /\ UNCHANGED <<inbox, outbox, input, in_lobby, status>>
      /\ UNCHANGED <<games, next, laid, walls, robots, deaths, blast>>
  BY DEF DrawingFails, serverVars
<1>2. Served' /\ Kept'
  BY <1>1 DEF PlayInv, Served, Kept
<1>3. inbox = <<>> \/ inbox = Last
  BY <1>1 DEF PlayInv, Phases, Idle, Over, Called, Ready, Begun, Coming, Shown, Resting
<1>4. inbox \in Seq(Message)
  <2>1. GameEnded(<<>>) \in Message
    BY DEF GameEnded, Message
  <2>2. Last \in Seq(Message)
    BY <2>1 DEF Last
  <2>3. PICK S : S = Seq(Message)
    OBVIOUS
  <2>4. <<>> \in S
    BY <2>3
  <2> QED
    BY <1>3, <2>2, <2>3, <2>4
<1> QED
  BY <1>1, <1>2, <1>4 DEF PlayInv, Phases, Over

LEMMA ListenDone ==
  ASSUME PlayInv, Listen, UNCHANGED serverVars
  PROVE  PlayInv'
<1>1. CASE ReceiveHello \/ ReceiveAcceptedPlayer
  <2>1. TakeMessage /\ Head(inbox).type \in {"Hello", "AcceptedPlayer"}
    BY <1>1 DEF ReceiveHello, ReceiveAcceptedPlayer, Reads
  <2>2. FirstTurn.type = "Turn"
    BY DEF FirstTurn, Turn
  <2>3. Head(inbox).type \in {"GameStarted", "Turn", "GameEnded"}
    BY <2>1, <2>2, Reading
  <2> QED
    BY <2>1, <2>3
<1>2. CASE ReceiveGameStarted
  BY <1>2, GameStartedDone
<1>3. CASE ReceiveTurn
  BY <1>3, TurnReadDone
<1>4. CASE ReceiveTurnThrows
  BY <1>4, TurnPictured DEF ReceiveTurnThrows, Reads
<1>5. CASE ReceiveGameEnded
  BY <1>5, GameEndedDone
<1>6. CASE LobbyDrawn
  BY <1>6, LobbyDrawnDone
<1>7. CASE GameDrawn
  BY <1>7, GameDrawnDone
<1>8. CASE DrawingFails
  BY <1>8, DrawingFailsDone
<1> QED
  BY <1>1, <1>2, <1>3, <1>4, <1>5, <1>6, <1>7, <1>8 DEF Listen

LEMMA StillDone ==
  ASSUME PlayInv, UNCHANGED playVars
  PROVE  PlayInv'
<1>1. /\ UNCHANGED <<inbox, outbox, listener, input, in_lobby, status>>
      /\ UNCHANGED <<games, next, laid, walls, robots, deaths, blast>>
  BY DEF playVars, clientVars, serverVars
<1>2. Served' /\ Kept'
  BY <1>1 DEF PlayInv, Served, Kept
<1>3. Last' = Last /\ FirstTurn' = FirstTurn
  BY <1>1 DEF Last, FirstTurn
<1>4. Idle => Idle'
  BY <1>1 DEF Idle, Forgotten
<1>5. Begun => Begun'
  BY <1>1 DEF Begun, Forgotten
<1>6. Called => Called'
  BY <1>1, <1>3, <1>5 DEF Called
<1>7. Ready => Ready'
  BY <1>1, <1>3, <1>5 DEF Ready
<1>8. \A st, n : Right(st, n) => Right(st, n)'
  BY <1>1 DEF Right, Live, Burning
<1>9. \A st : Pictured(st) => Pictured(st)'
  BY <1>1, <1>8 DEF Pictured
<1>10. ASSUME Coming
       PROVE  Coming'
  <2>1. PICK m \in Message :
          /\ m.type = "Turn" /\ inbox = <<m>> \o Last /\ ~ TurnThrows(m)
          /\ Pictured(Replay(m)[Len(m.events)])
    BY <1>10 DEF Coming
  <2>2. Replay(m)' = Replay(m)
    BY <1>1 DEF Replay
  <2>3. ~ TurnThrows(m)'
    BY <2>1, <2>2 DEF TurnThrows
  <2>4. PICK st : st = Replay(m)[Len(m.events)]
    OBVIOUS
  <2>5. Pictured(st)'
    BY <1>9, <2>1, <2>4
  <2>6. Pictured(Replay(m)[Len(m.events)])'
    BY <2>2, <2>4, <2>5
  <2> QED
    BY <1>1, <1>3, <1>10, <2>1, <2>3, <2>6 DEF Coming
<1>11. Shown => Shown'
  <2>1. PICK st : st = status
    OBVIOUS
  <2>2. Pictured(st) => Pictured(st)'
    BY <1>9
  <2> QED
    BY <1>1, <1>3, <2>1, <2>2 DEF Shown
<1>12. Resting => Resting'
  <2>1. PICK st, n : st = status /\ n = next
    OBVIOUS
  <2>2. Right(st, n) => Right(st, n)'
    BY <1>8
  <2> QED
    BY <1>1, <1>3, <2>1, <2>2 DEF Resting, Forgotten
<1>13. Over => Over'
  BY <1>1 DEF Over
<1> QED
  BY <1>1, <1>2, <1>4, <1>6, <1>7, <1>10, <1>11, <1>12, <1>13 DEF PlayInv, Phases

(***************************************************************************)
(* The inductive invariant.                                                *)
(***************************************************************************)
THEOREM PlayInvariant == PlaySpec => []PlayInv
<1>1. PlayInit => PlayInv
  <2> SUFFICES ASSUME PlayInit
               PROVE  PlayInv
    OBVIOUS
  <2>1. /\ inbox = <<>> /\ outbox = <<>>
        /\ listener = "reading" /\ input = "waiting"
        /\ in_lobby = TRUE /\ status = NoStatus
        /\ games = 0 /\ next = 0 /\ laid = <<>> /\ walls = {} /\ blast = {}
        /\ robots = [i \in PlayerId |-> Origin]
        /\ deaths = [i \in PlayerId |-> 0]
    BY DEF PlayInit, ClientInit
  <2>2. NoStatus \in KnownStatus
    <3>1. <<>> \in PlayerMap
      <4>1. 0 \in 0 .. PlayersCount /\ <<>> \in [0 .. (0 - 1) -> Names]
        OBVIOUS
      <4> QED
        BY <4>1 DEF PlayerMap
    <3>2. <<>> \in [{} -> Position] /\ <<>> \in [{} -> Bomb] /\ <<>> \in [{} -> Nat]
      OBVIOUS
    <3>3. <<>> \in Places /\ <<>> \in KnownBombs /\ <<>> \in Tallies
      BY <3>2 DEF Places, KnownBombs, Tallies
    <3>4. 0 \in Nat /\ {} \in SUBSET Position /\ {} \in SUBSET PlayerId
      OBVIOUS
    <3> QED
      BY <3>1, <3>3, <3>4 DEF NoStatus, KnownStatus
  <2>3. Origin \in Position
    BY DEF Origin, Position
  <2>4. Served
    <3>1. robots \in [PlayerId -> Position] /\ deaths \in [PlayerId -> Nat] /\ laid \in Seq(Laid)
      BY <2>1, <2>3
    <3> QED
      BY <2>1, <3>1 DEF Served
  <2>5. Kept
    BY <2>1, <2>2 DEF Kept
  <2>6. Idle
    BY <2>1 DEF Idle, Forgotten, NoStatus
  <2> QED
    BY <2>4, <2>5, <2>6 DEF PlayInv, Phases
<1>2. PlayInv /\ [PlayNext]_playVars => PlayInv'
  <2> SUFFICES ASSUME PlayInv, [PlayNext]_playVars
               PROVE  PlayInv'
    OBVIOUS
  <2>1. CASE StartGame
    BY <2>1, StartDone
  <2>2. CASE NothingTurn
    BY <2>2, NothingDone
  <2>3. CASE \E who \in SUBSET PlayerId \ {{}} : BombTurn(who)
    <3>1. PICK who \in SUBSET PlayerId : BombTurn(who)
      BY <2>3
    <3> QED
      BY <3>1, BombDone
  <2>4. CASE \E i \in PlayerId : BlockTurn(i) \/ \E p \in Position : MoveTurn(i, p)
    <3>1. PICK i \in PlayerId : BlockTurn(i) \/ \E p \in Position : MoveTurn(i, p)
      BY <2>4
    <3>2. CASE BlockTurn(i)
      BY <3>2, BlockDone
    <3>3. CASE \E p \in Position : MoveTurn(i, p)
      <4>1. PICK p \in Position : MoveTurn(i, p)
        BY <3>3
      <4> QED
        BY <4>1, MoveDone
    <3> QED
      BY <3>1, <3>2, <3>3
  <2>5. CASE Listen /\ UNCHANGED serverVars
    BY <2>5, ListenDone
  <2>6. CASE UNCHANGED playVars
    BY <2>6, StillDone
  <2> QED
    BY <2>1, <2>2, <2>3, <2>4, <2>5, <2>6 DEF PlayNext
<1> QED
  BY <1>1, <1>2, PTL DEF PlaySpec

--------------------------------------------------------------------------------
(***************************************************************************)
(* The client's variables keep their types, for any server of these rules  *)
(* (server_listener, resolve, receive_game_ended).                         *)
(***************************************************************************)
THEOREM PlayTypes == PlaySpec => []ClientTypeOK
<1>1. PlayInv => ClientTypeOK
  <2> SUFFICES ASSUME PlayInv
               PROVE  ClientTypeOK
    OBVIOUS
  <2>1. Served /\ Kept /\ Phases
    BY DEF PlayInv
  <2>2. Last \in Seq(Message)
    <3>1. GameEnded(<<>>) \in Message
      BY DEF GameEnded, Message
    <3> QED
      BY <3>1 DEF Last
  <2>3. FirstTurn \in Message
    <3>1. \A k \in 1 .. PlayersCount : PlayerMoved(k - 1, Origin) \in Event
      BY DEF PlayerMoved, Event, AnyId, PlayerId, Origin, Position
    <3>2. [k \in 1 .. PlayersCount |-> PlayerMoved(k - 1, Origin)] \in Seq(Event)
      BY <3>1
    <3> QED
      BY <3>2 DEF FirstTurn, Turn, Message
  <2>4. ASSUME Called
        PROVE  inbox \in Seq(Message)
    <3>1. PICK players \in [PlayerId -> Names] : inbox = <<GameStarted(players), FirstTurn>>
      BY <2>4 DEF Called
    <3>2. players \in PlayerMap
      <4>1. PlayersCount \in 0 .. PlayersCount /\ players \in [0 .. (PlayersCount - 1) -> Names]
        BY DEF PlayerId
      <4> QED
        BY <4>1 DEF PlayerMap
    <3>3. GameStarted(players) \in Message
      BY <3>2 DEF GameStarted, Message
    <3> QED
      BY <2>3, <3>1, <3>3
  <2>5. ASSUME Coming
        PROVE  inbox \in Seq(Message)
    <3>1. PICK m \in Message : inbox = <<m>> \o Last
      BY <2>5 DEF Coming
    <3>2. PICK rest : rest = Last
      OBVIOUS
    <3>3. <<m>> \in Seq(Message) /\ rest \in Seq(Message)
      BY <2>2, <3>2
    <3> QED
      BY <3>1, <3>2, <3>3, ConcatProperties
  <2>6. inbox \in Seq(Message)
    <3>1. <<>> \in Seq(Message) /\ <<FirstTurn>> \in Seq(Message)
      BY <2>3
    <3>2. (Idle => inbox = <<>>) /\ (Ready => inbox = <<FirstTurn>>)
      BY DEF Idle, Ready
    <3>3. (Shown \/ Resting => inbox = Last) /\ (Over => inbox \in Seq(Message))
      BY DEF Shown, Resting, Over
    <3> QED
      BY <2>1, <2>2, <2>4, <2>5, <3>1, <3>2, <3>3 DEF Phases
  <2>7. listener \in {"reading", "lobby", "game", "dead"}
    BY <2>1 DEF Phases, Idle, Over, Called, Ready, Begun, Coming, Shown, Resting
  <2>8. status \in KnownStatus /\ outbox = <<>> /\ input = "waiting" /\ in_lobby \in BOOLEAN
    BY <2>1 DEF Kept
  <2>9. PICK D \in SUBSET PlayerId : status.player_positions \in [D -> Position]
    BY <2>8 DEF KnownStatus, Places
  <2>10. PICK B \in SUBSET Nat : status.bombs \in [B -> Bomb]
    BY <2>8 DEF KnownStatus, KnownBombs
  <2>11. PICK S \in SUBSET PlayerId : status.scores \in [S -> Nat]
    BY <2>8 DEF KnownStatus, Tallies
  <2>12. /\ status.turn \in Nat /\ status.players \in PlayerMap
         /\ status.blocks \in SUBSET Position /\ status.explosions \in SUBSET Position
         /\ status.players_scored \in SUBSET PlayerId
    BY <2>8 DEF KnownStatus
  <2>13. \A i \in DOMAIN status.player_positions :
           i \in AnyId /\ status.player_positions[i] \in Position
    BY <2>9 DEF AnyId
  <2>14. outbox \in Seq(InputMessage \cup {Join})
    BY <2>8
  <2> QED
    BY <2>6, <2>7, <2>8, <2>10, <2>11, <2>12, <2>13, <2>14 DEF ClientTypeOK
<1> QED
  BY PlayInvariant, <1>1, PTL

(***************************************************************************)
(* What is drawn.                                                          *)
(***************************************************************************)
LEMMA DrawnIsPictured ==
  ASSUME PlayInv, Drawing
  PROVE  Pictured(status)
BY DEF PlayInv, Drawing, Phases, Idle, Over, Called, Ready, Begun, Coming, Shown, Resting

(***************************************************************************)
(* On any board, whatever the players do, the client draws the robots and  *)
(* the blocks of the game that is on (resolve, receive_game_ended).        *)
(***************************************************************************)
THEOREM BoardRight == PlaySpec => []BoardDrawn
<1>1. PlayInv => BoardDrawn
  BY DrawnIsPictured DEF BoardDrawn, Pictured, Right
<1> QED
  BY PlayInvariant, <1>1, PTL

(***************************************************************************)
(* In the first game the explosions that are drawn are those of the turn,  *)
(* however many bombs share fields and blocks, in whatever order the       *)
(* server reports them (resolve(BombExploded), send_game).                 *)
(***************************************************************************)
THEOREM ExplosionsRight == PlaySpec => []ExplosionsDrawn
<1>1. PlayInv => ExplosionsDrawn
  BY DrawnIsPictured DEF ExplosionsDrawn, Pictured
<1> QED
  BY PlayInvariant, <1>1, PTL

(***************************************************************************)
(* In the first game the client counts a robot's deaths right: one for a   *)
(* turn, by however many bombs (players_scored).                           *)
(***************************************************************************)
THEOREM ScoresRight == PlaySpec => []ScoresDrawn
<1>1. PlayInv => ScoresDrawn
  BY DrawnIsPictured DEF ScoresDrawn, Pictured, Right
<1> QED
  BY PlayInvariant, <1>1, PTL

(***************************************************************************)
(* In the first game, with fuses that burn for a turn at least, the client *)
(* draws the bombs that have still to explode, each with its turns left:   *)
(* its own counting down never parts from the server's turns, and never    *)
(* wraps (send_game, resolve(BombPlaced)).                                 *)
(***************************************************************************)
THEOREM FusesRight ==
  ASSUME BombTimer # 0
  PROVE  PlaySpec => []FusesDrawn
<1>1. PlayInv => FusesDrawn
  <2> SUFFICES ASSUME PlayInv, Drawing, games = 1
               PROVE  /\ DOMAIN status.bombs = {b \in 0 .. (Len(laid) - 1) : Fuse(b) > 0}
                      /\ \A b \in DOMAIN status.bombs :
                           status.bombs[b] = [position |-> laid[b + 1].position, timer |-> Fuse(b)]
    BY DEF FusesDrawn
  <2>1. Pictured(status) /\ Served
    BY DrawnIsPictured DEF PlayInv
  <2>2. status.turn \in Nat /\ BombTimer \in Nat
    BY <2>1 DEF Pictured, KnownStatus
  <2>3. status.bombs = [b \in Live(status.turn + 1) |-> Burning(b, status.turn)]
    BY <2>1 DEF Pictured, Right
  <2>4. ASSUME NEW b \in 0 .. (Len(laid) - 1)
        PROVE  b \in Live(status.turn + 1) <=> Fuse(b) > 0
    <3>1. laid[b + 1] \in Laid
      BY <2>1, BlownEvent
    <3>2. PICK t \in Nat : t = laid[b + 1].turn
      BY <3>1 DEF Laid
    <3>3. t + BombTimer >= status.turn + 1 <=> t + BombTimer - status.turn > 0
      BY <2>2
    <3> QED
      BY <3>2, <3>3 DEF Live, Fuse
  <2>5. Live(status.turn + 1) = {b \in 0 .. (Len(laid) - 1) : Fuse(b) > 0}
    BY <2>4 DEF Live
  <2>6. \A b : Burning(b, status.turn) = [position |-> laid[b + 1].position, timer |-> Fuse(b)]
    BY DEF Burning, Fuse
  <2> QED
    BY <2>3, <2>5, <2>6
<1> QED
  BY PlayInvariant, <1>1, PTL

(***************************************************************************)
(* In every game, the client knows every bomb and every player that an     *)
(* event names: resolve(BombExploded) never throws (bombs.at, scores.at),  *)
(* and nothing that is read ends the coroutine.                            *)
(***************************************************************************)
THEOREM NeverUnknown == PlaySpec => NothingUnknown
<1>1. PlayInv /\ [PlayNext]_playVars => [listener = "reading" => listener' # "dead"]_playVars
  <2> SUFFICES ASSUME PlayInv, PlayNext, listener = "reading"
               PROVE  listener' # "dead"
    OBVIOUS
  <2>1. CASE Listen
    <3>1. ReceiveTurnThrows => FALSE
      BY TurnPictured DEF ReceiveTurnThrows, Reads
    <3>2. ~ LobbyDrawn /\ ~ GameDrawn /\ ~ DrawingFails
      BY DEF LobbyDrawn, GameDrawn, DrawingFails
    <3>3. ReceiveHello \/ ReceiveAcceptedPlayer => listener' = "lobby"
      BY DEF ReceiveHello, ReceiveAcceptedPlayer
    <3>4. ReceiveGameStarted => listener' = "reading"
      BY DEF ReceiveGameStarted
    <3>5. ReceiveTurn => listener' = "game"
      BY DEF ReceiveTurn
    <3>6. ReceiveGameEnded => listener' = "lobby"
      BY DEF ReceiveGameEnded
    <3> QED
      BY <2>1, <3>1, <3>2, <3>3, <3>4, <3>5, <3>6 DEF Listen
  <2>2. CASE PlayNext /\ ~ Listen
    <3>1. listener' = listener
      BY <2>2 DEF PlayNext, StartGame, NothingTurn, BombTurn, BlockTurn, MoveTurn, PlayTurn, Write
    <3> QED
      BY <3>1
  <2> QED
    BY <2>1, <2>2
<1> QED
  BY PlayInvariant, <1>1, PTL DEF PlaySpec, NothingUnknown

(***************************************************************************)
(* draw puts a line of the score and a robot for each player that has a    *)
(* score and a position.                                                   *)
(***************************************************************************)
LEMMA WhatIsOnScreen ==
  ASSUME NEW d, d.variant = "Game"
  PROVE  /\ {f \in Window!Renderables(d) : f.what = "Score"} = Window!Scores(d)
         /\ {f \in Window!Renderables(d) : f.what = "Player"} = Window!Robots(d)
<1>1. \A what, positions, color, e : e \in Window!Spawned(positions, what, color) => e.what = what
  BY DEF Window!Spawned
<1>2. ASSUME NEW e \in Window!Scores(d)
      PROVE  e.what = "Score"
  <2>1. PICK i \in Window!DrawnPlayers(d) :
          e \in Window!Spawned({<<i>>}, "Score", Window!ColorOf(d, i))
    BY DEF Window!Scores
  <2> QED
    BY <1>1, <2>1
<1>3. ASSUME NEW e \in Window!Robots(d)
      PROVE  e.what = "Player"
  <2>1. PICK i \in Window!DrawnPlayers(d) :
          e \in Window!Spawned({d.positions[i]}, "Player", Window!ColorOf(d, i))
    BY DEF Window!Robots
  <2> QED
    BY <1>1, <2>1
<1>4. Window!Label("Turn").what = "Turn"
  BY DEF Window!Label
<1>5. Window!Renderables(d) =
        {Window!Label("Turn")} \cup Window!Scores(d)
          \cup Window!Spawned(Window!Grid(d), "Grid", "White")
          \cup Window!Spawned(d.blocks, "Block", "DarkGray")
          \cup Window!Spawned(d.explosions, "Explosion", "Black")
          \cup Window!Spawned(d.bombs, "Bomb", "Red")
          \cup Window!Robots(d)
  BY DEF Window!Renderables
<1> QED
  BY <1>1, <1>2, <1>3, <1>4, <1>5

(***************************************************************************)
(* In every game no player is missing on the screen, and every robot is    *)
(* where the server has it: whoever has a name has a score and a position  *)
(* by the first drawing (receive_game_started, draw).                      *)
(***************************************************************************)
THEOREM EverybodyDrawn == PlaySpec => []NobodyLeftOut
<1>1. PlayInv => NobodyLeftOut
  <2> SUFFICES ASSUME PlayInv, Drawing
               PROVE  /\ OnScreen("Score") = {<<i>> : i \in PlayerId}
                      /\ OnScreen("Player") = {At(robots[i]) : i \in PlayerId}
    BY DEF NobodyLeftOut
  <2>1. Pictured(status) /\ robots \in [PlayerId -> Position]
    BY DrawnIsPictured DEF PlayInv, Served
  <2>2. /\ status.player_positions = robots
        /\ DOMAIN status.players = PlayerId /\ DOMAIN status.scores = PlayerId
    BY <2>1 DEF Pictured, Right
  <2>3. PICK d : d = Displayed
    OBVIOUS
  <2>4. /\ d.variant = "Game" /\ d.players = PlayerId /\ d.scored = PlayerId
        /\ d.positions = [i \in PlayerId |-> At(robots[i])]
    BY <2>1, <2>2, <2>3 DEF Displayed
  <2>5. Window!DrawnPlayers(d) = PlayerId
    BY <2>4 DEF Window!DrawnPlayers
  <2>6. OnScreen("Score") = {e.position : e \in Window!Scores(d)}
    BY <2>3, <2>4, WhatIsOnScreen DEF OnScreen
  <2>7. OnScreen("Player") = {e.position : e \in Window!Robots(d)}
    BY <2>3, <2>4, WhatIsOnScreen DEF OnScreen
  <2>8. {e.position : e \in Window!Scores(d)} = {<<i>> : i \in PlayerId}
    <3>1. ASSUME NEW e \in Window!Scores(d)
          PROVE  \E i \in PlayerId : e.position = <<i>>
      <4>1. PICK i \in PlayerId : e \in Window!Spawned({<<i>>}, "Score", Window!ColorOf(d, i))
        BY <2>5 DEF Window!Scores
      <4> QED
        BY <4>1 DEF Window!Spawned
    <3>2. ASSUME NEW i \in PlayerId
          PROVE  \E e \in Window!Scores(d) : e.position = <<i>>
      <4>1. PICK e : e = [what |-> "Score", position |-> <<i>>, color |-> Window!ColorOf(d, i)]
        OBVIOUS
      <4>2. e \in Window!Spawned({<<i>>}, "Score", Window!ColorOf(d, i))
        BY <4>1 DEF Window!Spawned
      <4>3. e \in Window!Scores(d)
        BY <2>5, <4>2 DEF Window!Scores
      <4> QED
        BY <4>1, <4>3
    <3> QED
      BY <3>1, <3>2
  <2>9. {e.position : e \in Window!Robots(d)} = {At(robots[i]) : i \in PlayerId}
    <3>1. ASSUME NEW e \in Window!Robots(d)
          PROVE  \E i \in PlayerId : e.position = At(robots[i])
      <4>1. PICK i \in PlayerId : e \in Window!Spawned({d.positions[i]}, "Player", Window!ColorOf(d, i))
        BY <2>5 DEF Window!Robots
      <4> QED
        BY <2>4, <4>1 DEF Window!Spawned
    <3>2. ASSUME NEW i \in PlayerId
          PROVE  \E e \in Window!Robots(d) : e.position = At(robots[i])
      <4>1. PICK e : e = [what |-> "Player", position |-> d.positions[i], color |-> Window!ColorOf(d, i)]
        OBVIOUS
      <4>2. e \in Window!Spawned({d.positions[i]}, "Player", Window!ColorOf(d, i))
        BY <4>1 DEF Window!Spawned
      <4>3. e \in Window!Robots(d)
        BY <2>5, <4>2 DEF Window!Robots
      <4> QED
        BY <2>4, <4>1, <4>3
    <3> QED
      BY <3>1, <3>2
  <2> QED
    BY <2>6, <2>7, <2>8, <2>9
<1> QED
  BY PlayInvariant, <1>1, PTL
================================================================================
