---------------------------- MODULE RoomFeedProofs ----------------------------
(***************************************************************************)
(* GameRoom, with the feeds of its connections, implements Broadcast: for  *)
(* every number of sessions and players and every length of the game, a    *)
(* session that comes late has been told what the others have been told.   *)
(***************************************************************************)
EXTENDS RoomFeed, GameRoomProofs

(***************************************************************************)
(* A feed is a sequence of messages, and a session that is not attached    *)
(* has an empty one: Connect then begins it with Hello.                    *)
(***************************************************************************)
FeedInv ==
  /\ feed \in [Session -> Seq(Message)]
  /\ \A s \in Session \ players : feed[s] = <<>>
  /\ CaughtUp

--------------------------------------------------------------------------------
(***************************************************************************)
(* The ends of sequences.                                                  *)
(***************************************************************************)
LEMMA EndOfConcat ==
  ASSUME NEW S, NEW s \in Seq(S), NEW t \in Seq(S)
  PROVE  B!EndsWith(s \o t, t)
  BY ConcatProperties, LenProperties DEF B!EndsWith

LEMMA EndsExtended ==
  ASSUME NEW S, NEW s \in Seq(S), NEW t \in Seq(S), NEW u \in Seq(S), B!EndsWith(s, t)
  PROVE  B!EndsWith(s \o u, t \o u)
<1> DEFINE m == Len(s)  n == Len(t)  l == Len(u)
<1>1. m \in Nat /\ n \in Nat /\ l \in Nat /\ n <= m
  BY LenProperties DEF B!EndsWith
<1>2. /\ Len(s \o u) = m + l /\ Len(t \o u) = n + l
      /\ \A i \in 1 .. (m + l) : (s \o u)[i] = IF i <= m THEN s[i] ELSE u[i - m]
      /\ \A i \in 1 .. (n + l) : (t \o u)[i] = IF i <= n THEN t[i] ELSE u[i - n]
  BY ConcatProperties
<1>3. \A i \in 1 .. n : s[m - n + i] = t[i]
  BY DEF B!EndsWith
<1> HIDE DEF m, n, l
<1>4. ASSUME NEW i \in 1 .. (n + l)
      PROVE  (s \o u)[(m + l) - (n + l) + i] = (t \o u)[i]
  <2>1. (m + l) - (n + l) + i = m - n + i /\ m - n + i \in 1 .. (m + l)
    BY <1>1
  <2>2. CASE i <= n
    <3>1. m - n + i <= m /\ i \in 1 .. n
      BY <1>1, <2>2
    <3> QED
      BY <1>2, <1>3, <2>1, <2>2, <3>1
  <2>3. CASE ~ (i <= n)
    <3>1. ~ (m - n + i <= m) /\ (m - n + i) - m = i - n
      BY <1>1, <2>3
    <3> QED
      BY <1>2, <2>1, <2>3, <3>1
  <2> QED
    BY <2>2, <2>3
<1> QED
  BY <1>1, <1>2, <1>4 DEF B!EndsWith

LEMMA OneMore ==
  ASSUME NEW S, NEW n \in Nat, NEW f \in [1 .. n -> S], NEW m \in S, NEW g,
         g = [k \in 1 .. (n + 1) |-> IF k <= n THEN f[k] ELSE m]
  PROVE  f \in Seq(S) /\ g = f \o <<m>>
<1>1. f \in Seq(S) /\ Len(f) = n
  BY FunctionIsSequence
<1>2. g \in [1 .. (n + 1) -> S]
  OBVIOUS
<1>3. g \in Seq(S) /\ Len(g) = n + 1
  BY <1>2, FunctionIsSequence
<1>4. <<m>> \in Seq(S) /\ Len(<<m>>) = 1 /\ <<m>>[1] = m
  OBVIOUS
<1>5. /\ f \o <<m>> \in Seq(S) /\ Len(f \o <<m>>) = n + 1
      /\ \A i \in 1 .. (n + 1) :
           (f \o <<m>>)[i] = IF i <= n THEN f[i] ELSE <<m>>[i - n]
  BY <1>1, <1>4, ConcatProperties
<1>6. \A i \in 1 .. (n + 1) : (f \o <<m>>)[i] = g[i]
  <2> SUFFICES ASSUME NEW i \in 1 .. (n + 1)
               PROVE  (f \o <<m>>)[i] = g[i]
    OBVIOUS
  <2>1. i <= n \/ i - n = 1
    OBVIOUS
  <2> QED
    BY <1>4, <1>5, <2>1
<1> QED
  BY <1>1, <1>3, <1>5, <1>6, SeqEqual

LEMMA PairOf ==
  ASSUME NEW S, NEW a \in S, NEW b \in S
  PROVE  <<a>> \o <<b>> = <<a, b>>
<1>1. /\ <<a>> \in Seq(S) /\ Len(<<a>>) = 1 /\ <<a>>[1] = a
      /\ <<b>> \in Seq(S) /\ Len(<<b>>) = 1 /\ <<b>>[1] = b
      /\ <<a, b>> \in Seq(S) /\ Len(<<a, b>>) = 2 /\ <<a, b>>[1] = a /\ <<a, b>>[2] = b
  OBVIOUS
<1>2. /\ <<a>> \o <<b>> \in Seq(S) /\ Len(<<a>> \o <<b>>) = 2
      /\ (<<a>> \o <<b>>)[1] = a /\ (<<a>> \o <<b>>)[2] = b
  BY <1>1, ConcatProperties
<1>3. \A i \in 1 .. 2 : (<<a>> \o <<b>>)[i] = <<a, b>>[i]
  <2>1. \A i \in 1 .. 2 : i = 1 \/ i = 2
    OBVIOUS
  <2> QED
    BY <1>1, <1>2, <2>1
<1> QED
  BY <1>1, <1>2, <1>3, SeqEqual

LEMMA TripleOf ==
  ASSUME NEW S, NEW a \in S, NEW b \in S, NEW c \in S
  PROVE  <<a>> \o <<b, c>> = <<a, b, c>>
<1>1. /\ <<a>> \in Seq(S) /\ Len(<<a>>) = 1 /\ <<a>>[1] = a
      /\ <<b, c>> \in Seq(S) /\ Len(<<b, c>>) = 2 /\ <<b, c>>[1] = b /\ <<b, c>>[2] = c
      /\ <<a, b, c>> \in Seq(S) /\ Len(<<a, b, c>>) = 3
      /\ <<a, b, c>>[1] = a /\ <<a, b, c>>[2] = b /\ <<a, b, c>>[3] = c
  OBVIOUS
<1>2. /\ <<a>> \o <<b, c>> \in Seq(S) /\ Len(<<a>> \o <<b, c>>) = 3
      /\ (<<a>> \o <<b, c>>)[1] = a
      /\ (<<a>> \o <<b, c>>)[2] = b
      /\ (<<a>> \o <<b, c>>)[3] = c
  BY <1>1, ConcatProperties
<1>3. \A i \in 1 .. 3 : (<<a>> \o <<b, c>>)[i] = <<a, b, c>>[i]
  <2>1. \A i \in 1 .. 3 : i = 1 \/ i = 2 \/ i = 3
    OBVIOUS
  <2> QED
    BY <1>1, <1>2, <2>1
<1> QED
  BY <1>1, <1>2, <1>3, SeqEqual

LEMMA EndOfEnd ==
  ASSUME NEW S, NEW s \in Seq(S), NEW a, NEW b, NEW c, B!EndsWith(s, <<a, b, c>>)
  PROVE  B!EndsWith(s, <<b, c>>)
<1>1. Len(s) \in Nat /\ 3 <= Len(s)
  BY LenProperties DEF B!EndsWith
<1>2. \A i \in 1 .. 3 : s[Len(s) - 3 + i] = <<a, b, c>>[i]
  BY DEF B!EndsWith
<1>3. s[Len(s) - 3 + 2] = b /\ s[Len(s) - 3 + 3] = c
  BY <1>2
<1>4. s[Len(s) - 2 + 1] = b /\ s[Len(s) - 2 + 2] = c
  BY <1>1, <1>3
<1>5. \A i \in 1 .. 2 : i = 1 \/ i = 2
  OBVIOUS
<1>6. \A i \in 1 .. 2 : s[Len(s) - 2 + i] = <<b, c>>[i]
  BY <1>4, <1>5
<1> QED
  BY <1>1, <1>6 DEF B!EndsWith

LEMMA NewsOfConcat ==
  ASSUME NEW S, NEW s \in Seq(S), NEW t \in Seq(S)
  PROVE  SubSeq(s \o t, Len(s) + 1, Len(s \o t)) = t
<1>1. Len(s) \in Nat /\ Len(t) \in Nat /\ Len(s \o t) = Len(s) + Len(t)
  BY ConcatProperties, LenProperties
<1>2. s \o t \in Seq(S)
  BY ConcatProperties
<1> DEFINE n == SubSeq(s \o t, Len(s) + 1, Len(s \o t))
<1>3. \A i \in (Len(s) + 1) .. Len(s \o t) : (s \o t)[i] \in S
  BY <1>1, <1>2, ElementOfSeq
<1>4. /\ n \in Seq(S) /\ Len(n) = Len(t)
      /\ \A i \in 1 .. Len(t) : n[i] = (s \o t)[Len(s) + i]
  BY <1>1, <1>3, SubSeqProperties
<1>5. \A i \in 1 .. Len(t) : (s \o t)[Len(s) + i] = t[i]
  BY <1>1, ConcatProperties
<1> QED
  BY <1>4, <1>5, SeqEqual

--------------------------------------------------------------------------------
(***************************************************************************)
(* The feeds after a handler that tells nobody, and after one that tells   *)
(* every session the messages ms, the last of which is not GameEnded.      *)
(***************************************************************************)
LEMMA NobodyTold ==
  ASSUME FeedInv, sent' = Quiet, UNCHANGED players,
         feed' = [s \in Session |-> Told(s)]
  PROVE  feed' = feed
<1>1. \A s \in Session : sent'[s] = <<>>
  BY DEF Quiet
<1>2. \A s \in Session : Told(s) = feed[s]
  <2> SUFFICES ASSUME NEW s \in Session
               PROVE  Told(s) = feed[s]
    OBVIOUS
  <2>1. feed[s] \o <<>> = feed[s]
    BY ConcatEmptySeq DEF FeedInv
  <2> QED
    BY <1>1, <2>1 DEF Told, Ends, FeedInv
<1> QED
  BY <1>2 DEF FeedInv

LEMMA EverybodyTold ==
  ASSUME FeedInv, NEW ms \in Seq(Message), ms # <<>>, ms[Len(ms)].type # "GameEnded",
         sent' = SendAll(ms), UNCHANGED players,
         feed' = [s \in Session |-> Told(s)]
  PROVE  feed' = [s \in Session |-> IF s \in players THEN feed[s] \o ms ELSE feed[s]]
<1>1. \A s \in Session : Told(s) = IF s \in players THEN feed[s] \o ms ELSE feed[s]
  BY DEF Told, Ends, SendAll, FeedInv
<1> QED
  BY <1>1

(***************************************************************************)
(* A handler that adds ms to the catch-up and tells everybody is Publish.  *)
(***************************************************************************)
LEMMA PublishStep ==
  ASSUME IInv, FeedInv, NEW ms \in Seq(Message), ms # <<>>, ms[Len(ms)].type # "GameEnded",
         sent' = SendAll(ms), UNCHANGED <<players, in_progress>>,
         feed' = [s \in Session |-> Told(s)],
         Catchup' = Catchup \o ms
  PROVE  B!Publish /\ FeedInv'
<1>1. Catchup \in Seq(Message)
  BY CatchupType DEF IInv
<1>2. feed' = [s \in Session |-> IF s \in players THEN feed[s] \o ms ELSE feed[s]]
  BY EverybodyTold
<1>3. B!News = ms
  BY <1>1, NewsOfConcat DEF B!News
<1>4. B!Publish
  BY <1>2, <1>3 DEF B!Publish
<1>5. feed' \in [Session -> Seq(Message)]
  <2>1. \A s \in Session : feed[s] \in Seq(Message) /\ feed[s] \o ms \in Seq(Message)
    BY ConcatProperties DEF FeedInv
  <2> DEFINE Messages == Seq(Message)
  <2>2. \A s \in Session : feed[s] \in Messages /\ feed[s] \o ms \in Messages
    BY <2>1
  <2> HIDE DEF Messages
  <2>3. feed' \in [Session -> Messages]
    BY <1>2, <2>2
  <2> QED
    BY <2>3 DEF Messages
<1>6. CaughtUp'
  <2> SUFFICES ASSUME NEW s \in players
               PROVE  B!EndsWith(feed'[s], Catchup')
    BY DEF CaughtUp, B!CaughtUp
  <2>1. s \in Session /\ feed'[s] = feed[s] \o ms
    BY <1>2 DEF IInv, TypeOK
  <2>2. feed[s] \in Seq(Message) /\ B!EndsWith(feed[s], Catchup)
    BY <2>1 DEF FeedInv, CaughtUp, B!CaughtUp
  <2> QED
    BY <1>1, <2>1, <2>2, EndsExtended
<1> QED
  BY <1>2, <1>4, <1>5, <1>6 DEF FeedInv

--------------------------------------------------------------------------------
(***************************************************************************)
(* Step by step.  A new session is told Hello and the catch-up.            *)
(***************************************************************************)
LEMMA CatchupEnd ==
  ASSUME IInv
  PROVE  \A k \in 1 .. Len(Catchup) : Catchup[k].type # "GameEnded"
<1>1. CASE in_progress
  <2>1. Catchup = <<GameStarted(game_players)>> \o TurnMessages
    BY <1>1 DEF Catchup
  <2>2. /\ TurnMessages \in Seq(Message)
        /\ \A k \in 1 .. Len(TurnMessages) : TurnMessages[k].type = "Turn"
    <3>1. Len(turns) \in Nat /\ \A k \in 1 .. Len(turns) : turns[k] \in Seq(Event)
      <4> DEFINE Events == Seq(Event)
      <4>1. turns \in Seq(Events)
        BY DEF IInv, TypeOK
      <4> HIDE DEF Events
      <4>2. Len(turns) \in Nat /\ \A k \in 1 .. Len(turns) : turns[k] \in Events
        BY <4>1, LenProperties, ElementOfSeq
      <4> QED
        BY <4>2 DEF Events
    <3>2. \A k \in 1 .. Len(turns) : Turn(k - 1, turns[k]) \in Message
      BY <3>1, MessageTypes
    <3>3. TurnMessages \in [1 .. Len(turns) -> Message]
      BY <3>2 DEF TurnMessages
    <3>4. TurnMessages \in Seq(Message) /\ Len(TurnMessages) = Len(turns)
      BY <3>1, <3>3, FunctionIsSequence
    <3> QED
      BY <3>4 DEF TurnMessages, Turn
  <2>3. <<GameStarted(game_players)>> \in Seq(Message)
    BY GameMap, MessageTypes DEF IInv
  <2>4. Len(<<GameStarted(game_players)>>) = 1
        /\ <<GameStarted(game_players)>>[1].type = "GameStarted"
    BY DEF GameStarted
  <2> DEFINE first == <<GameStarted(game_players)>>
  <2>5. SUFFICES ASSUME NEW k \in 1 .. Len(Catchup)
                 PROVE  Catchup[k].type # "GameEnded"
    OBVIOUS
  <2> HIDE DEF first
  <2>6. first \in Seq(Message) /\ Len(first) = 1 /\ first[1].type = "GameStarted"
    BY <2>3, <2>4 DEF first
  <2>7. Len(TurnMessages) \in Nat
    BY <2>2, LenProperties
  <2>8. /\ Len(Catchup) = 1 + Len(TurnMessages)
        /\ \A j \in 1 .. Len(Catchup) :
             Catchup[j] = IF j <= 1 THEN first[j] ELSE TurnMessages[j - 1]
    <3>1. /\ Len(first \o TurnMessages) = Len(first) + Len(TurnMessages)
          /\ \A j \in 1 .. Len(first) + Len(TurnMessages) :
               (first \o TurnMessages)[j] =
                 IF j <= Len(first) THEN first[j] ELSE TurnMessages[j - Len(first)]
      BY <2>2, <2>6, ConcatProperties
    <3> QED
      BY <2>1, <2>6, <3>1 DEF first
  <2>9. CASE k = 1
    BY <2>6, <2>8, <2>9
  <2>10. CASE k # 1
    <3>1. k - 1 \in 1 .. Len(TurnMessages) /\ ~ (k <= 1)
      BY <2>7, <2>8, <2>10
    <3>2. Catchup[k] = TurnMessages[k - 1]
      BY <2>8, <3>1
    <3> QED
      BY <2>2, <3>1, <3>2
  <2> QED
    BY <2>9, <2>10
<1>2. CASE ~ in_progress
  <2>1. Catchup = [k \in 1 .. next_id |-> AcceptedPlayer(k - 1, game_players[k - 1])]
    BY <1>2 DEF Catchup, AcceptedPlayers
  <2>2. DOMAIN Catchup = 1 .. Len(Catchup)
    BY CatchupType, LenProperties DEF IInv
  <2> QED
    BY <2>1, <2>2 DEF AcceptedPlayer
<1> QED
  BY <1>1, <1>2

LEMMA ConnectStep ==
  ASSUME IInv, FeedInv, NEW s \in Session, Connect(s),
         feed' = [t \in Session |-> Told(t)]
  PROVE  B!Subscribe(s) /\ FeedInv'
<1> DEFINE ms == <<Hello>> \o Catchup
<1>1. Catchup \in Seq(Message) /\ Catchup' = Catchup
  BY CatchupType DEF IInv, Connect, Catchup, TurnMessages, AcceptedPlayers, statusVars, roomVars
<1>2. ms \in Seq(Message) /\ ms # <<>> /\ ms[Len(ms)].type # "GameEnded"
  <2>1. <<Hello>> \in Seq(Message) /\ Len(<<Hello>>) = 1 /\ <<Hello>>[1].type = "Hello"
    BY MessageTypes DEF Hello
  <2>2. /\ ms \in Seq(Message) /\ Len(ms) = 1 + Len(Catchup)
        /\ \A i \in 1 .. (1 + Len(Catchup)) :
             ms[i] = IF i <= 1 THEN <<Hello>>[i] ELSE Catchup[i - 1]
    BY <1>1, <2>1, ConcatProperties
  <2>3. Len(Catchup) \in Nat
    BY <1>1, LenProperties
  <2> QED
    BY <2>1, <2>2, <2>3, CatchupEnd, EmptySeq
<1> HIDE DEF ms
<1>3. sent' = [t \in Session |-> IF t = s THEN ms ELSE <<>>]
  BY DEF Connect, SendTo, Quiet, ms
<1>4. feed' = [feed EXCEPT ![s] = ms]
  <2>1. Told(s) = ms
    <3>1. feed[s] = <<>> /\ <<>> \o ms = ms
      BY <1>2, ConcatEmptySeq DEF FeedInv, Connect
    <3> QED
      BY <1>2, <1>3, <3>1 DEF Told, Ends, Connect
  <2>2. ASSUME NEW t \in Session, t # s
        PROVE  Told(t) = feed[t]
    <3>1. sent'[t] = <<>> /\ (t \in players' <=> t \in players)
      BY <1>3, <2>2 DEF Connect
    <3>2. feed[t] \o <<>> = feed[t]
      BY ConcatEmptySeq DEF FeedInv
    <3> QED
      BY <3>1, <3>2 DEF Told, Ends, FeedInv
  <2> QED
    BY <2>1, <2>2 DEF FeedInv
<1>5. B!Subscribe(s)
  BY <1>1, <1>4 DEF B!Subscribe, Connect, roomVars, ms
<1>6. CaughtUp'
  <2>1. B!EndsWith(ms, Catchup)
    <3>1. <<Hello>> \in Seq(Message)
      BY MessageTypes
    <3> QED
      BY <1>1, <3>1, EndOfConcat DEF ms
  <2>2. ASSUME NEW t \in players, t # s
        PROVE  B!EndsWith(feed[t], Catchup) /\ feed'[t] = feed[t]
    BY <1>4, <2>2 DEF FeedInv, CaughtUp, B!CaughtUp, IInv, TypeOK
  <2>3. feed'[s] = ms
    BY <1>4 DEF FeedInv
  <2> QED
    BY <1>1, <2>1, <2>2, <2>3 DEF CaughtUp, B!CaughtUp, Connect
<1> QED
  BY <1>2, <1>4, <1>5, <1>6 DEF FeedInv, Connect

(***************************************************************************)
(* A session goes.                                                         *)
(***************************************************************************)
LEMMA DisconnectStep ==
  ASSUME IInv, FeedInv, NEW s \in Session, Disconnect(s),
         feed' = [t \in Session |-> Told(t)]
  PROVE  B!Unsubscribe(s) /\ FeedInv'
<1>1. Catchup' = Catchup
  BY DEF Disconnect, Catchup, TurnMessages, AcceptedPlayers, statusVars, roomVars
<1>2. feed' = [feed EXCEPT ![s] = <<>>]
  <2>1. Told(s) = <<>>
    BY DEF Told, Disconnect
  <2>2. ASSUME NEW t \in Session, t # s
        PROVE  Told(t) = feed[t]
    <3>1. sent'[t] = <<>> /\ (t \in players' <=> t \in players)
      BY <2>2 DEF Disconnect, Quiet
    <3>2. feed[t] \o <<>> = feed[t]
      BY ConcatEmptySeq DEF FeedInv
    <3> QED
      BY <3>1, <3>2 DEF Told, Ends, FeedInv
  <2> QED
    BY <2>1, <2>2 DEF FeedInv
<1>3. B!Unsubscribe(s)
  BY <1>1, <1>2 DEF B!Unsubscribe, Disconnect, roomVars
<1>4. CaughtUp'
  BY <1>1, <1>2 DEF FeedInv, CaughtUp, B!CaughtUp, Disconnect, IInv, TypeOK
<1>5. feed' \in [Session -> Seq(Message)]
  BY <1>2, EmptySeq DEF FeedInv
<1> QED
  BY <1>2, <1>3, <1>4, <1>5 DEF FeedInv, Disconnect

(***************************************************************************)
(* The handlers that tell nobody: a stutter of Broadcast.                  *)
(***************************************************************************)
LEMMA QuietStep ==
  ASSUME IInv, FeedInv, feed' = [t \in Session |-> Told(t)],
         sent' = Quiet, UNCHANGED <<players, statusVars, roomVars>>
  PROVE  UNCHANGED B!vars /\ FeedInv'
<1>1. feed' = feed
  BY NobodyTold
<1>2. Catchup' = Catchup
  BY DEF Catchup, TurnMessages, AcceptedPlayers, statusVars, roomVars
<1>3. UNCHANGED B!vars
  BY <1>1, <1>2 DEF B!vars, roomVars
<1> QED
  BY <1>1, <1>2, <1>3 DEF FeedInv, CaughtUp, B!CaughtUp

(***************************************************************************)
(* A player joins a lobby that is not full yet.                            *)
(***************************************************************************)
LEMMA JoinLobbyStep ==
  ASSUME IInv, FeedInv, NEW s \in Session, NEW n \in Names, JoinLobby(s, n),
         feed' = [t \in Session |-> Told(t)]
  PROVE  B!Publish /\ FeedInv'
<1> DEFINE m == AcceptedPlayer(next_id, n)
<1>1. Accept(s, n) /\ ~ in_progress /\ UNCHANGED <<players, in_progress>>
  BY DEF JoinLobby, Accept, Receive
<1>2. m \in Message /\ m.type = "AcceptedPlayer"
  BY <1>1, AcceptFacts, MessageTypes DEF AcceptedPlayer
<1>3. next_id \in Nat /\ next_id' = next_id + 1
  BY DEF JoinLobby, Accept, IInv, TypeOK
<1>4. game_players' = [k \in 0 .. next_id |-> IF k < next_id THEN game_players[k] ELSE n]
  <2>1. DOMAIN game_players = 0 .. (next_id - 1)
    BY DEF IInv, GameIsFull
  <2>2. 0 .. next_id = 0 .. (next_id - 1) \cup {next_id}
    BY <1>3
  <2>3. \A k \in 0 .. next_id : k \in 0 .. (next_id - 1) <=> k < next_id
    BY <1>3
  <2> QED
    BY <1>1, <2>1, <2>2, <2>3 DEF Accept, Insert
<1>5. /\ Catchup = [k \in 1 .. next_id |-> AcceptedPlayer(k - 1, game_players[k - 1])]
      /\ Catchup' = [k \in 1 .. next_id' |-> AcceptedPlayer(k - 1, game_players'[k - 1])]
  BY <1>1 DEF Catchup, AcceptedPlayers
<1>6. Catchup \in [1 .. next_id -> Message]
  <2>1. Catchup \in Seq(Message) /\ DOMAIN Catchup = 1 .. next_id
    BY <1>5, CatchupType DEF IInv
  <2>2. Catchup \in [1 .. Len(Catchup) -> Message] /\ DOMAIN Catchup = 1 .. Len(Catchup)
    BY <2>1, LenProperties
  <2> QED
    BY <2>1, <2>2
<1>7. Catchup' = [k \in 1 .. (next_id + 1) |-> IF k <= next_id THEN Catchup[k] ELSE m]
  <2>1. ASSUME NEW k \in 1 .. (next_id + 1)
        PROVE  AcceptedPlayer(k - 1, game_players'[k - 1]) =
                 IF k <= next_id THEN Catchup[k] ELSE m
    <3>1. k - 1 \in 0 .. next_id /\ (k - 1 < next_id <=> k <= next_id)
      BY <1>3
    <3>2. CASE k <= next_id
      BY <1>3, <1>4, <1>5, <3>1, <3>2
    <3>3. CASE ~ (k <= next_id)
      <4>1. k - 1 = next_id
        BY <1>3, <3>3
      <4> QED
        BY <1>4, <3>1, <3>3, <4>1
    <3> QED
      BY <3>2, <3>3
  <2> QED
    BY <1>3, <1>5, <2>1
<1>8. Catchup' = Catchup \o <<m>>
  BY <1>2, <1>3, <1>6, <1>7, OneMore
<1>9. /\ <<m>> \in Seq(Message) /\ <<m>> # <<>>
      /\ <<m>>[Len(<<m>>)].type # "GameEnded"
      /\ sent' = SendAll(<<m>>)
  BY <1>2 DEF JoinLobby
<1> HIDE DEF m
<1> QED
  BY <1>1, <1>8, <1>9, PublishStep

(***************************************************************************)
(* The last player starts the game: a new epoch, whose log everybody has   *)
(* been told.                                                              *)
(***************************************************************************)
LEMMA JoinStartStep ==
  ASSUME IInv, FeedInv, NEW s \in Session, NEW n \in Names, JoinStart(s, n),
         feed' = [t \in Session |-> Told(t)]
  PROVE  B!Rewrite /\ FeedInv'
<1> DEFINE m == AcceptedPlayer(next_id, n)
           g == GameStarted(game_players')
           t0 == Turn(0, StartEvents)
           ms == <<m, g, t0>>
<1>1. Accept(s, n) /\ ~ in_progress /\ in_progress' /\ UNCHANGED players
  BY DEF JoinStart, Accept, Receive
<1>2. StartEvents \in Seq(Event)
  BY StartEventsType DEF IInv, TypeOK
<1>3. m \in Message /\ g \in Message /\ t0 \in Message /\ t0.type = "Turn"
  BY <1>1, <1>2, AcceptFacts, MessageTypes DEF Turn
<1>4. Catchup' = <<g, t0>>
  <2>1. turns' = <<StartEvents>>
    <3>1. SubSeq(turns, 2, Len(turns)) = <<>>
      BY <1>1 DEF IInv, TurnsNumbered
    <3>2. <<StartEvents>> \o <<>> = <<StartEvents>>
      BY <1>2, ConcatEmptySeq
    <3> QED
      BY <3>1, <3>2 DEF JoinStart
  <2>2. TurnMessages' = [k \in 1 .. 1 |-> Turn(k - 1, turns'[k])]
    BY <2>1 DEF TurnMessages
  <2>3. TurnMessages' = <<t0>>
    BY <2>1, <2>2
  <2>4. <<g>> \o <<t0>> = <<g, t0>>
    <3> HIDE DEF m, g, t0
    <3> QED
      BY <1>3, PairOf
  <2> QED
    BY <1>1, <2>3, <2>4 DEF Catchup
<1> HIDE DEF m, g, t0
<1>5. ms \in Seq(Message) /\ ms # <<>> /\ Len(ms) = 3 /\ ms[Len(ms)].type # "GameEnded"
  BY <1>3
<1>6. sent' = SendAll(ms)
  BY DEF JoinStart, m, g, t0
<1>7. feed' = [t \in Session |-> IF t \in players THEN feed[t] \o ms ELSE feed[t]]
  <2> HIDE DEF ms
  <2> QED
    BY <1>1, <1>5, <1>6, EverybodyTold
<1>8. ASSUME NEW t \in players
      PROVE  B!EndsWith(feed'[t], Catchup') /\ feed'[t] \in Seq(Message)
  <2>1. t \in Session /\ feed[t] \in Seq(Message)
    BY DEF IInv, TypeOK, FeedInv
  <2>2. feed'[t] = feed[t] \o ms
    BY <1>7, <2>1
  <2>3. feed'[t] \in Seq(Message) /\ B!EndsWith(feed'[t], ms)
    <3> HIDE DEF ms
    <3> QED
      BY <1>5, <2>1, <2>2, ConcatProperties, EndOfConcat
  <2> QED
    BY <1>4, <2>3, EndOfEnd
<1>9. CaughtUp'
  BY <1>1, <1>8 DEF CaughtUp, B!CaughtUp
<1>10. B!Rewrite
  BY <1>1, <1>7, <1>8 DEF B!Rewrite
<1>11. feed' \in [Session -> Seq(Message)]
  <2> DEFINE Messages == Seq(Message)
  <2>1. \A t \in Session : feed'[t] \in Messages
    BY <1>7, <1>8 DEF FeedInv
  <2> HIDE DEF Messages
  <2>2. feed' \in [Session -> Messages]
    BY <1>7, <2>1
  <2> QED
    BY <2>2 DEF Messages
<1> QED
  BY <1>1, <1>7, <1>9, <1>10, <1>11 DEF FeedInv

(***************************************************************************)
(* A turn is sent to everybody and kept.                                   *)
(***************************************************************************)
LEMMA NextTurnStep ==
  ASSUME IInv, FeedInv, NextTurn, feed' = [t \in Session |-> Told(t)]
  PROVE  B!Publish /\ FeedInv'
<1> DEFINE m == Turn(turn, TurnEvents)
<1>1. in_progress /\ turn = Len(turns) /\ turn \in Nat
  BY DEF IInv, OneTimer, TurnsNumbered, NextTurn
<1>2. TurnEvents \in Seq(Event) /\ m \in Message /\ m.type = "Turn"
  BY <1>1, TurnEventsType, MessageTypes DEF IInv, Turn
<1>3. /\ Len(turns') = turn + 1
      /\ turns'[turn + 1] = TurnEvents
      /\ \A k \in 1 .. turn : turns'[k] = turns[k] /\ turns[k] \in Seq(Event)
  <2> DEFINE Events == Seq(Event)
  <2>1. turns \in Seq(Events) /\ TurnEvents \in Events /\ turns' = Append(turns, TurnEvents)
    BY <1>2 DEF IInv, TypeOK, NextTurn
  <2> HIDE DEF Events
  <2>2. /\ Len(turns') = turn + 1
        /\ turns'[turn + 1] = TurnEvents
        /\ \A k \in 1 .. turn : turns'[k] = turns[k] /\ turns[k] \in Events
    BY <1>1, <2>1, AppendProperties, ElementOfSeq
  <2> QED
    BY <2>2 DEF Events
<1>4. TurnMessages \in [1 .. turn -> Message]
  <2>1. \A k \in 1 .. turn : k - 1 \in Nat /\ turns[k] \in Seq(Event)
    <3>1. turn \in Nat
      BY <1>1
    <3>2. \A k \in 1 .. turn : k - 1 \in Nat
      BY <3>1
    <3> QED
      BY <1>3, <3>2
  <2>2. \A k \in 1 .. turn : Turn(k - 1, turns[k]) \in Message
    BY <2>1, MessageTypes
  <2> QED
    BY <1>1, <2>2 DEF TurnMessages
<1>5. TurnMessages' = [k \in 1 .. (turn + 1) |-> IF k <= turn THEN TurnMessages[k] ELSE m]
  <2>1. TurnMessages' = [k \in 1 .. (turn + 1) |-> Turn(k - 1, turns'[k])]
    BY <1>3 DEF TurnMessages
  <2>2. ASSUME NEW k \in 1 .. (turn + 1)
        PROVE  Turn(k - 1, turns'[k]) = IF k <= turn THEN TurnMessages[k] ELSE m
    <3>1. CASE k <= turn
      BY <1>1, <1>3, <3>1 DEF TurnMessages
    <3>2. CASE ~ (k <= turn)
      <4>1. k = turn + 1 /\ k - 1 = turn
        BY <1>1, <3>2
      <4> QED
        BY <1>3, <3>2, <4>1
    <3> QED
      BY <3>1, <3>2
  <2> QED
    BY <2>1, <2>2
<1> HIDE DEF m
<1>6. TurnMessages \in Seq(Message) /\ TurnMessages' = TurnMessages \o <<m>>
  <2>1. turn \in Nat /\ m \in Message
    BY <1>1, <1>2
  <2> QED
    BY <1>4, <1>5, <2>1, OneMore
<1>7. /\ <<m>> \in Seq(Message) /\ <<m>> # <<>>
      /\ <<m>>[Len(<<m>>)].type # "GameEnded"
      /\ sent' = SendAll(<<m>>)
      /\ UNCHANGED <<players, in_progress, game_players>>
  BY <1>2 DEF NextTurn, m, sessionVars
<1>8. Catchup' = Catchup \o <<m>>
  <2>1. <<GameStarted(game_players)>> \in Seq(Message)
    BY GameMap, MessageTypes DEF IInv
  <2>2. /\ Catchup = <<GameStarted(game_players)>> \o TurnMessages
        /\ Catchup' = <<GameStarted(game_players)>> \o (TurnMessages \o <<m>>)
    BY <1>1, <1>6, <1>7 DEF Catchup
  <2> QED
    BY <1>6, <1>7, <2>1, <2>2, ConcatAssociative
<1> QED
  BY <1>7, <1>8, PublishStep

(***************************************************************************)
(* After the last turn the log is empty again.                             *)
(***************************************************************************)
LEMMA LastTurnStep ==
  ASSUME IInv, FeedInv, LastTurn, feed' = [t \in Session |-> Told(t)]
  PROVE  B!Rewrite /\ FeedInv'
<1> DEFINE ms == <<Turn(turn, TurnEvents), GameEnded(<<>>)>>
<1>1. in_progress /\ ~ in_progress' /\ in_progress' \in BOOLEAN /\ UNCHANGED players
  BY DEF IInv, OneTimer, LastTurn, ResetState, sessionVars
<1>2. Catchup' = <<>>
  <2>1. next_id' = 0
    BY DEF LastTurn, ResetState
  <2>2. AcceptedPlayers' = <<>>
    BY <2>1 DEF AcceptedPlayers
  <2> QED
    BY <1>1, <2>2 DEF Catchup
<1>3. \A t \in Session : feed'[t] = IF t \in players THEN <<GameEnded(<<>>)>> ELSE <<>>
  <2>1. Len(ms) = 2 /\ ms[2] = GameEnded(<<>>) /\ ms[2].type = "GameEnded" /\ ms # <<>>
    BY DEF GameEnded
  <2>2. sent' = SendAll(ms)
    BY DEF LastTurn
  <2> HIDE DEF ms
  <2> QED
    BY <1>1, <2>1, <2>2 DEF Told, Ends, SendAll
<1>4. GameEnded(<<>>) \in Message
  BY MessageTypes
<1>5. feed' \in [Session -> Seq(Message)]
  <2> DEFINE Messages == Seq(Message)
  <2>1. <<GameEnded(<<>>)>> \in Messages /\ <<>> \in Messages
    BY <1>4
  <2> HIDE DEF Messages
  <2>2. \A t \in Session : feed'[t] \in Messages
    BY <1>3, <2>1
  <2>3. feed' \in [Session -> Messages]
    BY <2>2
  <2> QED
    BY <2>3 DEF Messages
<1>6. \A t \in players : B!EndsWith(feed'[t], Catchup')
  <2>1. \A t \in players : Len(feed'[t]) = 1
    BY <1>3 DEF IInv, TypeOK
  <2> QED
    BY <1>2, <2>1 DEF B!EndsWith
<1>7. \A t \in Session \ players : feed'[t] = feed[t]
  BY <1>3 DEF FeedInv
<1>8. B!Rewrite
  BY <1>1, <1>6, <1>7 DEF B!Rewrite
<1> QED
  BY <1>1, <1>3, <1>5, <1>6, <1>8 DEF FeedInv, CaughtUp, B!CaughtUp

--------------------------------------------------------------------------------
LEMMA FeedInitInv == FeedInit => B!Init /\ FeedInv
<1> SUFFICES ASSUME FeedInit
             PROVE  B!Init /\ FeedInv
  OBVIOUS
<1>1. Catchup = <<>>
  BY DEF FeedInit, Init, Catchup, AcceptedPlayers
<1>2. feed \in [Session -> Seq(Message)]
  BY EmptySeq DEF FeedInit
<1> QED
  BY <1>1, <1>2 DEF FeedInit, Init, B!Init, FeedInv, CaughtUp, B!CaughtUp

(***************************************************************************)
(* Every step of the room is a step of Broadcast or leaves it alone.       *)
(***************************************************************************)
LEMMA FeedStep ==
  ASSUME IInv, FeedInv, FeedNext
  PROVE  [B!Next]_(B!vars) /\ FeedInv'
<1>0. feed' = [s \in Session |-> Told(s)] /\ Next
  BY DEF FeedNext
<1>1. ASSUME NEW s \in Session, Connect(s) \/ Disconnect(s)
      PROVE  [B!Next]_(B!vars) /\ FeedInv'
  BY <1>0, <1>1, ConnectStep, DisconnectStep DEF B!Next
<1>2. ASSUME NEW s \in Session, NEW n \in Names, JoinLobby(s, n) \/ JoinStart(s, n)
      PROVE  [B!Next]_(B!vars) /\ FeedInv'
  BY <1>0, <1>2, JoinLobbyStep, JoinStartStep DEF B!Next
<1>3. ASSUME NEW s \in Session,
             \/ JoinIgnored(s) \/ ReceiveUnknown(s)
             \/ ReceivePlaceBomb(s) \/ ReceivePlaceBlock(s)
             \/ \E d \in Direction : ReceiveMove(s, d)
      PROVE  [B!Next]_(B!vars) /\ FeedInv'
  <2>1. sent' = Quiet /\ UNCHANGED <<players, statusVars, roomVars>>
    BY <1>3 DEF JoinIgnored, ReceiveUnknown, ReceivePlaceBomb, ReceivePlaceBlock,
                ReceiveMove, AddMessage, Receive
  <2> QED
    BY <1>0, <2>1, QuietStep
<1>4. CASE TurnTimer
  BY <1>0, <1>4, NextTurnStep, LastTurnStep DEF TurnTimer, B!Next
<1> QED
  BY <1>0, <1>1, <1>2, <1>3, <1>4 DEF Next, SessionStep

LEMMA FeedInvariance == FeedSpec => [](IInv /\ FeedInv)
<1>1. FeedSpec => Spec
  <2>1. FeedInit => Init
    BY DEF FeedInit
  <2>2. [FeedNext]_feedVars => [Next]_vars
    BY DEF FeedNext, feedVars
  <2> QED
    BY <2>1, <2>2, PTL DEF FeedSpec, Spec
<1>2. FeedInit => FeedInv
  BY FeedInitInv
<1>3. IInv /\ FeedInv /\ [FeedNext]_feedVars => FeedInv'
  <2> SUFFICES ASSUME IInv, FeedInv, [FeedNext]_feedVars
               PROVE  FeedInv'
    OBVIOUS
  <2>1. CASE FeedNext
    BY <2>1, FeedStep
  <2>2. CASE UNCHANGED feedVars
    BY <2>2 DEF feedVars, vars, sessionVars, statusVars, roomVars, FeedInv, CaughtUp,
                B!CaughtUp, Catchup, TurnMessages, AcceptedPlayers
  <2> QED
    BY <2>1, <2>2
<1> QED
  BY <1>1, <1>2, <1>3, Invariance, PTL DEF FeedSpec

(***************************************************************************)
(* Every attached session, early or late, player or observer, has been     *)
(* told the catch-up of the moment last (join, the sendall_ functions,     *)
(* init_game).                                                             *)
(***************************************************************************)
THEOREM EverybodyCaughtUp == FeedSpec => []CaughtUp
<1>1. FeedInv => CaughtUp
  BY DEF FeedInv
<1> QED
  BY <1>1, FeedInvariance, PTL

(***************************************************************************)
(* The room implements Broadcast: within a lobby or a game whatever is     *)
(* added to the catch-up goes out to every session, and with a game's      *)
(* start and end every session is told the whole of the new catch-up.      *)
(***************************************************************************)
THEOREM RoomImplementsBroadcast == FeedSpec => RoomBroadcasts
<1>1. FeedInit => B!Init
  BY FeedInitInv
<1>2. IInv /\ FeedInv /\ [FeedNext]_feedVars => [B!Next]_(B!vars)
  <2> SUFFICES ASSUME IInv, FeedInv, [FeedNext]_feedVars
               PROVE  [B!Next]_(B!vars)
    OBVIOUS
  <2>1. CASE FeedNext
    BY <2>1, FeedStep
  <2>2. CASE UNCHANGED feedVars
    BY <2>2 DEF feedVars, vars, sessionVars, statusVars, roomVars, B!vars,
                Catchup, TurnMessages, AcceptedPlayers
  <2> QED
    BY <2>1, <2>2
<1> QED
  BY <1>1, <1>2, FeedInvariance, PTL DEF FeedSpec, RoomBroadcasts, B!Spec

--------------------------------------------------------------------------------
(***************************************************************************)
(* The order of the messages.  What may come next on a connection depends  *)
(* on the last message, and this is the last the room has said of its      *)
(* state: the strengthening that makes ProtocolOrder inductive.            *)
(***************************************************************************)
Ordered(f) ==
  /\ f # <<>>
  /\ f[1].type \in {"Hello", "GameEnded"}
  /\ \A k \in 2 .. Len(f) : MayFollow(f[k - 1], f[k])

SaysState(m) ==
  IF in_progress THEN m.type = "Turn" /\ m.turn = turn - 1
  ELSE IF next_id = 0 THEN m.type \in {"Hello", "GameEnded"}
  ELSE m.type = "AcceptedPlayer" /\ m.id = next_id - 1

OrderInv ==
  \A s \in players : Ordered(feed[s]) /\ SaysState(feed[s][Len(feed[s])])

LEMMA OrderedExtended ==
  ASSUME NEW S, NEW f \in Seq(S), NEW m \in S, Ordered(f), MayFollow(f[Len(f)], m)
  PROVE  f \o <<m>> \in Seq(S) /\ Ordered(f \o <<m>>) /\ (f \o <<m>>)[Len(f \o <<m>>)] = m
<1>1. <<m>> \in Seq(S) /\ Len(<<m>>) = 1 /\ <<m>>[1] = m
  OBVIOUS
<1>2. Len(f) \in Nat \ {0}
  BY EmptySeq DEF Ordered
<1> DEFINE n == Len(f)  g == f \o <<m>>
<1>3. /\ g \in Seq(S) /\ Len(g) = n + 1
      /\ \A i \in 1 .. (n + 1) : g[i] = IF i <= n THEN f[i] ELSE <<m>>[i - n]
  BY <1>1, ConcatProperties
<1> HIDE DEF n, g
<1>4. n \in Nat \ {0}
  BY <1>2 DEF n
<1>5. (\A i \in 1 .. n : g[i] = f[i]) /\ g[n + 1] = m
  <2>1. ASSUME NEW i \in 1 .. n
        PROVE  g[i] = f[i]
    BY <1>3, <1>4
  <2>2. n + 1 \in 1 .. (n + 1) /\ ~ (n + 1 <= n) /\ (n + 1) - n = 1
    BY <1>4
  <2>3. g[n + 1] = <<m>>[(n + 1) - n]
    BY <1>3, <2>2
  <2> QED
    BY <1>1, <2>1, <2>2, <2>3
<1>6. ASSUME NEW k \in 2 .. (n + 1)
      PROVE  MayFollow(g[k - 1], g[k])
  <2>1. CASE k \in 2 .. n
    <3>1. g[k - 1] = f[k - 1] /\ g[k] = f[k]
      BY <1>4, <1>5, <2>1
    <3> QED
      BY <2>1, <3>1 DEF Ordered, n
  <2>2. CASE k = n + 1
    <3>1. g[k - 1] = f[n] /\ g[k] = m
      BY <1>4, <1>5, <2>2
    <3> QED
      BY <3>1 DEF n
  <2> QED
    BY <1>4, <2>1, <2>2
<1>7. g[1] = f[1] /\ g # <<>>
  BY <1>3, <1>4, <1>5, EmptySeq
<1>8. Ordered(g)
  BY <1>3, <1>6, <1>7 DEF Ordered
<1> QED
  BY <1>3, <1>5, <1>8 DEF g

(***************************************************************************)
(* A session that keeps its feed, while the room says nothing new.         *)
(***************************************************************************)
LEMMA OrderKept ==
  ASSUME OrderInv, players' \subseteq players, \A s \in players' : feed'[s] = feed[s],
         UNCHANGED <<in_progress, turn, next_id>>
  PROVE  OrderInv'
  BY DEF OrderInv, SaysState

LEMMA MessageFields ==
  /\ \A i, n : AcceptedPlayer(i, n).type = "AcceptedPlayer" /\ AcceptedPlayer(i, n).id = i
  /\ \A ps : GameStarted(ps).type = "GameStarted" /\ GameStarted(ps).players = ps
  /\ \A n, es : Turn(n, es).type = "Turn" /\ Turn(n, es).turn = n
  BY DEF AcceptedPlayer, GameStarted, Turn

(***************************************************************************)
(* The catch-up of a new session, in a lobby and in a game.                *)
(***************************************************************************)
LEMMA CatchupOrdered ==
  ASSUME IInv, NEW ms, ms = <<Hello>> \o Catchup
  PROVE  Ordered(ms) /\ SaysState(ms[Len(ms)])
<1>1. /\ <<Hello>> \in Seq(Message) /\ Len(<<Hello>>) = 1
      /\ <<Hello>>[1] = Hello /\ Hello.type = "Hello"
  BY MessageTypes DEF Hello
<1>2. Catchup \in Seq(Message)
  BY CatchupType DEF IInv
<1> DEFINE n == Len(Catchup)
<1>3. n \in Nat
  BY <1>2, LenProperties
<1>4. /\ ms \in Seq(Message) /\ Len(ms) = 1 + n
      /\ \A i \in 1 .. (1 + n) : ms[i] = IF i <= 1 THEN <<Hello>>[i] ELSE Catchup[i - 1]
  BY <1>1, <1>2, ConcatProperties
<1> HIDE DEF n
<1>5. ms[1] = Hello /\ \A i \in 1 .. n : ms[i + 1] = Catchup[i]
  <2>1. 1 \in 1 .. (1 + n)
    BY <1>3
  <2>2. ms[1] = <<Hello>>[1]
    BY <1>4, <2>1
  <2>3. ASSUME NEW i \in 1 .. n
        PROVE  ms[i + 1] = Catchup[i]
    <3>1. i + 1 \in 1 .. (1 + n) /\ ~ (i + 1 <= 1) /\ (i + 1) - 1 = i
      BY <1>3
    <3>2. ms[i + 1] = Catchup[(i + 1) - 1]
      BY <1>4, <3>1
    <3> QED
      BY <3>1, <3>2
  <2> QED
    BY <1>1, <2>2, <2>3
<1>6. ms # <<>>
  BY <1>3, <1>4, EmptySeq
<1>7. CASE ~ in_progress
  <2>1. n = next_id /\ next_id \in Nat
        /\ \A i \in 1 .. n : Catchup[i] = AcceptedPlayer(i - 1, game_players[i - 1])
    <3>1. next_id \in Nat
      BY DEF IInv, TypeOK
    <3>2. Catchup = [i \in 1 .. next_id |-> AcceptedPlayer(i - 1, game_players[i - 1])]
      BY <1>7 DEF Catchup, AcceptedPlayers
    <3>3. DOMAIN Catchup = 1 .. n
      BY <1>2, LenProperties DEF n
    <3>4. n = next_id
      BY <1>3, <3>1, <3>2, <3>3
    <3> QED
      BY <3>1, <3>2, <3>4
  <2>2. \A i \in 1 .. n : ms[i + 1].type = "AcceptedPlayer" /\ ms[i + 1].id = i - 1
    <3> SUFFICES ASSUME NEW i \in 1 .. n
                 PROVE  ms[i + 1].type = "AcceptedPlayer" /\ ms[i + 1].id = i - 1
      OBVIOUS
    <3> DEFINE m == AcceptedPlayer(i - 1, game_players[i - 1])
    <3>1. m.type = "AcceptedPlayer" /\ m.id = i - 1
      BY MessageFields
    <3>2. ms[i + 1] = m
      BY <1>5, <2>1
    <3> QED
      BY <3>1, <3>2
  <2>3. ASSUME NEW k \in 2 .. Len(ms)
        PROVE  MayFollow(ms[k - 1], ms[k])
    <3>1. k \in 2 .. (n + 1)
      BY <1>3, <1>4
    <3>2. ms[k].type = "AcceptedPlayer" /\ ms[k].id = k - 2
      <4>1. k - 1 \in 1 .. n /\ (k - 1) + 1 = k /\ (k - 1) - 1 = k - 2
        BY <1>3, <3>1
      <4>2. ms[(k - 1) + 1].type = "AcceptedPlayer" /\ ms[(k - 1) + 1].id = (k - 1) - 1
        BY <2>2, <4>1
      <4> QED
        BY <4>1, <4>2
    <3>3. CASE k = 2
      BY <1>1, <1>5, <3>2, <3>3 DEF MayFollow
    <3>4. CASE k # 2
      <4>1. k - 2 \in 1 .. n /\ (k - 2) + 1 = k - 1 /\ k - 2 # 0 /\ (k - 2) - 1 = k - 3
        BY <1>3, <3>1, <3>4
      <4>2. ms[(k - 2) + 1].type = "AcceptedPlayer" /\ ms[(k - 2) + 1].id = (k - 2) - 1
        BY <2>2, <4>1
      <4> QED
        BY <3>2, <4>1, <4>2 DEF MayFollow
    <3> QED
      BY <3>3, <3>4
  <2>4. Ordered(ms)
    BY <1>1, <1>5, <1>6, <2>3 DEF Ordered
  <2>5. CASE n = 0
    <3>1. Len(ms) = 1 /\ next_id = 0
      BY <1>4, <2>1, <2>5
    <3>2. ms[Len(ms)].type = "Hello"
      BY <1>1, <1>5, <3>1
    <3> QED
      BY <1>7, <2>4, <3>1, <3>2 DEF SaysState
  <2>6. CASE n # 0
    <3>1. n \in 1 .. n /\ Len(ms) = n + 1
      BY <1>3, <1>4, <2>6
    <3>2. ms[n + 1].type = "AcceptedPlayer" /\ ms[n + 1].id = n - 1
      BY <2>2, <3>1
    <3> QED
      BY <1>7, <2>1, <2>4, <2>6, <3>1, <3>2 DEF SaysState
  <2> QED
    BY <2>4, <2>5, <2>6
<1>8. CASE in_progress
  <2>1. turn = Len(turns) /\ turn \in Nat \ {0}
    BY <1>8 DEF IInv, TurnsNumbered
  <2>2. DOMAIN game_players = PlayerId
    BY <1>8 DEF IInv, GameIsFull, PlayerId
  <2>3. /\ n = turn + 1
        /\ Catchup[1] = GameStarted(game_players)
        /\ \A i \in 1 .. turn : Catchup[i + 1] = Turn(i - 1, turns[i])
    <3>1. Catchup = <<GameStarted(game_players)>> \o TurnMessages
      BY <1>8 DEF Catchup
    <3>2. TurnMessages = [i \in 1 .. turn |-> Turn(i - 1, turns[i])]
      BY <2>1 DEF TurnMessages
    <3>3. \A i \in 1 .. turn : Turn(i - 1, turns[i]) \in {Turn(j - 1, turns[j]) : j \in 1 .. turn}
      OBVIOUS
    <3> DEFINE T == {Turn(j - 1, turns[j]) : j \in 1 .. turn}
               G == GameStarted(game_players)
               M == T \cup {G}
    <3>4. TurnMessages \in [1 .. turn -> M]
      BY <3>2, <3>3
    <3>5. turn \in Nat
      BY <2>1
    <3>6. TurnMessages \in Seq(M) /\ Len(TurnMessages) = turn
      <4> HIDE DEF M
      <4> QED
        BY <3>4, <3>5, FunctionIsSequence
    <3>7. <<G>> \in Seq(M) /\ Len(<<G>>) = 1 /\ <<G>>[1] = G
      <4>1. G \in M
        OBVIOUS
      <4> HIDE DEF M, G
      <4> QED
        BY <4>1
    <3>8. /\ Len(Catchup) = 1 + turn
          /\ \A i \in 1 .. (1 + turn) :
               Catchup[i] = IF i <= 1 THEN <<G>>[i] ELSE TurnMessages[i - 1]
      <4> HIDE DEF M, G
      <4>1. Catchup = <<G>> \o TurnMessages
        BY <3>1 DEF G
      <4> QED
        BY <3>6, <3>7, <4>1, ConcatProperties
    <3>9. ASSUME NEW i \in 1 .. turn
          PROVE  Catchup[i + 1] = Turn(i - 1, turns[i])
      <4>1. i + 1 \in 1 .. (1 + turn) /\ ~ (i + 1 <= 1) /\ (i + 1) - 1 = i
        BY <3>5
      <4>2. Catchup[i + 1] = TurnMessages[(i + 1) - 1]
        BY <3>8, <4>1
      <4> QED
        BY <3>2, <4>1, <4>2
    <3>10. Catchup[1] = G
      <4>1. 1 \in 1 .. (1 + turn)
        BY <3>5
      <4> HIDE DEF G
      <4> QED
        BY <3>7, <3>8, <4>1
    <3>11. n = turn + 1
      BY <3>5, <3>8 DEF n
    <3> QED
      BY <3>9, <3>10, <3>11
  <2>4. ms[2].type = "GameStarted" /\ DOMAIN ms[2].players = PlayerId
    <3>1. 1 \in 1 .. n /\ 1 + 1 = 2
      BY <2>1, <2>3
    <3>2. ms[2] = GameStarted(game_players)
      BY <1>5, <2>3, <3>1
    <3>3. ms[2].type = "GameStarted" /\ ms[2].players = game_players
      BY <3>2, MessageFields
    <3> QED
      BY <2>2, <3>3
  <2>5. ASSUME NEW i \in 1 .. turn
        PROVE  ms[i + 2].type = "Turn" /\ ms[i + 2].turn = i - 1
    <3>1. i + 1 \in 1 .. n /\ (i + 1) + 1 = i + 2
      BY <2>1, <2>3
    <3>2. ms[(i + 1) + 1] = Catchup[i + 1]
      BY <1>5, <3>1
    <3>3. ms[i + 2] = Turn(i - 1, turns[i])
      BY <2>3, <3>1, <3>2
    <3>4. Turn(i - 1, turns[i]).type = "Turn" /\ Turn(i - 1, turns[i]).turn = i - 1
      BY MessageFields
    <3> QED
      BY <3>3, <3>4
  <2>6. ASSUME NEW k \in 2 .. Len(ms)
        PROVE  MayFollow(ms[k - 1], ms[k])
    <3>1. k \in 2 .. (turn + 2)
      BY <1>4, <2>1, <2>3
    <3>2. CASE k = 2
      BY <1>1, <1>5, <2>4, <3>2 DEF MayFollow
    <3>3. CASE k = 3
      <4>1. 1 \in 1 .. turn /\ 1 + 2 = 3 /\ 1 - 1 = 0
        BY <2>1
      <4>2. ms[3].type = "Turn" /\ ms[3].turn = 0
        <5>1. ms[1 + 2].type = "Turn" /\ ms[1 + 2].turn = 1 - 1
          BY <2>5, <4>1
        <5> QED
          BY <4>1, <5>1
      <4> QED
        BY <2>4, <3>3, <4>2 DEF MayFollow
    <3>4. CASE k # 2 /\ k # 3
      <4>1. /\ k - 2 \in 1 .. turn /\ (k - 2) + 2 = k /\ (k - 2) - 1 = k - 3
            /\ k - 3 \in 1 .. turn /\ (k - 3) + 2 = k - 1 /\ (k - 3) - 1 = (k - 3) - 1
            /\ k - 3 # 0
        BY <2>1, <3>1, <3>4
      <4>2. ms[(k - 2) + 2].type = "Turn" /\ ms[(k - 2) + 2].turn = (k - 2) - 1
        BY <2>5, <4>1
      <4>3. ms[(k - 3) + 2].type = "Turn" /\ ms[(k - 3) + 2].turn = (k - 3) - 1
        BY <2>5, <4>1
      <4> QED
        BY <4>1, <4>2, <4>3 DEF MayFollow
    <3> QED
      BY <3>2, <3>3, <3>4
  <2>7. Ordered(ms)
    BY <1>1, <1>5, <1>6, <2>6 DEF Ordered
  <2>8. SaysState(ms[Len(ms)])
    <3>1. turn \in 1 .. turn /\ Len(ms) = turn + 2
      BY <1>4, <2>1, <2>3
    <3>2. ms[turn + 2].type = "Turn" /\ ms[turn + 2].turn = turn - 1
      BY <2>5, <3>1
    <3> QED
      BY <1>8, <3>1, <3>2 DEF SaysState
  <2> QED
    BY <2>7, <2>8
<1> QED
  BY <1>7, <1>8

(***************************************************************************)
(* Each step, with what FeedStep has shown of the feeds: the messages it   *)
(* adds follow those that were there.                                      *)
(***************************************************************************)
LEMMA ConnectOrder ==
  ASSUME IInv, FeedInv, OrderInv, NEW s \in Session, Connect(s),
         feed' = [t \in Session |-> Told(t)]
  PROVE  OrderInv'
<1>1. feed' = [feed EXCEPT ![s] = <<Hello>> \o Catchup]
  BY ConnectStep DEF B!Subscribe
<1>2. UNCHANGED <<in_progress, turn, next_id>> /\ players' = players \cup {s}
  BY DEF Connect, statusVars, roomVars
<1>3. Ordered(feed'[s]) /\ SaysState(feed'[s][Len(feed'[s])])
  <2>1. feed'[s] = <<Hello>> \o Catchup
    BY <1>1 DEF FeedInv
  <2> QED
    BY <2>1, CatchupOrdered
<1>4. ASSUME NEW t \in players, t # s
      PROVE  Ordered(feed'[t]) /\ SaysState(feed'[t][Len(feed'[t])])
  <2>1. feed'[t] = feed[t]
    BY <1>1, <1>4 DEF FeedInv, IInv, TypeOK
  <2> QED
    BY <2>1 DEF OrderInv
<1> QED
  BY <1>2, <1>3, <1>4 DEF OrderInv, SaysState

LEMMA DisconnectOrder ==
  ASSUME IInv, FeedInv, OrderInv, NEW s \in Session, Disconnect(s),
         feed' = [t \in Session |-> Told(t)]
  PROVE  OrderInv'
<1>1. feed' = [feed EXCEPT ![s] = <<>>]
  BY DisconnectStep DEF B!Unsubscribe
<1>2. UNCHANGED <<in_progress, turn, next_id>> /\ players' = players \ {s}
  BY DEF Disconnect, statusVars, roomVars
<1>3. \A t \in players' : feed'[t] = feed[t]
  BY <1>1, <1>2 DEF FeedInv, IInv, TypeOK
<1> QED
  BY <1>2, <1>3, OrderKept

LEMMA JoinLobbyOrder ==
  ASSUME IInv, FeedInv, OrderInv, NEW s \in Session, NEW n \in Names, JoinLobby(s, n),
         feed' = [t \in Session |-> Told(t)]
  PROVE  OrderInv'
<1> DEFINE m == AcceptedPlayer(next_id, n)
<1>1. /\ Accept(s, n) /\ ~ in_progress /\ UNCHANGED <<players, in_progress>>
      /\ next_id' = next_id + 1 /\ sent' = SendAll(<<m>>)
  BY DEF JoinLobby, Accept, Receive
<1>2. m \in Message /\ m.type = "AcceptedPlayer" /\ m.id = next_id /\ next_id \in Nat
  BY <1>1, AcceptFacts, MessageTypes, MessageFields DEF IInv, TypeOK
<1> HIDE DEF m
<1>3. feed' = [t \in Session |-> IF t \in players THEN feed[t] \o <<m>> ELSE feed[t]]
  <2> DEFINE ms == <<m>>
  <2>1. ms \in Seq(Message) /\ ms # <<>> /\ ms[Len(ms)].type # "GameEnded"
    BY <1>2
  <2>2. sent' = SendAll(ms)
    BY <1>1
  <2> HIDE DEF ms
  <2>3. feed' = [t \in Session |-> IF t \in players THEN feed[t] \o ms ELSE feed[t]]
    BY <1>1, <2>1, <2>2, EverybodyTold
  <2> QED
    BY <2>3 DEF ms
<1>4. ASSUME NEW t \in players
      PROVE  Ordered(feed'[t]) /\ SaysState(feed[t][Len(feed[t])])'
  <2>1. feed[t] \in Seq(Message) /\ feed'[t] = feed[t] \o <<m>>
    BY <1>3 DEF FeedInv, IInv, TypeOK
  <2>2. Ordered(feed[t]) /\ MayFollow(feed[t][Len(feed[t])], m)
    BY <1>1, <1>2 DEF OrderInv, SaysState, MayFollow
  <2> DEFINE f == feed[t]  fm == f \o <<m>>
  <2> HIDE DEF f
  <2>3. Ordered(fm) /\ fm[Len(fm)] = m
    BY <1>2, <2>1, <2>2, OrderedExtended DEF f
  <2>4. feed'[t] = fm
    BY <2>1 DEF f
  <2> HIDE DEF fm
  <2> QED
    BY <1>1, <1>2, <2>3, <2>4 DEF SaysState
<1> QED
  BY <1>1, <1>4 DEF OrderInv

LEMMA JoinStartOrder ==
  ASSUME IInv, FeedInv, OrderInv, NEW s \in Session, NEW n \in Names, JoinStart(s, n),
         feed' = [t \in Session |-> Told(t)]
  PROVE  OrderInv'
<1> DEFINE a == AcceptedPlayer(next_id, n)
           g == GameStarted(game_players')
           t0 == Turn(0, StartEvents)
<1>1. /\ Accept(s, n) /\ ~ in_progress /\ in_progress' /\ UNCHANGED players
      /\ turn' = 1 /\ sent' = SendAll(<<a, g, t0>>)
  BY DEF JoinStart, Accept, Receive
<1>2. a \in Message /\ g \in Message /\ t0 \in Message
  <2>1. StartEvents \in Seq(Event)
    BY StartEventsType DEF IInv, TypeOK
  <2> QED
    BY <1>1, <2>1, AcceptFacts, MessageTypes
<1>3. /\ a.type = "AcceptedPlayer" /\ a.id = next_id
      /\ g.type = "GameStarted" /\ g.players = game_players'
      /\ t0.type = "Turn" /\ t0.turn = 0
  BY MessageFields
<1>4. next_id = PlayersCount - 1 /\ DOMAIN game_players' = PlayerId
  <2>1. /\ Cardinality(DOMAIN game_players') = next_id'
        /\ game_players' \in [0 .. (next_id' - 1) -> Names]
    BY <1>1, AcceptFacts
  <2>2. Cardinality(DOMAIN game_players') = PlayersCount
    BY DEF JoinStart
  <2>3. next_id' = next_id + 1 /\ next_id \in Nat
    BY <1>1 DEF Accept, IInv, TypeOK
  <2> QED
    BY <2>1, <2>2, <2>3 DEF PlayerId
<1> HIDE DEF a, g, t0
<1>5. \A t \in players : feed'[t] = feed[t] \o <<a, g, t0>>
  <2> DEFINE ms == <<a, g, t0>>
  <2>1. ms \in Seq(Message) /\ ms # <<>> /\ ms[Len(ms)].type # "GameEnded"
    BY <1>2, <1>3
  <2>2. sent' = SendAll(ms)
    BY <1>1
  <2> HIDE DEF ms
  <2>3. feed' = [t \in Session |-> IF t \in players THEN feed[t] \o ms ELSE feed[t]]
    BY <1>1, <2>1, <2>2, EverybodyTold
  <2> QED
    BY <2>3 DEF ms, IInv, TypeOK
<1>6. ASSUME NEW t \in players
      PROVE  Ordered(feed'[t]) /\ SaysState(feed[t][Len(feed[t])])'
  <2> DEFINE f == feed[t]
             fa == f \o <<a>>
             fg == fa \o <<g>>
             ft == fg \o <<t0>>
  <2>1. f \in Seq(Message) /\ Ordered(f) /\ MayFollow(f[Len(f)], a)
    BY <1>1, <1>3 DEF FeedInv, IInv, TypeOK, OrderInv, SaysState, MayFollow
  <2> HIDE DEF f
  <2>2. fa \in Seq(Message) /\ Ordered(fa) /\ fa[Len(fa)] = a
    BY <1>2, <2>1, OrderedExtended
  <2>3. MayFollow(a, g)
    BY <1>3, <1>4 DEF MayFollow
  <2> HIDE DEF fa
  <2>4. fg \in Seq(Message) /\ Ordered(fg) /\ fg[Len(fg)] = g
    BY <1>2, <2>2, <2>3, OrderedExtended
  <2>5. MayFollow(g, t0)
    BY <1>3 DEF MayFollow
  <2> HIDE DEF fg
  <2>6. Ordered(ft) /\ ft[Len(ft)] = t0
    BY <1>2, <2>4, <2>5, OrderedExtended
  <2>7. feed'[t] = ft
    <3>1. <<a>> \in Seq(Message) /\ <<g>> \in Seq(Message) /\ <<t0>> \in Seq(Message)
      BY <1>2
    <3>2. <<g>> \o <<t0>> = <<g, t0>> /\ <<g, t0>> \in Seq(Message)
      BY <1>2, PairOf
    <3>3. <<a>> \o <<g, t0>> = <<a, g, t0>>
      BY <1>2, TripleOf
    <3>4. fg \o <<t0>> = fa \o (<<g>> \o <<t0>>)
      BY <2>2, <3>1, ConcatAssociative DEF fg
    <3>5. fa \o <<g, t0>> = f \o (<<a>> \o <<g, t0>>)
      BY <2>1, <3>1, <3>2, ConcatAssociative DEF fa
    <3>6. feed'[t] = f \o <<a, g, t0>>
      BY <1>5 DEF f
    <3> QED
      BY <3>2, <3>3, <3>4, <3>5, <3>6
  <2> HIDE DEF ft
  <2> QED
    BY <1>1, <1>3, <2>6, <2>7 DEF SaysState
<1> QED
  BY <1>1, <1>6 DEF OrderInv

LEMMA NextTurnOrder ==
  ASSUME IInv, FeedInv, OrderInv, NextTurn, feed' = [t \in Session |-> Told(t)]
  PROVE  OrderInv'
<1> DEFINE m == Turn(turn, TurnEvents)
<1>0. in_progress /\ turn \in 1 .. (GameLength - 1)
  BY LengthAssumption DEF IInv, OneTimer, TurnsNumbered, NextTurn
<1>1. /\ in_progress /\ turn \in Nat \ {0}
      /\ UNCHANGED <<players, in_progress>> /\ sent' = SendAll(<<m>>)
  BY <1>0 DEF NextTurn, sessionVars
<1>2. turn' = turn + 1
  <2>1. turn' = (turn + 1) % U16
    BY DEF NextTurn
  <2> QED
    BY <1>0, <2>1, LengthAssumption, TimerAssumption
<1>3. m \in Message /\ m.type = "Turn" /\ m.turn = turn
  <2>1. turn \in Nat
    BY <1>1
  <2> QED
    BY <2>1, TurnEventsType, MessageTypes, MessageFields DEF IInv
<1> HIDE DEF m
<1>4. \A t \in players : feed'[t] = feed[t] \o <<m>>
  <2> DEFINE ms == <<m>>
  <2>1. ms \in Seq(Message) /\ ms # <<>> /\ ms[Len(ms)].type # "GameEnded"
    BY <1>3
  <2>2. sent' = SendAll(ms)
    BY <1>1
  <2> HIDE DEF ms
  <2>3. feed' = [t \in Session |-> IF t \in players THEN feed[t] \o ms ELSE feed[t]]
    BY <1>1, <2>1, <2>2, EverybodyTold
  <2> QED
    BY <2>3 DEF ms, IInv, TypeOK
<1>5. ASSUME NEW t \in players
      PROVE  Ordered(feed'[t]) /\ SaysState(feed[t][Len(feed[t])])'
  <2>1. feed[t] \in Seq(Message) /\ feed'[t] = feed[t] \o <<m>>
    BY <1>4 DEF FeedInv, IInv, TypeOK
  <2>2. Ordered(feed[t]) /\ MayFollow(feed[t][Len(feed[t])], m)
    BY <1>1, <1>3 DEF OrderInv, SaysState, MayFollow
  <2> DEFINE f == feed[t]  fm == f \o <<m>>
  <2> HIDE DEF f
  <2>3. Ordered(fm) /\ fm[Len(fm)] = m
    BY <1>3, <2>1, <2>2, OrderedExtended DEF f
  <2>4. feed'[t] = fm
    BY <2>1 DEF f
  <2> HIDE DEF fm
  <2> QED
    BY <1>1, <1>2, <1>3, <2>3, <2>4 DEF SaysState
<1> QED
  BY <1>1, <1>5 DEF OrderInv

LEMMA LastTurnOrder ==
  ASSUME IInv, LastTurn, feed' = [t \in Session |-> Told(t)]
  PROVE  OrderInv'
<1> DEFINE m == GameEnded(<<>>)
           ms == <<Turn(turn, TurnEvents), m>>
<1>1. UNCHANGED players /\ ~ in_progress' /\ next_id' = 0 /\ sent' = SendAll(ms)
  BY DEF LastTurn, ResetState, sessionVars
<1>2. m.type = "GameEnded"
  BY DEF GameEnded
<1> HIDE DEF m
<1>3. ms # <<>> /\ Len(ms) = 2 /\ ms[2] = m
  OBVIOUS
<1> HIDE DEF ms
<1>4. \A t \in players : feed'[t] = <<m>>
  BY <1>1, <1>2, <1>3 DEF Told, Ends, SendAll, IInv, TypeOK
<1>5. Ordered(<<m>>) /\ <<m>>[Len(<<m>>)] = m
  BY <1>2 DEF Ordered
<1> QED
  BY <1>1, <1>2, <1>4, <1>5 DEF OrderInv, SaysState

LEMMA OrderStep ==
  ASSUME IInv, FeedInv, OrderInv, FeedNext
  PROVE  OrderInv'
<1>0. feed' = [s \in Session |-> Told(s)] /\ Next
  BY DEF FeedNext
<1>1. ASSUME NEW s \in Session, Connect(s) \/ Disconnect(s)
      PROVE  OrderInv'
  BY <1>0, <1>1, ConnectOrder, DisconnectOrder
<1>2. ASSUME NEW s \in Session, NEW n \in Names, JoinLobby(s, n) \/ JoinStart(s, n)
      PROVE  OrderInv'
  BY <1>0, <1>2, JoinLobbyOrder, JoinStartOrder
<1>3. ASSUME NEW s \in Session,
             \/ JoinIgnored(s) \/ ReceiveUnknown(s)
             \/ ReceivePlaceBomb(s) \/ ReceivePlaceBlock(s)
             \/ \E d \in Direction : ReceiveMove(s, d)
      PROVE  OrderInv'
  <2>1. sent' = Quiet /\ UNCHANGED <<players, statusVars, roomVars>>
    BY <1>3 DEF JoinIgnored, ReceiveUnknown, ReceivePlaceBomb, ReceivePlaceBlock,
                ReceiveMove, AddMessage, Receive
  <2>2. UNCHANGED <<players, in_progress, turn, next_id>>
    BY <2>1 DEF statusVars, roomVars
  <2>3. feed' = feed
    BY <1>0, <2>1, NobodyTold
  <2> QED
    BY <2>2, <2>3, OrderKept
<1>4. CASE TurnTimer
  BY <1>0, <1>4, NextTurnOrder, LastTurnOrder DEF TurnTimer
<1> QED
  BY <1>0, <1>1, <1>2, <1>3, <1>4 DEF Next, SessionStep

(***************************************************************************)
(* On every connection the messages come in the order of the protocol,     *)
(* through any number of lobbies and games, whoever comes and goes         *)
(* (README 2.7; join, the sendall_ functions, handle_turn).                *)
(***************************************************************************)
THEOREM MessagesInOrder == FeedSpec => []ProtocolOrder
<1>1. FeedInit => OrderInv
  BY DEF FeedInit, Init, OrderInv
<1>2. IInv /\ FeedInv /\ OrderInv /\ [FeedNext]_feedVars => OrderInv'
  <2> SUFFICES ASSUME IInv, FeedInv, OrderInv, [FeedNext]_feedVars
               PROVE  OrderInv'
    OBVIOUS
  <2>1. CASE FeedNext
    BY <2>1, OrderStep
  <2>2. CASE UNCHANGED feedVars
    BY <2>2, OrderKept DEF feedVars, vars, sessionVars, statusVars, roomVars
  <2> QED
    BY <2>1, <2>2
<1>3. OrderInv => ProtocolOrder
  BY DEF OrderInv, Ordered, ProtocolOrder
<1> QED
  BY <1>1, <1>2, <1>3, FeedInvariance, PTL DEF FeedSpec

================================================================================
