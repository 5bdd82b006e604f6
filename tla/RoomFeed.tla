--------------------------------- MODULE RoomFeed ------------------------------
(***************************************************************************)
(* The room seen from its connections.  feed[s] is what the session s has  *)
(* been told since its Hello or since the last GameEnded, that message     *)
(* included: the bytes on its connection, as TCP delivers them.  It adds   *)
(* nothing to what the room does.                                          *)
(***************************************************************************)
EXTENDS GameRoom

VARIABLE feed

feedVars == <<vars, feed>>

(***************************************************************************)
(* A session's connection is gone with the session.  GameEnded begins a    *)
(* new feed.                                                               *)
(***************************************************************************)
Ends(messages) ==
  messages # <<>> /\ messages[Len(messages)].type = "GameEnded"

Told(s) ==
  IF s \notin players' THEN <<>>
  ELSE IF Ends(sent'[s]) THEN <<sent'[s][Len(sent'[s])]>>
  ELSE feed[s] \o sent'[s]

FeedInit == Init /\ feed = [s \in Session |-> <<>>]

FeedNext == Next /\ feed' = [s \in Session |-> Told(s)]

FeedSpec == FeedInit /\ [][FeedNext]_feedVars

FairFeed == FeedSpec /\ TimerFires

--------------------------------------------------------------------------------

(***************************************************************************)
(* The room implements Broadcast: its epoch is whether a game is on, its   *)
(* log is the catch-up that GameRoom::join gives a new session.  So a      *)
(* client that connects in the middle of a game gets the very messages     *)
(* that the others got, and every sendall_ reaches every session.          *)
(***************************************************************************)
B == INSTANCE Broadcast WITH Subscriber <- Session,
                             Greeting <- <<Hello>>,
                             epoch <- in_progress,
                             subscribers <- players,
                             log <- Catchup

RoomBroadcasts == B!Spec

(***************************************************************************)
(* Every attached session has been told the catch-up of the moment last:   *)
(* in a lobby all players accepted so far, in a game its start and all of  *)
(* its turns (join, the sendall_ functions, init_game).                    *)
(***************************************************************************)
CaughtUp == B!CaughtUp

(***************************************************************************)
(* The order of messages on one connection: after Hello or GameEnded the   *)
(* players in the order of their ids, after the last of them GameStarted   *)
(* with all of them, then Turn 0, Turn 1, ... without a gap; a client that *)
(* comes during a game gets GameStarted right after Hello (README 2.7).    *)
(***************************************************************************)
MayFollow(a, b) ==
  CASE b.type = "AcceptedPlayer" ->
         IF b.id = 0 THEN a.type \in {"Hello", "GameEnded"}
                     ELSE a.type = "AcceptedPlayer" /\ a.id = b.id - 1
    [] b.type = "GameStarted" ->
         /\ DOMAIN b.players = PlayerId
         /\ \/ a.type = "Hello"
            \/ a.type = "AcceptedPlayer" /\ a.id = PlayersCount - 1
    [] b.type = "Turn" ->
         IF b.turn = 0 THEN a.type = "GameStarted"
                       ELSE a.type = "Turn" /\ a.turn = b.turn - 1
    [] OTHER -> FALSE

ProtocolOrder ==
  \A s \in players :
    /\ feed[s] # <<>>
    /\ feed[s][1].type \in {"Hello", "GameEnded"}
    /\ \A k \in 2 .. Len(feed[s]) : MayFollow(feed[s][k - 1], feed[s][k])

================================================================================
