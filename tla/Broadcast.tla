-------------------------------- MODULE Broadcast ------------------------------
(***************************************************************************)
(* What a room promises its subscribers, whatever it says to them: a       *)
(* subscriber that comes late knows what the ones before it know.  The     *)
(* room keeps a log of what matters now.  Within an epoch the log only     *)
(* grows, and every growth goes out to every subscriber; when the epoch    *)
(* changes the log is written anew, and every subscriber is told all of    *)
(* it.  A new subscriber is greeted and handed the log.                    *)
(***************************************************************************)
EXTENDS Naturals, Sequences

CONSTANTS Subscriber, \* who may subscribe
          Greeting    \* the messages a new subscriber gets before the log

VARIABLES epoch,       \* what is going on: a lobby or a game
          subscribers, \* who is subscribed
          log,         \* what a subscriber must know in this epoch
          feed         \* what each has been told

vars == <<epoch, subscribers, log, feed>>

(***************************************************************************)
(* The last messages of s are those of t.                                  *)
(***************************************************************************)
EndsWith(s, t) ==
  /\ Len(t) <= Len(s)
  /\ \A i \in 1 .. Len(t) : s[Len(s) - Len(t) + i] = t[i]

Init ==
  /\ epoch = FALSE
  /\ subscribers = {}
  /\ log = <<>>
  /\ feed = [s \in Subscriber |-> <<>>]

Subscribe(s) ==
  /\ s \notin subscribers
  /\ subscribers' = subscribers \cup {s}
  /\ feed' = [feed EXCEPT ![s] = Greeting \o log]
  /\ UNCHANGED <<epoch, log>>

Unsubscribe(s) ==
  /\ s \in subscribers
  /\ subscribers' = subscribers \ {s}
  /\ feed' = [feed EXCEPT ![s] = <<>>]
  /\ UNCHANGED <<epoch, log>>

(***************************************************************************)
(* The log grows by News, and every feed with it.                          *)
(***************************************************************************)
News == SubSeq(log', Len(log) + 1, Len(log'))

Publish ==
  /\ log' = log \o News
  /\ feed' = [s \in Subscriber |-> IF s \in subscribers THEN feed[s] \o News ELSE feed[s]]
  /\ UNCHANGED <<epoch, subscribers>>

(***************************************************************************)
(* A new epoch: every subscriber has been told the whole of the new log.   *)
(***************************************************************************)
Rewrite ==
  /\ epoch' # epoch
  /\ \A s \in subscribers : EndsWith(feed'[s], log')
  /\ \A s \in Subscriber \ subscribers : feed'[s] = feed[s]
  /\ UNCHANGED subscribers

Next ==
  \/ \E s \in Subscriber : Subscribe(s) \/ Unsubscribe(s)
  \/ Publish
  \/ Rewrite

Spec == Init /\ [][Next]_vars

(***************************************************************************)
(* The promise: every subscriber's feed ends with the log.                 *)
(***************************************************************************)
CaughtUp == \A s \in subscribers : EndsWith(feed[s], log)

================================================================================
