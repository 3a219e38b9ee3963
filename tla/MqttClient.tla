----------------------------- MODULE MqttClient -----------------------------
(***************************************************************************)
(* internal/mqtt/client.go, with the parts of cmd/main.go that drive it:   *)
(* the connection and its loss, the availability topic and the last will,  *)
(* the subscriptions, which a clean session forgets, and shutdown.         *)
(*                                                                         *)
(* main connects, subscribes and at the end disconnects.  Every connection *)
(* starts a goroutine of its own, onConnected, here restorer[s] for the    *)
(* s-th.  What is sent on one connection arrives in order or not at all,   *)
(* so a publish takes effect when it is made, or never.                    *)
(***************************************************************************)
EXTENDS Integers, FiniteSets

CONSTANTS
  Topics,             \* the command topics
  Commanded,          \* bound: those the user sends a command on, once each
  MaxConnects,        \* connectMQTTWithRetry: maxRetries
  PublishRetryCount,
  MaxSessions         \* bound: connections in a behaviour

ASSUME MqttLimits ==
  /\ MaxConnects \in Nat \ {0}
  /\ PublishRetryCount \in Nat \ {0}
  /\ MaxSessions \in Nat
  /\ Commanded \subseteq Topics

VARIABLES
  main,          \* where main is
  stop,          \* the signal came: ctx is done
  toSubscribe,   \* command topics main has yet to Subscribe
  client,        \* number of the paho client in c.client, 0 for nil
  connects,      \* paho clients made so far
  paho,          \* its state: "none", "dead", "trying", "up"
  shuttingDown,
  tracked,       \* subscribedTopics
  restorer,      \* the onConnected goroutines
  session,       \* connections so far
  availability,  \* the retained message of the availability topic
  willDue,       \* the broker is about to send the last will
  subscribed,    \* topics the broker delivers in this session
  refused,       \* topics it did not take a subscription for in this session
  kept,          \* topics with a command, retained by the broker
  applied        \* times a command was handed on to the command queue

mainVars == <<main, stop, toSubscribe>>
conn == <<client, connects, paho, session>>
broker == <<availability, willDue, subscribed, refused, kept, applied>>
vars == <<mainVars, conn, broker, shuttingDown, tracked, restorer>>

Sessions == 1..MaxSessions
Alive == main # "ended" /\ main # "crashed"
Up == paho = "up"

Idle == [pc |-> "none", attempt |-> 1, handle |-> 0, todo |-> {}]

Init ==
  /\ main = "connect" /\ stop = FALSE /\ toSubscribe = Topics
  /\ client = 0 /\ connects = 0 /\ paho = "none" /\ session = 0
  /\ shuttingDown = FALSE
  /\ tracked = {}
  /\ restorer = [s \in Sessions |-> Idle]
  /\ availability \in {"none", "online"}   \* of an earlier run
  /\ willDue = FALSE
  /\ subscribed = {} /\ refused = {}
  /\ kept = {} /\ applied = [t \in Topics |-> 0]

(***************************************************************************)
(* The broker and the network (external).                                  *)
(***************************************************************************)
\* The session is gone with its subscriptions.
Forgets == subscribed' = {} /\ refused' = {}

\* Bug: an unclean disconnect leaves no trace.
BreaksWithoutWill ==
  /\ Forgets
  /\ UNCHANGED <<availability, willDue, kept, applied>>

\* An unclean disconnect: the broker will send the will.
Breaks ==
  /\ Forgets
  /\ willDue' = (willDue \/ Up)
  /\ UNCHANGED <<availability, kept, applied>>

\* A clean one suppresses it.
Parts ==
  /\ Forgets
  /\ UNCHANGED <<availability, willDue, kept, applied>>

ConnectionLost ==
  /\ Alive /\ Up
  /\ paho' = "trying"
  /\ Breaks
  /\ UNCHANGED <<mainVars, client, connects, session, shuttingDown, tracked,
                 restorer>>

SendsWill ==
  /\ willDue
  /\ availability' = "offline"
  /\ willDue' = FALSE
  /\ UNCHANGED <<mainVars, conn, shuttingDown, tracked, restorer,
                 subscribed, refused, kept, applied>>

\* A connection under the same ClientID ends what is left of the one before.
Accepts ==
  /\ Alive
  /\ paho = "trying"
  /\ session < MaxSessions
  /\ paho' = "up"
  /\ session' = session + 1
  /\ restorer' = [restorer EXCEPT ![session + 1] = [Idle EXCEPT !.pc = "check"]]
  /\ main' = IF main = "connecting" THEN "subscribe" ELSE main
  /\ availability' = IF willDue THEN "offline" ELSE availability
  /\ willDue' = FALSE
  /\ Forgets
  /\ UNCHANGED <<stop, toSubscribe, client, connects, shuttingDown, tracked,
                 kept, applied>>

\* Bug: a retained command is applied like a live one.
HeardBlindly(t, retained) == applied' = [applied EXCEPT ![t] = @ + 1]

\* The callback of subscribe.
Heard(t, retained) ==
  applied' = [applied EXCEPT ![t] = IF retained THEN @ ELSE @ + 1]

\* A user's command, retained: delivered to a subscriber as a live message.
UserCommands(t) ==
  /\ t \notin kept
  /\ kept' = kept \cup {t}
  /\ IF t \in subscribed THEN Heard(t, FALSE) ELSE UNCHANGED applied
  /\ UNCHANGED <<mainVars, conn, shuttingDown, tracked, restorer,
                 availability, willDue, subscribed, refused>>
-----------------------------------------------------------------------------
(***************************************************************************)
(* subscribe and one attempt of publishRetained.                           *)
(***************************************************************************)
\* The broker hands the retained command to every new subscription.
Subscribes(t, taken) ==
  /\ taken => Up
  /\ subscribed' = IF taken THEN subscribed \cup {t} ELSE subscribed
  /\ refused' = IF taken THEN refused \ {t}
                ELSE IF Up /\ t \notin subscribed THEN refused \cup {t}
                ELSE refused
  /\ IF taken /\ t \in kept THEN Heard(t, TRUE) ELSE UNCHANGED applied
  /\ UNCHANGED <<availability, willDue, kept>>

\* What a publish may come to: not arrived, not acknowledged, or in order.
Fates == {"lost", "unacked", "acked"}

Publishes(value, fate) ==
  /\ fate # "lost" => Up
  /\ availability' = IF fate = "lost" THEN availability ELSE value
  /\ UNCHANGED <<willDue, subscribed, refused, kept, applied>>

(***************************************************************************)
(* main: connectMQTTWithRetry and Connect.                                 *)
(***************************************************************************)
\* closeExisting
CloseExisting ==
  /\ main = "connect" /\ ~stop
  /\ main' = "create"
  /\ client' = 0
  /\ paho' = "none"
  /\ Parts
  /\ UNCHANGED <<stop, toSubscribe, connects, session, shuttingDown, tracked,
                 restorer>>

CreateClient ==
  /\ main = "create"
  /\ main' = "connecting"
  /\ connects' = connects + 1
  /\ client' = connects + 1
  /\ paho' = "trying"
  /\ UNCHANGED <<stop, toSubscribe, session, broker, shuttingDown, tracked,
                 restorer>>

\* Connect fails, or it times out, and paho still tries.
ConnectFails(timeout) ==
  /\ main = "connecting"
  /\ paho' = IF timeout THEN paho ELSE "dead"
  /\ main' = IF connects < MaxConnects THEN "pause" ELSE "failed"
  /\ UNCHANGED <<stop, toSubscribe, client, connects, session, broker,
                 shuttingDown, tracked, restorer>>

Pause ==
  /\ main = "pause"
  /\ main' = IF stop THEN "failed" ELSE "connect"
  /\ UNCHANGED <<stop, toSubscribe, conn, broker, shuttingDown, tracked,
                 restorer>>

Cancelled ==
  /\ main = "connect" /\ stop
  /\ main' = "failed"
  /\ UNCHANGED <<stop, toSubscribe, conn, broker, shuttingDown, tracked,
                 restorer>>

(***************************************************************************)
(* main: Subscribe, for one topic after the other.                         *)
(***************************************************************************)
Track(t) ==
  /\ main = "subscribe"
  /\ t \in toSubscribe \ tracked
  /\ tracked \subseteq Topics \ toSubscribe
  /\ tracked' = tracked \cup {t}
  /\ UNCHANGED <<mainVars, conn, broker, shuttingDown, restorer>>

SubscribeTracked(t, taken) ==
  /\ main = "subscribe"
  /\ t \in toSubscribe \cap tracked
  /\ toSubscribe' = toSubscribe \ {t}
  /\ main' = IF toSubscribe' = {} THEN "serve" ELSE main
  /\ Subscribes(t, taken)
  /\ UNCHANGED <<stop, conn, shuttingDown, tracked, restorer>>

(***************************************************************************)
(* main: Disconnect, and the end of run.                                   *)
(***************************************************************************)
Stop ==
  /\ ~stop
  /\ stop' = TRUE
  /\ UNCHANGED <<main, toSubscribe, conn, broker, shuttingDown, tracked,
                 restorer>>

StartShutdown ==
  /\ main = "serve" /\ stop
  /\ main' = "farewell"
  /\ shuttingDown' = TRUE
  /\ UNCHANGED <<stop, toSubscribe, conn, broker, tracked, restorer>>

\* Bug: the announcement waits for a connection.
FarewellUnbounded(fate) ==
  /\ main = "farewell"
  /\ Up
  /\ Publishes("offline", fate)
  /\ main' = "close"
  /\ UNCHANGED <<stop, toSubscribe, conn, shuttingDown, tracked, restorer>>

\* publishOnce: one attempt, which fails at once without a connection.
Farewell(fate) ==
  /\ main = "farewell"
  /\ IF Up THEN Publishes("offline", fate) ELSE UNCHANGED broker
  /\ main' = "close"
  /\ UNCHANGED <<stop, toSubscribe, conn, shuttingDown, tracked, restorer>>

\* What the process knew is gone.
Exits ==
  /\ restorer' = [s \in Sessions |-> Idle]
  /\ tracked' = {} /\ toSubscribe' = {}
  /\ UNCHANGED <<stop, connects, session, shuttingDown>>

\* paho.Disconnect: nothing goes out or comes in between it and the exit.
Disconnect ==
  /\ main = "close"
  /\ main' = "ended"
  /\ client' = 0
  /\ paho' = "none"
  /\ Parts
  /\ Exits

\* run returns the error without a Disconnect; or the process is killed.
Dies ==
  /\ main' = "crashed"
  /\ Breaks
  /\ Exits
  /\ UNCHANGED <<client, paho>>

GivesUp == main = "failed" /\ Dies
Killed == Alive /\ Dies
-----------------------------------------------------------------------------
(***************************************************************************)
(* onConnected.                                                            *)
(***************************************************************************)
RestorerAt(s, pc) == Alive /\ restorer[s].pc = pc
To(s, pc) == restorer' = [restorer EXCEPT ![s].pc = pc]

\* Bug: a reconnect only restores the subscriptions.
CheckFirst(s) ==
  /\ RestorerAt(s, "check")
  /\ To(s, IF shuttingDown THEN "done" ELSE IF s = 1 THEN "try" ELSE "snapshot")
  /\ UNCHANGED <<mainVars, conn, broker, shuttingDown, tracked>>

CheckShutdown(s) ==
  /\ RestorerAt(s, "check")
  /\ To(s, IF shuttingDown THEN "done" ELSE "try")
  /\ UNCHANGED <<mainVars, conn, broker, shuttingDown, tracked>>

\* The top of publishRetained's loop; without a connection it gives up.
TryAnnounce(s) ==
  /\ RestorerAt(s, "try")
  /\ LET first == restorer[s].attempt = 1
         connected == client # 0 /\ Up
     IN restorer' =
          IF connected /\ (first \/ ~shuttingDown)
          THEN [restorer EXCEPT ![s].pc = "publish", ![s].handle = client]
          ELSE [restorer EXCEPT ![s].pc = "snapshot"]
  /\ UNCHANGED <<mainVars, conn, broker, shuttingDown, tracked>>

\* Publish after the backoff, with the client looked up before it.
Announce(s, fate) ==
  /\ RestorerAt(s, "publish")
  /\ restorer[s].handle # client => fate = "lost"
  /\ Publishes("online", fate)
  /\ restorer' =
       IF fate = "acked" \/ restorer[s].attempt = PublishRetryCount
       THEN [restorer EXCEPT ![s].pc = "snapshot", ![s].handle = 0]
       ELSE [restorer EXCEPT ![s].pc = "try", ![s].handle = 0,
                             ![s].attempt = @ + 1]
  /\ UNCHANGED <<mainVars, conn, shuttingDown, tracked>>

\* resubscribeAll works on a copy.
Snapshot(s) ==
  /\ RestorerAt(s, "snapshot")
  /\ restorer' = [restorer EXCEPT ![s].todo = tracked,
                    ![s].pc = IF tracked = {} THEN "done" ELSE "restore"]
  /\ UNCHANGED <<mainVars, conn, broker, shuttingDown, tracked>>

\* Bug: the first failure ends it.
RestoreUntilFailure(s, t, taken) ==
  /\ RestorerAt(s, "restore")
  /\ t \in restorer[s].todo
  /\ restorer' = [restorer EXCEPT ![s].todo = @ \ {t},
                    ![s].pc = IF restorer[s].todo = {t} \/ ~taken THEN "done" ELSE @]
  /\ Subscribes(t, taken)
  /\ UNCHANGED <<mainVars, conn, shuttingDown, tracked>>

\* One topic after the other, past individual failures.
Restore(s, t, taken) ==
  /\ RestorerAt(s, "restore")
  /\ t \in restorer[s].todo
  /\ restorer' = [restorer EXCEPT ![s].todo = @ \ {t},
                    ![s].pc = IF restorer[s].todo = {t} THEN "done" ELSE @]
  /\ Subscribes(t, taken)
  /\ UNCHANGED <<mainVars, conn, shuttingDown, tracked>>
-----------------------------------------------------------------------------
MainProceeds ==
  \/ CloseExisting \/ CreateClient \/ Pause \/ Cancelled
  \/ \E timeout \in BOOLEAN : ConnectFails(timeout)
  \/ \E t \in Topics : Track(t)
  \/ \E t \in Topics, taken \in BOOLEAN : SubscribeTracked(t, taken)
  \/ StartShutdown \/ Disconnect \/ GivesUp
  \/ \E fate \in Fates : Farewell(fate)

Restores(s) ==
  \/ CheckShutdown(s) \/ TryAnnounce(s) \/ Snapshot(s)
  \/ \E fate \in Fates : Announce(s, fate)
  \/ \E t \in Topics, taken \in BOOLEAN : Restore(s, t, taken)

Next ==
  \/ ConnectionLost \/ SendsWill \/ Accepts
  \/ \E t \in Commanded : UserCommands(t)
  \/ MainProceeds \/ Stop \/ Killed
  \/ \E s \in Sessions : Restores(s)

Spec == Init /\ [][Next]_vars

\* Goroutines run, waits are bounded, the broker sends a will it owes.
FairSpec ==
  /\ Spec
  /\ WF_vars(MainProceeds)
  /\ WF_vars(SendsWill)
  /\ \A s \in Sessions : WF_vars(Restores(s))
-----------------------------------------------------------------------------
TypeOK ==
  /\ main \in {"connect", "create", "connecting", "pause", "failed",
               "subscribe", "serve", "farewell", "close", "ended", "crashed"}
  /\ stop \in BOOLEAN /\ shuttingDown \in BOOLEAN /\ willDue \in BOOLEAN
  /\ toSubscribe \subseteq Topics /\ tracked \subseteq Topics
  /\ connects \in 0..MaxConnects /\ client \in 0..connects
  /\ paho \in {"none", "dead", "trying", "up"}
  /\ session \in 0..MaxSessions
  /\ restorer \in [Sessions ->
       [pc : {"none", "check", "try", "publish", "snapshot", "restore", "done"},
        attempt : 1..PublishRetryCount, handle : 0..MaxConnects,
        todo : SUBSET Topics]]
  /\ availability \in {"none", "offline", "online"}
  /\ subscribed \subseteq Topics /\ refused \subseteq Topics
  /\ kept \subseteq Topics
  /\ applied \in [Topics -> Nat]

(***************************************************************************)
(* A command published with the retain flag is applied once at most,       *)
(* however often connections and subscriptions come and go (subscribe: "an *)
(* hours-old party mode coming back").                                     *)
(***************************************************************************)
AppliedOnce == \A t \in Topics : applied[t] <= 1

Connected == Alive /\ Up

(***************************************************************************)
(* On a connection that lasts, every topic main asked for is delivered in  *)
(* the end, whichever of main, a failed Subscribe, a reconnect and its     *)
(* onConnected came first, unless the broker itself turned it down in this *)
(* very session (Subscribe tracks first, resubscribeAll goes on).          *)
(***************************************************************************)
SubscriptionsRestored ==
  <>[](Connected => Topics \ toSubscribe \subseteq subscribed \cup refused)

\* The last attempt to announce this session was made.
Unannounced ==
  session > 0 /\ restorer[session].attempt = PublishRetryCount

(***************************************************************************)
(* On a connection that lasts the gateway is shown as online in the end,   *)
(* although the will of the connection before it is on its way, unless it  *)
(* has come to the last attempt to announce it, which may get lost, or the *)
(* process is shutting down (onConnected, publishAvailability).            *)
(***************************************************************************)
OnlineAgain ==
  <>[](Connected /\ ~shuttingDown => availability = "online" \/ Unannounced)

(***************************************************************************)
(* A gateway that dies without a word on an open connection is shown as    *)
(* offline in the end, and stays so: the last will (clientOptions).        *)
(***************************************************************************)
DeadLooksOffline == main = "crashed" /\ Up ~> [](availability = "offline")

(***************************************************************************)
(* After the signal the process comes to its end whatever the broker does: *)
(* no wait of Connect, Subscribe or Disconnect is without a bound.         *)
(***************************************************************************)
ShutdownEnds == stop ~> ~Alive

(***************************************************************************)
(* Once Disconnect has announced offline nothing says online again: "a     *)
(* reconnect landing as shutdown begins must not re-announce online [...]  *)
(* a retained online would outlive the process" (onConnected).  Refuted:   *)
(* shuttingDown is looked at before the publish, which may come after.     *)
(***************************************************************************)
NeverOnlineAgain ==
  [][main = "close" /\ availability' = "online" => availability = "online"]_vars
=============================================================================
