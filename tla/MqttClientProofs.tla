-------------------------- MODULE MqttClientProofs --------------------------
(***************************************************************************)
(* The safety of the MQTT client, for any topics, commands and bounds; in  *)
(* it what its liveness rests on: at any moment somebody is left who will  *)
(* do what still has to be done.                                           *)
(***************************************************************************)
EXTENDS MqttClient, TLAPS

RestorerPcs ==
  {"none", "check", "try", "publish", "snapshot", "restore", "done"}
Restorers ==
  [pc : RestorerPcs, attempt : 1..PublishRetryCount, handle : 0..MaxConnects,
   todo : SUBSET Topics]

\* Whoever may still make a client has not made them all; one that has a
\* connection, or tries to get one, is the client's.
ClientCounted ==
  /\ main \in {"connect", "create", "pause"} => connects < MaxConnects
  /\ main = "create" => paho = "none"
  /\ paho \in {"trying", "up"} => client # 0
  /\ Up => session # 0

\* A command the broker never had has not been applied.
Counted == \A t \in Topics : applied[t] <= 1 /\ (t \notin kept => applied[t] = 0)

\* main tracks a topic before it asks for it (Subscribe).
AskedIsTracked == Alive => Topics \ toSubscribe \subseteq tracked

\* Offline is announced only by a client that says it is shutting down.
FarewellAnnounced == main \in {"farewell", "close"} => shuttingDown

\* A connection begins with the will of the one before it sent.
WillSettled == Connected => ~willDue

\* The goroutine of the connection that is open.
Own == restorer[session]

(***************************************************************************)
(* On an open connection every topic main asked for is delivered, or the   *)
(* broker turned it down, or it is still on the way of this connection's   *)
(* own onConnected; a topic is never left to the one of an earlier         *)
(* connection, nor to main (Subscribe, onConnected, resubscribeAll).       *)
(***************************************************************************)
Restoring(t) ==
  \/ t \in subscribed \cup refused
  \/ Own.pc \in {"check", "try", "publish", "snapshot"}
  \/ Own.pc = "restore" /\ t \in Own.todo
NoTopicForgotten ==
  Connected /\ ~shuttingDown => \A t \in Topics \ toSubscribe : Restoring(t)

(***************************************************************************)
(* On an open connection the gateway is shown as online, or this           *)
(* connection's own onConnected is about to say so, or has tried as often  *)
(* as it may (onConnected, publishRetained).                               *)
(***************************************************************************)
OnlineOrAnnouncing ==
  Connected /\ ~shuttingDown =>
    \/ availability = "online"
    \/ Own.pc \in {"check", "try", "publish"}
    \/ Unannounced

(***************************************************************************)
(* A process that died on an open connection is shown as offline, or the   *)
(* broker still owes the will (clientOptions).                             *)
(***************************************************************************)
DeadWillBeKnown ==
  main = "crashed" /\ Up => willDue \/ availability = "offline"

MInv ==
  /\ TypeOK
  /\ ClientCounted
  /\ Counted
  /\ AskedIsTracked
  /\ FarewellAnnounced
  /\ WillSettled
  /\ NoTopicForgotten
  /\ OnlineOrAnnouncing
  /\ DeadWillBeKnown
-----------------------------------------------------------------------------
\* The constants as the provers want them.
LEMMA Limits ==
  /\ MaxConnects \in Nat /\ PublishRetryCount \in Nat /\ MaxSessions \in Nat
  /\ PublishRetryCount >= 1 /\ MaxConnects >= 1
  /\ Commanded \subseteq Topics
BY MqttLimits

\* A goroutine that has not been started, or has been, is one.
LEMMA IdleRestorer ==
  Idle \in Restorers /\ [Idle EXCEPT !.pc = "check"] \in Restorers
BY Limits DEF Idle, Restorers, RestorerPcs

\* One attempt to announce leads to the next, or to the subscriptions.
LEMMA TriedType ==
  ASSUME NEW r \in Restorers
  PROVE  /\ [r EXCEPT !.pc = "snapshot", !.handle = 0] \in Restorers
         /\ r.attempt # PublishRetryCount =>
              [r EXCEPT !.pc = "try", !.handle = 0, !.attempt = @ + 1]
                \in Restorers
<1>1. 0 \in 0..MaxConnects /\ "try" \in RestorerPcs /\ "snapshot" \in RestorerPcs
  BY Limits DEF RestorerPcs
<1>2. [r EXCEPT !.pc = "snapshot", !.handle = 0] \in Restorers
  BY <1>1 DEF Restorers
<1>3. ASSUME r.attempt # PublishRetryCount
      PROVE  [r EXCEPT !.pc = "try", !.handle = 0, !.attempt = @ + 1] \in Restorers
  <2> DEFINE n == r.attempt + 1
  <2>1. n \in 1..PublishRetryCount
    BY <1>3, Limits DEF Restorers
  <2>2. [r EXCEPT !.pc = "try", !.handle = 0, !.attempt = @ + 1]
          = [r EXCEPT !.pc = "try", !.handle = 0, !.attempt = n]
    OBVIOUS
  <2> HIDE DEF n
  <2>3. [r EXCEPT !.pc = "try", !.handle = 0, !.attempt = n] \in Restorers
    BY <1>1, <2>1 DEF Restorers
  <2>4. QED
    BY <2>2, <2>3
<1>4. QED
  BY <1>2, <1>3

\* One attempt to subscribe keeps the broker's types.
LEMMA SubscribesType ==
  ASSUME TypeOK, NEW t \in Topics, NEW taken \in BOOLEAN, Subscribes(t, taken)
  PROVE  /\ subscribed' \subseteq Topics /\ refused' \subseteq Topics
         /\ kept' \subseteq Topics /\ applied' \in [Topics -> Nat]
         /\ availability' = availability /\ willDue' = willDue
BY DEF TypeOK, Subscribes, Heard

\* One attempt to publish the availability changes nothing else.
LEMMA PublishesType ==
  ASSUME TypeOK, NEW value \in {"offline", "online"}, NEW fate \in Fates,
         Publishes(value, fate)
  PROVE  /\ availability' \in {availability, value}
         /\ UNCHANGED <<willDue, subscribed, refused, kept, applied>>
BY DEF Publishes

\* Every step of the broker and the network keeps every variable in its type.
LEMMA BrokerTypes ==
  ASSUME TypeOK,
         \/ ConnectionLost \/ SendsWill \/ Accepts
         \/ \E t \in Commanded : UserCommands(t)
  PROVE  TypeOK'
<1> USE Limits DEF TypeOK, mainVars, conn, broker
<1>1. CASE ConnectionLost
  BY <1>1 DEF ConnectionLost, Breaks, Forgets
<1>2. CASE SendsWill
  BY <1>2 DEF SendsWill
<1>3. CASE Accepts
  <2>1. session' \in 0..MaxSessions
    BY <1>3 DEF Accepts
  <2>2. restorer' \in [Sessions -> Restorers]
    BY <1>3, IdleRestorer DEF Accepts, Restorers, RestorerPcs
  <2>3. QED
    BY <1>3, <2>1, <2>2 DEF Accepts, Forgets, Restorers, RestorerPcs
<1>4. ASSUME NEW t \in Commanded, UserCommands(t)
      PROVE  TypeOK'
  BY <1>4 DEF UserCommands, Heard
<1>5. QED
  BY <1>1, <1>2, <1>3, <1>4

\* So does every step of main.
LEMMA MainTypes ==
  ASSUME TypeOK, ClientCounted, MainProceeds \/ Stop \/ Killed
  PROVE  TypeOK'
<1> USE Limits DEF TypeOK, mainVars, conn, broker
<1>1. CASE CloseExisting
  BY <1>1 DEF CloseExisting, Parts, Forgets
<1>2. CASE CreateClient
  BY <1>2 DEF CreateClient, ClientCounted
<1>3. CASE Pause \/ Cancelled \/ StartShutdown \/ Stop
  BY <1>3 DEF Pause, Cancelled, StartShutdown, Stop
<1>4. ASSUME NEW timeout \in BOOLEAN, ConnectFails(timeout)
      PROVE  TypeOK'
  BY <1>4 DEF ConnectFails
<1>5. ASSUME NEW t \in Topics, Track(t)
      PROVE  TypeOK'
  BY <1>5 DEF Track
<1>6. ASSUME NEW t \in Topics, NEW taken \in BOOLEAN, SubscribeTracked(t, taken)
      PROVE  TypeOK'
  <2>1. Subscribes(t, taken)
    BY <1>6 DEF SubscribeTracked
  <2>2. QED
    BY SMTT(30), <1>6, <2>1, SubscribesType DEF SubscribeTracked
<1>7. ASSUME NEW fate \in Fates, Farewell(fate)
      PROVE  TypeOK'
  BY SMTT(30), <1>7 DEF Farewell, Publishes
<1>8. CASE Disconnect
  BY <1>8, IdleRestorer
     DEF Disconnect, Parts, Forgets, Exits, Restorers, RestorerPcs
<1>9. CASE GivesUp \/ Killed
  BY <1>9, IdleRestorer
     DEF GivesUp, Killed, Dies, Breaks, Forgets, Exits, Restorers, RestorerPcs
<1>10. QED
  BY <1>1, <1>2, <1>3, <1>4, <1>5, <1>6, <1>7, <1>8, <1>9 DEF MainProceeds

\* And every step of an onConnected.
LEMMA RestorerTypes ==
  ASSUME TypeOK, NEW s \in Sessions, Restores(s)
  PROVE  TypeOK'
<1> USE Limits DEF TypeOK, mainVars, conn, broker, RestorerAt
<1>1. CASE CheckShutdown(s)
  BY <1>1 DEF CheckShutdown, To
<1>2. CASE TryAnnounce(s)
  <2>1. restorer[s] \in Restorers /\ client \in 0..MaxConnects
    BY DEF Restorers, RestorerPcs
  <2>2. /\ [restorer[s] EXCEPT !.pc = "publish", !.handle = client] \in Restorers
        /\ [restorer[s] EXCEPT !.pc = "snapshot"] \in Restorers
    BY <2>1 DEF Restorers, RestorerPcs
  <2>3. restorer' \in [Sessions -> Restorers]
    BY SMTT(60), <1>2, <2>2 DEF TryAnnounce, Restorers, RestorerPcs
  <2>4. QED
    <3>1. UNCHANGED <<mainVars, conn, broker, shuttingDown, tracked>>
      BY <1>2 DEF TryAnnounce
    <3>2. QED
      BY <2>3, <3>1 DEF Restorers, RestorerPcs
<1>3. CASE Snapshot(s)
  BY ZenonT(60), <1>3 DEF Snapshot
<1>4. ASSUME NEW fate \in Fates, Announce(s, fate)
      PROVE  TypeOK'
  <2>1. restorer[s] \in Restorers
    BY DEF Restorers, RestorerPcs
  <2>2. restorer' \in [Sessions -> Restorers]
    BY ZenonT(60), <1>4, <2>1, TriedType DEF Announce, Restorers, RestorerPcs
  <2>3. QED
    <3>1. /\ UNCHANGED <<mainVars, conn, shuttingDown, tracked>>
          /\ UNCHANGED <<willDue, subscribed, refused, kept, applied>>
          /\ availability' \in {availability, "online"}
      BY <1>4 DEF Announce, Publishes
    <3>2. QED
      BY <2>2, <3>1 DEF Restorers, RestorerPcs
<1>5. ASSUME NEW t \in Topics, NEW taken \in BOOLEAN, Restore(s, t, taken)
      PROVE  TypeOK'
  <2>1. Subscribes(t, taken)
    BY <1>5 DEF Restore
  <2>2. restorer' \in [Sessions -> Restorers]
    BY ZenonT(60), <1>5 DEF Restore, Restorers, RestorerPcs
  <2>3. QED
    <3>1. UNCHANGED <<mainVars, conn, shuttingDown, tracked>>
      BY <1>5 DEF Restore
    <3>2. /\ subscribed' \subseteq Topics /\ refused' \subseteq Topics
          /\ kept' \subseteq Topics /\ applied' \in [Topics -> Nat]
          /\ availability' = availability /\ willDue' = willDue
      BY <2>1, SubscribesType
    <3>3. QED
      BY <2>2, <3>1, <3>2 DEF Restorers, RestorerPcs
<1>6. QED
  BY <1>1, <1>2, <1>3, <1>4, <1>5 DEF Restores

\* Every step keeps every variable in its type.
LEMMA TypeStep ==
  ASSUME TypeOK, ClientCounted, [Next]_vars
  PROVE  TypeOK'
<1>1. CASE UNCHANGED vars
  BY <1>1 DEF vars, mainVars, conn, broker, TypeOK
<1>2. QED
  BY <1>1, BrokerTypes, MainTypes, RestorerTypes DEF Next

\* Clients and connections are counted right.
LEMMA ClientStep ==
  ASSUME TypeOK, ClientCounted, [Next]_vars
  PROVE  ClientCounted'
<1> USE Limits DEF TypeOK, ClientCounted, Up, mainVars, conn
<1>1. CASE ConnectionLost \/ SendsWill \/ Accepts
  BY <1>1 DEF ConnectionLost, SendsWill, Accepts
<1>2. ASSUME NEW t \in Commanded, UserCommands(t)
      PROVE  ClientCounted'
  BY <1>2 DEF UserCommands
<1>3. CASE MainProceeds
  <2>1. CASE CloseExisting \/ CreateClient
    BY <2>1 DEF CloseExisting, CreateClient
  <2>2. CASE Pause \/ Cancelled \/ StartShutdown \/ Disconnect
    BY <2>2 DEF Pause, Cancelled, StartShutdown, Disconnect, Exits
  <2>3. ASSUME NEW timeout \in BOOLEAN, ConnectFails(timeout)
        PROVE  ClientCounted'
    BY <2>3 DEF ConnectFails
  <2>4. ASSUME NEW t \in Topics, Track(t)
        PROVE  ClientCounted'
    BY <2>4 DEF Track
  <2>5. ASSUME NEW t \in Topics, NEW taken \in BOOLEAN,
               SubscribeTracked(t, taken)
        PROVE  ClientCounted'
    BY <2>5 DEF SubscribeTracked
  <2>6. ASSUME NEW fate \in Fates, Farewell(fate)
        PROVE  ClientCounted'
    BY <2>6 DEF Farewell
  <2>7. CASE GivesUp
    BY <2>7 DEF GivesUp, Dies, Exits
  <2>8. QED
    BY <1>3, <2>1, <2>2, <2>3, <2>4, <2>5, <2>6, <2>7 DEF MainProceeds
<1>4. CASE Stop \/ Killed
  BY <1>4 DEF Stop, Killed, Dies, Exits
<1>5. ASSUME NEW s \in Sessions, Restores(s)
      PROVE  ClientCounted'
  BY <1>5 DEF Restores, CheckShutdown, TryAnnounce, Snapshot, Announce, Restore
<1>6. CASE UNCHANGED vars
  BY <1>6 DEF vars
<1>7. QED
  BY <1>1, <1>2, <1>3, <1>4, <1>5, <1>6 DEF Next

\* One attempt to subscribe applies nothing: the broker's copy is a retained one.
LEMMA SubscribesApplies ==
  ASSUME TypeOK, NEW t \in Topics, NEW taken \in BOOLEAN, Subscribes(t, taken)
  PROVE  applied' = applied /\ kept' = kept
BY DEF TypeOK, Subscribes, Heard

\* A command is only counted when it is new to the broker.
LEMMA CountedStep ==
  ASSUME TypeOK, Counted, [Next]_vars
  PROVE  Counted'
<1>1. ASSUME NEW t \in Commanded, UserCommands(t)
      PROVE  Counted'
  BY <1>1, Limits DEF UserCommands, Heard, Counted, TypeOK
<1>2. ASSUME applied' = applied, kept' = kept
      PROVE  Counted'
  BY <1>2 DEF Counted
<1>3. CASE ConnectionLost \/ SendsWill \/ Accepts \/ Stop \/ Killed
  BY <1>2, <1>3
     DEF ConnectionLost, SendsWill, Accepts, Stop, Killed, Dies, Breaks, broker
<1>4. CASE MainProceeds
  <2>1. CASE CloseExisting \/ CreateClient \/ Pause \/ Cancelled
              \/ StartShutdown \/ Disconnect \/ GivesUp
    BY <1>2, <2>1
       DEF CloseExisting, CreateClient, Pause, Cancelled, StartShutdown,
           Disconnect, GivesUp, Dies, Breaks, Parts, broker
  <2>2. ASSUME NEW timeout \in BOOLEAN, ConnectFails(timeout)
        PROVE  Counted'
    BY <1>2, <2>2 DEF ConnectFails, broker
  <2>3. ASSUME NEW t \in Topics, Track(t)
        PROVE  Counted'
    BY <1>2, <2>3 DEF Track, broker
  <2>4. ASSUME NEW t \in Topics, NEW taken \in BOOLEAN,
               SubscribeTracked(t, taken)
        PROVE  Counted'
    BY <1>2, <2>4, SubscribesApplies DEF SubscribeTracked
  <2>5. ASSUME NEW fate \in Fates, Farewell(fate)
        PROVE  Counted'
    BY <1>2, <2>5 DEF Farewell, Publishes, broker
  <2>6. QED
    BY <1>4, <2>1, <2>2, <2>3, <2>4, <2>5 DEF MainProceeds
<1>5. ASSUME NEW s \in Sessions, Restores(s)
      PROVE  Counted'
  <2>1. ASSUME NEW fate \in Fates, Announce(s, fate)
        PROVE  Counted'
    BY <1>2, <2>1 DEF Announce, Publishes
  <2>2. ASSUME NEW t \in Topics, NEW taken \in BOOLEAN, Restore(s, t, taken)
        PROVE  Counted'
    BY <1>2, <2>2, SubscribesApplies DEF Restore
  <2>3. CASE CheckShutdown(s) \/ TryAnnounce(s) \/ Snapshot(s)
    BY <1>2, <2>3 DEF CheckShutdown, TryAnnounce, Snapshot, broker
  <2>4. QED
    BY <1>5, <2>1, <2>2, <2>3 DEF Restores
<1>6. CASE UNCHANGED vars
  BY <1>2, <1>6 DEF vars, broker
<1>7. QED
  BY <1>1, <1>3, <1>4, <1>5, <1>6 DEF Next

\* main tracks before it asks, and says it is shutting down before it announces.
LEMMA MainStep ==
  ASSUME TypeOK, AskedIsTracked, FarewellAnnounced, [Next]_vars
  PROVE  AskedIsTracked' /\ FarewellAnnounced'
<1> USE DEF TypeOK, AskedIsTracked, FarewellAnnounced, Alive, mainVars
<1>1. CASE ConnectionLost \/ SendsWill \/ Accepts
  BY <1>1 DEF ConnectionLost, SendsWill, Accepts
<1>2. ASSUME NEW t \in Commanded, UserCommands(t)
      PROVE  AskedIsTracked' /\ FarewellAnnounced'
  BY <1>2 DEF UserCommands
<1>3. CASE MainProceeds
  <2>1. CASE CloseExisting \/ CreateClient \/ Pause \/ Cancelled
              \/ StartShutdown
    BY <2>1 DEF CloseExisting, CreateClient, Pause, Cancelled, StartShutdown
  <2>2. ASSUME NEW timeout \in BOOLEAN, ConnectFails(timeout)
        PROVE  AskedIsTracked' /\ FarewellAnnounced'
    BY <2>2 DEF ConnectFails
  <2>3. ASSUME NEW t \in Topics, Track(t)
        PROVE  AskedIsTracked' /\ FarewellAnnounced'
    BY <2>3 DEF Track
  <2>4. ASSUME NEW t \in Topics, NEW taken \in BOOLEAN,
               SubscribeTracked(t, taken)
        PROVE  AskedIsTracked' /\ FarewellAnnounced'
    BY <2>4 DEF SubscribeTracked
  <2>5. ASSUME NEW fate \in Fates, Farewell(fate)
        PROVE  AskedIsTracked' /\ FarewellAnnounced'
    BY <2>5 DEF Farewell
  <2>6. CASE Disconnect \/ GivesUp
    BY <2>6 DEF Disconnect, GivesUp, Dies, Exits
  <2>7. QED
    BY <1>3, <2>1, <2>2, <2>3, <2>4, <2>5, <2>6 DEF MainProceeds
<1>4. CASE Stop \/ Killed
  BY <1>4 DEF Stop, Killed, Dies, Exits
<1>5. ASSUME NEW s \in Sessions, Restores(s)
      PROVE  AskedIsTracked' /\ FarewellAnnounced'
  BY <1>5 DEF Restores, CheckShutdown, TryAnnounce, Snapshot, Announce, Restore
<1>6. CASE UNCHANGED vars
  BY <1>6 DEF vars
<1>7. QED
  BY <1>1, <1>2, <1>3, <1>4, <1>5, <1>6 DEF Next

\* Whoever dies on an open connection leaves the will to the broker.
LEMMA DiesWithWill ==
  ASSUME Dies
  PROVE  main' = "crashed" /\ (paho' = "up" => willDue')
<1>1. main' = "crashed" /\ paho' = paho /\ willDue' = (willDue \/ paho = "up")
  BY DEF Dies, Breaks, Up
<1>2. QED
  BY <1>1, Zenon

\* What an onConnected leaves alone.
LEMMA RestoresLeaves ==
  ASSUME NEW s \in Sessions, Restores(s)
  PROVE  /\ Alive
         /\ UNCHANGED <<main, stop, toSubscribe, client, connects, paho,
                        session, shuttingDown, tracked, willDue, kept>>
<1> USE DEF RestorerAt, mainVars, conn, broker
<1>1. CASE CheckShutdown(s) \/ TryAnnounce(s) \/ Snapshot(s)
  BY <1>1 DEF CheckShutdown, TryAnnounce, Snapshot
<1>2. ASSUME NEW fate \in Fates, Announce(s, fate)
      PROVE  /\ Alive
             /\ UNCHANGED <<main, stop, toSubscribe, client, connects, paho,
                            session, shuttingDown, tracked, willDue, kept>>
  BY <1>2 DEF Announce, Publishes
<1>3. ASSUME NEW t \in Topics, NEW taken \in BOOLEAN, Restore(s, t, taken)
      PROVE  /\ Alive
             /\ UNCHANGED <<main, stop, toSubscribe, client, connects, paho,
                            session, shuttingDown, tracked, willDue, kept>>
  BY <1>3 DEF Restore, Subscribes
<1>4. QED
  BY <1>1, <1>2, <1>3 DEF Restores

\* The will follows every unclean end, and is sent before the next connection.
LEMMA WillStep ==
  ASSUME TypeOK, WillSettled, DeadWillBeKnown, [Next]_vars
  PROVE  WillSettled' /\ DeadWillBeKnown'
<1> USE DEF TypeOK, WillSettled, DeadWillBeKnown, Connected, Alive, Up,
            mainVars, conn, broker
<1>1. CASE ConnectionLost \/ SendsWill \/ Accepts
  BY <1>1 DEF ConnectionLost, Breaks, SendsWill, Accepts
<1>2. ASSUME NEW t \in Commanded, UserCommands(t)
      PROVE  WillSettled' /\ DeadWillBeKnown'
  BY <1>2 DEF UserCommands
<1>3. CASE MainProceeds
  <2>1. CASE CloseExisting \/ CreateClient \/ Pause \/ Cancelled
              \/ StartShutdown \/ Disconnect
    BY <2>1 DEF CloseExisting, CreateClient, Pause, Cancelled, StartShutdown,
                Disconnect, Parts
  <2>2. ASSUME NEW timeout \in BOOLEAN, ConnectFails(timeout)
        PROVE  WillSettled' /\ DeadWillBeKnown'
    BY <2>2 DEF ConnectFails
  <2>3. ASSUME NEW t \in Topics, Track(t)
        PROVE  WillSettled' /\ DeadWillBeKnown'
    BY <2>3 DEF Track
  <2>4. ASSUME NEW t \in Topics, NEW taken \in BOOLEAN,
               SubscribeTracked(t, taken)
        PROVE  WillSettled' /\ DeadWillBeKnown'
    BY <2>4 DEF SubscribeTracked, Subscribes
  <2>5. ASSUME NEW fate \in Fates, Farewell(fate)
        PROVE  WillSettled' /\ DeadWillBeKnown'
    BY <2>5 DEF Farewell, Publishes
  <2>6. CASE GivesUp
    BY <2>6, DiesWithWill DEF GivesUp
  <2>7. QED
    BY <1>3, <2>1, <2>2, <2>3, <2>4, <2>5, <2>6 DEF MainProceeds
<1>4. CASE Stop \/ Killed
  BY <1>4, DiesWithWill DEF Stop, Killed
<1>5. ASSUME NEW s \in Sessions, Restores(s)
      PROVE  WillSettled' /\ DeadWillBeKnown'
  BY <1>5, RestoresLeaves
<1>6. CASE UNCHANGED vars
  BY <1>6 DEF vars
<1>7. QED
  BY <1>1, <1>2, <1>3, <1>4, <1>5, <1>6 DEF Next

\* An attempt to subscribe settles its topic on an open connection, and no
\* topic becomes unsettled by it.
LEMMA SubscribesSettles ==
  ASSUME NEW t \in Topics, NEW taken \in BOOLEAN, Subscribes(t, taken)
  PROVE  /\ subscribed \cup refused \subseteq subscribed' \cup refused'
         /\ Up => t \in subscribed' \cup refused'
BY DEF Subscribes

\* The goroutine of the open connection is one of those counted.
LEMMA OwnSession ==
  ASSUME TypeOK, ClientCounted, Up
  PROVE  session \in Sessions /\ client # 0
BY Limits DEF TypeOK, ClientCounted, Up, Sessions

\* What is left alone by the steps that have nothing to do with a topic.
LEMMA TopicKept ==
  ASSUME NoTopicForgotten, Connected' => Connected, shuttingDown' = shuttingDown,
         UNCHANGED <<subscribed, refused, restorer, session>>,
         toSubscribe \subseteq toSubscribe'
  PROVE  NoTopicForgotten'
BY DEF NoTopicForgotten, Restoring, Own

\* No topic main asked for is ever left to nobody.
LEMMA TopicStep ==
  ASSUME TypeOK, ClientCounted, AskedIsTracked, FarewellAnnounced,
         NoTopicForgotten, [Next]_vars
  PROVE  NoTopicForgotten'
<1> USE DEF Connected, Alive, Up, mainVars, conn, broker
<1>1. CASE ConnectionLost
  BY <1>1 DEF ConnectionLost, NoTopicForgotten
<1>2. CASE SendsWill
  BY <1>2, TopicKept DEF SendsWill
<1>3. CASE Accepts
  <2>1. session + 1 \in Sessions
    BY <1>3, Limits DEF Accepts, TypeOK, Sessions
  <2>2. Own'.pc = "check"
    BY <1>3, <2>1 DEF Accepts, Own, TypeOK, Idle
  <2>3. QED
    BY <2>2 DEF NoTopicForgotten, Restoring
<1>4. ASSUME NEW t \in Commanded, UserCommands(t)
      PROVE  NoTopicForgotten'
  BY <1>4, TopicKept DEF UserCommands
<1>5. CASE MainProceeds
  <2>1. CASE CloseExisting \/ CreateClient \/ Disconnect \/ GivesUp
              \/ StartShutdown
    BY <2>1 DEF CloseExisting, CreateClient, Disconnect, GivesUp, Dies,
                StartShutdown, NoTopicForgotten
  <2>2. CASE Pause \/ Cancelled
    BY <2>2, TopicKept DEF Pause, Cancelled
  <2>3. ASSUME NEW timeout \in BOOLEAN, ConnectFails(timeout)
        PROVE  NoTopicForgotten'
    BY <2>3, TopicKept DEF ConnectFails
  <2>4. ASSUME NEW t \in Topics, Track(t)
        PROVE  NoTopicForgotten'
    BY <2>4, TopicKept DEF Track
  <2>5. ASSUME NEW t \in Topics, NEW taken \in BOOLEAN,
               SubscribeTracked(t, taken)
        PROVE  NoTopicForgotten'
    <3>1. Subscribes(t, taken)
      BY <2>5 DEF SubscribeTracked
    <3>2. /\ toSubscribe' = toSubscribe \ {t}
          /\ UNCHANGED <<conn, shuttingDown, restorer>>
      BY <2>5 DEF SubscribeTracked
    <3>3. Connected' => Connected
      BY <2>5, <3>2 DEF SubscribeTracked
    <3>4. QED
      BY <3>1, <3>2, <3>3, SubscribesSettles
         DEF NoTopicForgotten, Restoring, Own
  <2>6. ASSUME NEW fate \in Fates, Farewell(fate)
        PROVE  NoTopicForgotten'
    BY <2>6 DEF Farewell, FarewellAnnounced, NoTopicForgotten
  <2>7. QED
    BY <1>5, <2>1, <2>2, <2>3, <2>4, <2>5, <2>6 DEF MainProceeds
<1>6. CASE Stop
  BY <1>6, TopicKept DEF Stop
<1>7. CASE Killed
  BY <1>7 DEF Killed, Dies, NoTopicForgotten
<1>8. ASSUME NEW s \in Sessions, Restores(s)
      PROVE  NoTopicForgotten'
  <2> SUFFICES ASSUME Connected', ~shuttingDown',
                      NEW t \in Topics \ toSubscribe'
               PROVE  Restoring(t)'
    BY DEF NoTopicForgotten
  <2>1. /\ Connected /\ ~shuttingDown /\ t \in Topics \ toSubscribe
        /\ UNCHANGED <<conn, toSubscribe, tracked>>
    BY <1>8, RestoresLeaves
  <2>2. Restoring(t) /\ session \in Sessions /\ t \in tracked
    BY <2>1, OwnSession DEF NoTopicForgotten, AskedIsTracked
  <2>3. subscribed \cup refused \subseteq subscribed' \cup refused'
    BY <1>8, SubscribesSettles
       DEF Restores, CheckShutdown, TryAnnounce, Snapshot, Announce, Publishes,
           Restore
  <2>4. ASSUME s # session
        PROVE  Restoring(t)'
    <3>1. Own' = Own
      BY <1>8, <2>1, <2>2, <2>4
         DEF Own, TypeOK, Restores, CheckShutdown, To, TryAnnounce, Snapshot,
             Announce, Restore
    <3>2. QED
      BY <2>2, <2>3, <3>1 DEF Restoring
  <2>5. ASSUME s = session
        PROVE  Restoring(t)'
    <3> USE <2>1, <2>2, <2>3, <2>5 DEF Restoring, Own, TypeOK
    <3>1. CASE CheckShutdown(s)
      BY <3>1 DEF CheckShutdown, To
    <3>2. CASE TryAnnounce(s)
      BY <3>2 DEF TryAnnounce
    <3>3. CASE Snapshot(s)
      BY <3>3 DEF Snapshot
    <3>4. ASSUME NEW fate \in Fates, Announce(s, fate)
          PROVE  Restoring(t)'
      BY <3>4 DEF Announce
    <3>5. ASSUME NEW u \in Topics, NEW taken \in BOOLEAN, Restore(s, u, taken)
          PROVE  Restoring(t)'
      <4>1. u \in subscribed' \cup refused'
        BY <3>5, SubscribesSettles DEF Restore
      <4>2. t # u /\ t \in Own.todo => Own'.pc = "restore" /\ t \in Own'.todo
        BY <3>5 DEF Restore, RestorerAt
      <4>3. Own.pc = "restore"
        BY <3>5 DEF Restore, RestorerAt
      <4>4. QED
        BY <4>1, <4>2, <4>3
    <3>6. QED
      BY <1>8, <3>1, <3>2, <3>3, <3>4, <3>5 DEF Restores
  <2>6. QED
    BY <2>4, <2>5
<1>9. CASE UNCHANGED vars
  BY <1>9, TopicKept DEF vars
<1>10. QED
  BY <1>1, <1>2, <1>3, <1>4, <1>5, <1>6, <1>7, <1>8, <1>9 DEF Next

\* What is left alone by the steps that have nothing to do with announcing.
LEMMA OnlineKept ==
  ASSUME OnlineOrAnnouncing, Connected' => Connected,
         UNCHANGED <<shuttingDown, availability, restorer, session>>
  PROVE  OnlineOrAnnouncing'
BY DEF OnlineOrAnnouncing, Unannounced, Own

\* Nobody takes the announcement back, and the one who owes it makes it.
LEMMA OnlineStep ==
  ASSUME TypeOK, ClientCounted, FarewellAnnounced, WillSettled,
         OnlineOrAnnouncing, [Next]_vars
  PROVE  OnlineOrAnnouncing'
<1> USE DEF Connected, Alive, Up, mainVars, conn, broker
<1>1. CASE ConnectionLost
  BY <1>1 DEF ConnectionLost, OnlineOrAnnouncing
<1>2. CASE SendsWill
  BY <1>2 DEF SendsWill, WillSettled, OnlineOrAnnouncing
<1>3. CASE Accepts
  <2>1. session + 1 \in Sessions
    BY <1>3, Limits DEF Accepts, TypeOK, Sessions
  <2>2. Own'.pc = "check"
    BY <1>3, <2>1 DEF Accepts, Own, TypeOK, Idle
  <2>3. QED
    BY <2>2 DEF OnlineOrAnnouncing
<1>4. ASSUME NEW t \in Commanded, UserCommands(t)
      PROVE  OnlineOrAnnouncing'
  BY <1>4, OnlineKept DEF UserCommands
<1>5. CASE MainProceeds
  <2>1. CASE CloseExisting \/ CreateClient \/ Disconnect \/ GivesUp
              \/ StartShutdown
    BY <2>1 DEF CloseExisting, CreateClient, Disconnect, GivesUp, Dies,
                StartShutdown, OnlineOrAnnouncing
  <2>2. CASE Pause \/ Cancelled
    BY <2>2, OnlineKept DEF Pause, Cancelled
  <2>3. ASSUME NEW timeout \in BOOLEAN, ConnectFails(timeout)
        PROVE  OnlineOrAnnouncing'
    BY <2>3, OnlineKept DEF ConnectFails
  <2>4. ASSUME NEW t \in Topics, Track(t)
        PROVE  OnlineOrAnnouncing'
    BY <2>4, OnlineKept DEF Track
  <2>5. ASSUME NEW t \in Topics, NEW taken \in BOOLEAN,
               SubscribeTracked(t, taken)
        PROVE  OnlineOrAnnouncing'
    BY <2>5, OnlineKept DEF SubscribeTracked, Subscribes
  <2>6. ASSUME NEW fate \in Fates, Farewell(fate)
        PROVE  OnlineOrAnnouncing'
    BY <2>6 DEF Farewell, FarewellAnnounced, OnlineOrAnnouncing
  <2>7. QED
    BY <1>5, <2>1, <2>2, <2>3, <2>4, <2>5, <2>6 DEF MainProceeds
<1>6. CASE Stop
  BY <1>6, OnlineKept DEF Stop
<1>7. CASE Killed
  BY <1>7 DEF Killed, Dies, OnlineOrAnnouncing
<1>8. ASSUME NEW s \in Sessions, Restores(s)
      PROVE  OnlineOrAnnouncing'
  <2> SUFFICES ASSUME Connected', ~shuttingDown'
               PROVE  \/ availability' = "online"
                      \/ Own'.pc \in {"check", "try", "publish"}
                      \/ Unannounced'
    BY DEF OnlineOrAnnouncing
  <2>1. /\ Connected /\ ~shuttingDown /\ session \in Sessions /\ client # 0
        /\ session' = session
    BY <1>8, RestoresLeaves, OwnSession
  <2>2. availability' \in {availability, "online"}
    BY <1>8 DEF Restores, CheckShutdown, TryAnnounce, Snapshot, Announce,
                Publishes, Restore, Subscribes
  <2>3. ASSUME s # session
        PROVE  Own' = Own
    BY <1>8, <2>1, <2>3
       DEF Own, TypeOK, Restores, CheckShutdown, To, TryAnnounce, Snapshot,
           Announce, Restore
  <2>4. CASE s = session
    <3> USE <2>1, <2>4 DEF Own, Unannounced, TypeOK
    <3>1. CASE CheckShutdown(s)
      BY <3>1 DEF CheckShutdown, To
    <3>2. CASE TryAnnounce(s)
      BY <3>2 DEF TryAnnounce
    <3>3. CASE Snapshot(s)
      BY <3>3, <2>2 DEF Snapshot, RestorerAt, OnlineOrAnnouncing
    <3>4. ASSUME NEW fate \in Fates, Announce(s, fate)
          PROVE  \/ availability' = "online"
                 \/ Own'.pc \in {"check", "try", "publish"}
                 \/ Unannounced'
      BY <3>4 DEF Announce, Publishes, ClientCounted
    <3>5. ASSUME NEW u \in Topics, NEW taken \in BOOLEAN, Restore(s, u, taken)
          PROVE  \/ availability' = "online"
                 \/ Own'.pc \in {"check", "try", "publish"}
                 \/ Unannounced'
      BY <3>5, <2>2 DEF Restore, RestorerAt, OnlineOrAnnouncing
    <3>6. QED
      BY <1>8, <3>1, <3>2, <3>3, <3>4, <3>5 DEF Restores
  <2>5. CASE s # session
    BY <2>1, <2>2, <2>3, <2>5 DEF OnlineOrAnnouncing, Unannounced, Own
  <2>6. QED
    BY <2>4, <2>5
<1>9. CASE UNCHANGED vars
  BY <1>9, OnlineKept DEF vars
<1>10. QED
  BY <1>1, <1>2, <1>3, <1>4, <1>5, <1>6, <1>7, <1>8, <1>9 DEF Next

\* The strengthened invariant is inductive.
LEMMA Invariance == Spec => []MInv
<1>1. Init => MInv
  <2> SUFFICES ASSUME Init
               PROVE  MInv
    OBVIOUS
  <2>1. TypeOK
    <3>1. restorer \in [Sessions -> Restorers]
      BY IdleRestorer DEF Init
    <3>2. availability \in {"none", "offline", "online"}
      BY DEF Init
    <3>3. connects \in 0..MaxConnects /\ client \in 0..connects
          /\ session \in 0..MaxSessions
      BY Limits DEF Init
    <3>4. QED
      BY <3>1, <3>2, <3>3 DEF Init, TypeOK, Restorers, RestorerPcs
  <2>2. /\ ClientCounted /\ Counted /\ FarewellAnnounced /\ WillSettled
        /\ AskedIsTracked
    BY Limits DEF Init, ClientCounted, Counted, FarewellAnnounced,
                  WillSettled, AskedIsTracked, Up
  <2>3. NoTopicForgotten /\ OnlineOrAnnouncing /\ DeadWillBeKnown
    BY DEF Init, NoTopicForgotten, OnlineOrAnnouncing, DeadWillBeKnown,
           Connected, Up
  <2>4. QED
    BY <2>1, <2>2, <2>3 DEF MInv
<1>2. MInv /\ [Next]_vars => MInv'
  BY TypeStep, ClientStep, CountedStep, MainStep, WillStep, TopicStep,
     OnlineStep
     DEF MInv
<1>3. QED
  BY <1>1, <1>2, PTL DEF Spec
-----------------------------------------------------------------------------
(***************************************************************************)
(* Every variable of the client stays in its type; in particular no more   *)
(* than MaxConnects paho clients are ever made (connectMQTTWithRetry).     *)
(***************************************************************************)
THEOREM MqttTypeCorrect == Spec => []TypeOK
BY Invariance, PTL DEF MInv

(***************************************************************************)
(* A retained command is applied once at most, for any number of           *)
(* connections and of subscriptions made, failed and restored (subscribe). *)
(***************************************************************************)
THEOREM CommandAppliedOnce == Spec => []AppliedOnce
<1>1. MInv => AppliedOnce
  BY DEF MInv, Counted, AppliedOnce
<1>2. QED
  BY Invariance, <1>1, PTL

(***************************************************************************)
(* On an open connection a topic main asked for is delivered, turned down, *)
(* or still ahead of this very connection's onConnected: what makes        *)
(* SubscriptionsRestored a matter of fairness alone.                       *)
(***************************************************************************)
THEOREM TopicsNeverForgotten == Spec => []NoTopicForgotten
BY Invariance, PTL DEF MInv

(***************************************************************************)
(* On an open connection the retained availability is online, or this very *)
(* connection's onConnected is about to announce it or has tried as often  *)
(* as it may: the will of the connection before never comes after it, and  *)
(* no other goroutine takes it back (onConnected, publishAvailability).    *)
(***************************************************************************)
THEOREM OnlineUnlessTried == Spec => []OnlineOrAnnouncing
BY Invariance, PTL DEF MInv

(***************************************************************************)
(* A process that died on an open connection is shown as offline, or the   *)
(* will that says so is due (clientOptions, SetWill).                      *)
(***************************************************************************)
THEOREM DeathIsAnnounced == Spec => []DeadWillBeKnown
BY Invariance, PTL DEF MInv
=============================================================================
