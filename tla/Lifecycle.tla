------------------------------ MODULE Lifecycle ------------------------------
(***************************************************************************)
(* cmd/main.go, run: start-up, the signal handler with its watchdog, and   *)
(* the shutdown of the goroutines that share the port and the broker.      *)
(*                                                                         *)
(*   main       opens the port, connects, subscribes, publishes discovery, *)
(*              waits for the context, disconnects, joins and closes       *)
(*   handler    turns the first signal into a cancellation and forces the  *)
(*              exit on a second one or when the grace period is over      *)
(*   goroutines the supervisor, the poll loop, the command worker and the  *)
(*              settle loop, joined by wg                                  *)
(*                                                                         *)
(* Whatever takes time has a countdown in clock steps: it may end before,  *)
(* and the clock waits for it at zero, so that only what the code leaves   *)
(* unbounded can be late.  One system call may wedge: an exchange or a     *)
(* reopen that never returns.  A publish waits for its token as long as    *)
(* op_timeout, and before that as long again if paho does not take the     *)
(* packet at once (SetWriteTimeout): it is held.                           *)
(***************************************************************************)
EXTENDS Integers, FiniteSets

CONSTANTS
  Writers,        \* the command worker and the settle loop
  Grace,          \* shutdownGrace
  ExchangeTime,   \* longest transaction or reopen
  PublishTime,    \* op_timeout: a hand-off, a token's wait, a connect
  RetryDelay,     \* between attempts to publish
  PublishTries,   \* publish_retry_count
  FarewellTime,   \* shutdownPublishTimeout and Disconnect's quiesce
  ConnectTries,   \* connectMQTTWithRetry's maxRetries
  StartTime,      \* longest start-up after the connection: many round trips
  MaxSignals      \* bound: signals sent to the process

ASSUME TimesPositive ==
  /\ Grace \in Nat \ {0} /\ ExchangeTime \in Nat /\ PublishTime \in Nat
  /\ RetryDelay \in Nat /\ PublishTries \in Nat \ {0}
  /\ FarewellTime \in Nat /\ ConnectTries \in Nat \ {0} /\ StartTime \in Nat
  /\ MaxSignals \in Nat

\* So by default: 10 s against 5 s, 2.25 s and well under a second.  It leaves
\* no room for a publish that is held.
ASSUME GraceSuffices ==
  /\ \A t \in {FarewellTime, ExchangeTime, RetryDelay} : t + PublishTime < Grace
  /\ 2 * ExchangeTime < Grace

Goroutines == Writers \cup {"supervisor", "poller"}
Nobody == "nobody"

ASSUME WritersApart == Writers \cap {"supervisor", "poller", Nobody} = {}

VARIABLES
  main,     \* where run is
  left,     \* countdown of what main does
  tries,    \* connection attempts made
  err,      \* what run is about to return: "nil", "canceled", "failed"
  exit,     \* how the process ended: "no", "clean", "failed", "forced"
  done,     \* the context
  handler,  \* the signal goroutine: "first", "second", "gone"
  grace,    \* countdown of the watchdog
  signals,  \* in sigChan
  sent,     \* counted against MaxSignals
  state,    \* of every goroutine
  busy,     \* countdown of what it does
  attempts, \* attempts of the publish it makes
  tx,       \* who holds txMu
  early,    \* history: run subscribed and published discovery after it
  stalled   \* history: from it on, a publish was held

mainVars == <<main, left, tries, err>>
handlerVars == <<handler, grace, signals, early>>
goVars == <<state, busy, attempts, tx, stalled>>
vars == <<mainVars, exit, done, handlerVars, sent, goVars>>

Publishing == {"publishing", "reporting"}
Backoff == {"publish backoff", "report backoff"}

TypeOK ==
  /\ main \in {"opening", "reopening", "connecting", "reconnecting",
               "starting", "running", "farewell", "joining"}
  /\ left \in Nat /\ tries \in 0..ConnectTries
  /\ err \in {"nil", "canceled", "failed"}
  /\ exit \in {"no", "clean", "failed", "forced"}
  /\ done \in BOOLEAN /\ early \in BOOLEAN /\ stalled \in BOOLEAN
  /\ handler \in {"first", "second", "gone"}
  /\ grace \in 0..Grace /\ signals \in 0..2 /\ sent \in 0..MaxSignals
  /\ state \in [Goroutines -> {"absent", "idle", "waiting", "exchange",
                               "wedged", "gone"} \cup Publishing \cup Backoff]
  /\ busy \in [Goroutines -> Nat]
  /\ attempts \in [Goroutines -> 0..PublishTries]
  /\ tx \in Goroutines \cup {Nobody}

Init ==
  /\ main = "opening" /\ left = ExchangeTime /\ tries = 0 /\ err = "nil"
  /\ exit = "no" /\ done = FALSE
  /\ handler = "first" /\ grace = Grace /\ signals = 0 /\ sent = 0
  /\ state = [g \in Goroutines |-> "absent"]
  /\ busy = [g \in Goroutines |-> 0]
  /\ attempts = [g \in Goroutines |-> 0]
  /\ tx = Nobody /\ early = FALSE /\ stalled = FALSE

\* Disconnect has begun; Disconnect has dropped the client.
ShuttingDown == main \in {"farewell", "joining"}
NoClient == main = "joining"

\* More than the wait for the token is left of a publish.
Held(s, time) == s \in Publishing /\ time > PublishTime

(***************************************************************************)
(* The signal handler.                                                     *)
(***************************************************************************)
Signal ==
  /\ sent < MaxSignals
  /\ sent' = sent + 1
  /\ signals' = (IF signals < 2 THEN signals + 1 ELSE signals)
  /\ UNCHANGED <<mainVars, exit, done, handler, grace, early, goVars>>

FirstSignal ==
  /\ handler = "first"
  /\ signals > 0
  /\ signals' = signals - 1
  /\ handler' = "second"
  /\ grace' = Grace
  /\ done' = TRUE
  /\ early' = (main = "starting")
  /\ stalled' = (\E g \in Goroutines : Held(state[g], busy[g]))
  /\ UNCHANGED <<mainVars, exit, sent, state, busy, attempts, tx>>

\* run has cancelled the context itself: no watchdog from here on.
HandlerLeaves ==
  /\ handler = "first"
  /\ done
  /\ handler' = "gone"
  /\ UNCHANGED <<mainVars, exit, done, grace, signals, early, sent, goVars>>

\* Bug: only a second signal forces the exit.
ForceOnSignal ==
  /\ handler = "second"
  /\ signals > 0
  /\ exit' = "forced"
  /\ UNCHANGED <<mainVars, done, handlerVars, sent, goVars>>

\* A second signal, or the end of the grace period.
ForceExit ==
  /\ handler = "second"
  /\ signals > 0 \/ grace = 0
  /\ exit' = "forced"
  /\ UNCHANGED <<mainVars, done, handlerVars, sent, goVars>>

(***************************************************************************)
(* run.                                                                    *)
(***************************************************************************)
Goto(where, time) == main' = where /\ left' = time

\* The goroutines of a set begin.
Start(gs) ==
  /\ state' = [g \in Goroutines |-> IF g \in gs THEN "idle" ELSE state[g]]
  /\ UNCHANGED <<busy, attempts, tx, stalled>>

\* openSerialWithRetry; the supervisor begins with an open port, whether or
\* not the context has ended meanwhile.
Opened ==
  /\ main = "opening"
  /\ Goto("connecting", PublishTime)
  /\ tries' = 1
  /\ Start({"supervisor"})
  /\ UNCHANGED <<err, exit, done, handlerVars, sent>>

NotOpened ==
  /\ main = "opening"
  /\ Goto("reopening", RetryDelay)
  /\ UNCHANGED <<tries, err, exit, done, handlerVars, sent, goVars>>

Reopen ==
  /\ main = "reopening"
  /\ ~done
  /\ left = 0
  /\ Goto("opening", ExchangeTime)
  /\ UNCHANGED <<tries, err, exit, done, handlerVars, sent, goVars>>

\* The context is looked at before every attempt and in every wait.
StopOpening ==
  /\ main \in {"opening", "reopening"}
  /\ done
  /\ exit' = "clean"
  /\ UNCHANGED <<mainVars, done, handlerVars, sent, goVars>>

\* connectMQTTWithRetry
Connected ==
  /\ main = "connecting"
  /\ Goto("starting", StartTime)
  /\ Start(Writers)
  /\ early' = done
  /\ UNCHANGED <<tries, err, exit, done, handler, grace, signals, sent>>

NotConnected ==
  /\ main = "connecting"
  /\ tries < ConnectTries
  /\ Goto("reconnecting", RetryDelay)
  /\ UNCHANGED <<tries, err, exit, done, handlerVars, sent, goVars>>

Reconnect ==
  /\ main = "reconnecting"
  /\ ~done
  /\ left = 0
  /\ Goto("connecting", PublishTime)
  /\ tries' = tries + 1
  /\ UNCHANGED <<err, exit, done, handlerVars, sent, goVars>>

\* Bug: the goroutines are joined without being told to stop.
GiveUpConnectingUncancelled ==
  /\ \/ main = "connecting" /\ tries = ConnectTries /\ err' = "failed"
     \/ main \in {"connecting", "reconnecting"} /\ done /\ err' = "canceled"
  /\ Goto("joining", 0)
  /\ UNCHANGED <<tries, exit, done, handlerVars, sent, goVars>>

\* run cancels the context before it joins and closes.
GiveUpConnecting ==
  /\ \/ main = "connecting" /\ tries = ConnectTries /\ err' = "failed"
     \/ main \in {"connecting", "reconnecting"} /\ done /\ err' = "canceled"
  /\ Goto("joining", 0)
  /\ done' = TRUE
  /\ UNCHANGED <<tries, exit, handlerVars, sent, goVars>>

\* Subscriptions and discovery, which do not look at the context.
Started ==
  /\ main = "starting"
  /\ Goto("running", 0)
  /\ Start({"poller"})
  /\ UNCHANGED <<tries, err, exit, done, handlerVars, sent>>

\* The offline state takes up to the given time, and longer if it is held.
SayFarewell(time, held) ==
  /\ main = "running"
  /\ done
  /\ Goto("farewell", time + IF held THEN PublishTime ELSE 0)
  /\ stalled' = (stalled \/ held)
  /\ UNCHANGED <<tries, err, exit, done, handlerVars, sent, state, busy,
                 attempts, tx>>

\* Bug: the offline state is published like any other, with its retries.
FarewellRetrying(held) ==
  SayFarewell(PublishTries * (PublishTime + RetryDelay), held)

\* Disconnect: publishOnce, then the client is dropped.
Farewell(held) == SayFarewell(FarewellTime, held)

Disconnected ==
  /\ main = "farewell"
  /\ Goto("joining", 0)
  /\ UNCHANGED <<tries, err, exit, done, handlerVars, sent, goVars>>

AllGone == \A g \in Goroutines : state[g] \in {"absent", "gone"}

\* wg.Wait, then Close under txMu, then the return from run.
Close ==
  /\ main = "joining"
  /\ AllGone
  /\ tx = Nobody
  /\ exit' = (IF err = "failed" THEN "failed" ELSE "clean")
  /\ UNCHANGED <<mainVars, done, handlerVars, sent, goVars>>

Main ==
  \/ Opened \/ NotOpened \/ Reopen \/ StopOpening
  \/ Connected \/ NotConnected \/ Reconnect \/ GiveUpConnecting
  \/ Started \/ (\E held \in BOOLEAN : Farewell(held))
  \/ Disconnected \/ Close

(***************************************************************************)
(* The goroutines.                                                         *)
(***************************************************************************)
\* g goes on to s, which takes at most the given time.
Proceed(g, s, time) ==
  /\ state' = [state EXCEPT ![g] = s]
  /\ busy' = [busy EXCEPT ![g] = time]
  /\ stalled' = (stalled \/ (handler = "second" /\ Held(s, time)))
  /\ UNCHANGED <<mainVars, exit, done, handlerVars, sent>>

\* The hand-off, if it takes any time, and the wait for the token; without a
\* client a publish fails at once.
PublishTimes == IF NoClient THEN {0} ELSE {PublishTime, 2 * PublishTime}
Publish(g, s) == \E time \in PublishTimes : Proceed(g, s, time)

\* A transaction or a reopen asks for txMu.
Ask(g) ==
  /\ state[g] = "idle"
  /\ ~done
  /\ Proceed(g, "waiting", 0)
  /\ UNCHANGED <<attempts, tx>>

\* Transact looks at the context with the lock held; reopen does not.
Exchange(g) ==
  /\ state[g] = "waiting"
  /\ tx = Nobody
  /\ ~done \/ g = "supervisor"
  /\ tx' = g
  /\ Proceed(g, "exchange", ExchangeTime)
  /\ UNCHANGED attempts

\* A command or re-read may still have a state to report.
TooLate(g) ==
  /\ state[g] = "waiting"
  /\ tx = Nobody
  /\ done /\ g # "supervisor"
  /\ \/ Proceed(g, "idle", 0) /\ UNCHANGED attempts
     \/ /\ g \in Writers
        /\ Publish(g, "reporting")
        /\ attempts' = [attempts EXCEPT ![g] = 1]
  /\ UNCHANGED tx

\* The exchange ends; a writer publishes the reading whatever the context.
Exchanged(g) ==
  /\ state[g] = "exchange"
  /\ tx' = Nobody
  /\ \/ Proceed(g, "idle", 0) /\ UNCHANGED attempts
     \/ /\ g \in Writers
        /\ Publish(g, "publishing")
        /\ attempts' = [attempts EXCEPT ![g] = 1]

\* The system call never returns; one does at most.
Wedge(g) ==
  /\ state[g] = "exchange"
  /\ \A h \in Goroutines : state[h] # "wedged"
  /\ Proceed(g, "wedged", 0)
  /\ UNCHANGED <<attempts, tx>>

\* The poll loop looks at its context before every publish.
PollPublishes ==
  /\ state["poller"] = "idle"
  /\ ~done
  /\ Publish("poller", "publishing")
  /\ attempts' = [attempts EXCEPT !["poller"] = 1]
  /\ UNCHANGED tx

\* The publish is over, with or without success. A writer reads the next
\* register, reports the state or is finished.
Published(g) ==
  /\ state[g] \in Publishing
  /\ \/ Proceed(g, "idle", 0) /\ attempts' = [attempts EXCEPT ![g] = 0]
     \/ /\ g \in Writers /\ state[g] = "publishing"
        /\ ~done
        /\ Proceed(g, "waiting", 0)
        /\ attempts' = [attempts EXCEPT ![g] = 0]
     \/ /\ g \in Writers /\ state[g] = "publishing"
        /\ Publish(g, "reporting")
        /\ attempts' = [attempts EXCEPT ![g] = 1]
  /\ UNCHANGED tx

\* publishRetained waits before the next attempt, unless the client is gone
\* or shutting down.
PublishFails(g) ==
  /\ state[g] \in Publishing
  /\ attempts[g] < PublishTries
  /\ ~ShuttingDown
  /\ Proceed(g, IF state[g] = "publishing" THEN "publish backoff"
                ELSE "report backoff", RetryDelay)
  /\ UNCHANGED <<attempts, tx>>

PublishAgain(g) ==
  /\ state[g] \in Backoff
  /\ busy[g] = 0
  /\ Publish(g, IF state[g] = "publish backoff" THEN "publishing"
                ELSE "reporting")
  /\ attempts' = [attempts EXCEPT ![g] = @ + 1]
  /\ UNCHANGED tx

Leave(g) ==
  /\ state[g] = "idle"
  /\ done
  /\ Proceed(g, "gone", 0)
  /\ UNCHANGED <<attempts, tx>>

Step(g) ==
  \/ Exchange(g) \/ TooLate(g) \/ Exchanged(g)
  \/ Published(g) \/ PublishFails(g) \/ PublishAgain(g) \/ Leave(g)

Work(g) == Ask(g) \/ Step(g) \/ Wedge(g)

(***************************************************************************)
(* Time.                                                                   *)
(***************************************************************************)
\* Something that is able to run, or has used up its time.
MainDue ==
  \/ /\ main # "running" /\ left = 0
     /\ main = "joining" => AllGone /\ tx = Nobody
  \/ main \in {"running", "reopening", "reconnecting"} /\ done

HandlerDue ==
  \/ handler = "first" /\ (signals > 0 \/ done)
  \/ handler = "second" /\ (signals > 0 \/ grace = 0)

GoroutineDue(g) ==
  \/ state[g] = "idle" /\ done
  \/ state[g] = "waiting" /\ tx = Nobody
  \/ state[g] \in {"exchange"} \cup Publishing \cup Backoff /\ busy[g] = 0

Less(n) == IF n > 0 THEN n - 1 ELSE 0

Tick ==
  /\ ~MainDue /\ ~HandlerDue
  /\ \A g \in Goroutines : ~GoroutineDue(g)
  /\ left' = Less(left)
  /\ grace' = (IF handler = "second" THEN Less(grace) ELSE grace)
  /\ busy' = [g \in Goroutines |-> Less(busy[g])]
  /\ UNCHANGED <<main, tries, err, exit, done, handler, signals, early, sent,
                 state, attempts, tx, stalled>>

Next ==
  /\ exit = "no"
  /\ \/ Signal \/ FirstSignal \/ HandlerLeaves \/ ForceExit
     \/ Main
     \/ \E g \in Goroutines : Work(g)
     \/ PollPublishes
     \/ Tick

Spec == Init /\ [][Next]_vars

\* Everything that can run does, and time passes.
FairSpec ==
  /\ Spec
  /\ WF_vars(exit = "no" /\ (FirstSignal \/ HandlerLeaves \/ ForceExit))
  /\ WF_vars(exit = "no" /\ Main)
  /\ \A g \in Goroutines : WF_vars(exit = "no" /\ Step(g))
  /\ WF_vars(exit = "no" /\ Tick)

(***************************************************************************)
(* Properties.                                                             *)
(***************************************************************************)
Wedged == \E g \in Goroutines : state[g] = "wedged"

(***************************************************************************)
(* The watchdog fires only for a cause: a second signal, a system call     *)
(* that never returned, subscriptions and discovery that run still had to  *)
(* go through, which do not look at the context, or a publish that paho    *)
(* did not take at once.  Whatever else the goroutines and the broker do,  *)
(* slow tokens and failures included, teardown ends within shutdownGrace:  *)
(* the offline state is tried once and publishes stop retrying.  That a    *)
(* hand-off is a cause is not what connect says of its time-out ("overrun  *)
(* the shutdown grace period"): it may take another op_timeout.            *)
(***************************************************************************)
ForcedOnlyForCause ==
  exit = "forced" => signals > 0 \/ Wedged \/ early \/ stalled

(***************************************************************************)
(* A signal the handler has taken ends the process, wedged or not; and a   *)
(* start-up that fails ends it unless something is wedged.                 *)
(***************************************************************************)
ShutdownEnds ==
  /\ (handler = "second") ~> (exit # "no")
  /\ (err = "failed") ~> (exit # "no" \/ Wedged)
=============================================================================
