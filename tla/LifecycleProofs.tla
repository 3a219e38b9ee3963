-------------------------- MODULE LifecycleProofs --------------------------
(***************************************************************************)
(* The end of the process, for any number of writers and any times that    *)
(* the grace period is long enough for.                                    *)
(***************************************************************************)
EXTENDS Lifecycle, TLAPS

States == {"absent", "idle", "waiting", "exchange", "wedged", "gone"}
            \cup Publishing \cup Backoff

Types ==
  /\ left \in Nat /\ grace \in Int
  /\ state \in [Goroutines -> States]
  /\ busy \in [Goroutines -> Nat]
  /\ attempts \in [Goroutines -> Int]
  /\ tx \in Goroutines \cup {Nobody}
  /\ main \in {"opening", "reopening", "connecting", "reconnecting",
               "starting", "running", "farewell", "joining"}

\* What takes time never has more of it left than its longest.
Bounded ==
  /\ main = "opening" => left <= ExchangeTime
  /\ main = "connecting" => left <= PublishTime
  /\ main = "joining" => left = 0
  /\ \A g \in Goroutines :
       /\ state[g] = "exchange" => busy[g] <= ExchangeTime
       /\ state[g] \in Publishing => busy[g] <= 2 * PublishTime
       /\ state[g] \in Backoff => busy[g] <= RetryDelay

\* txMu and the calls on the port go together.
Holding ==
  \A g \in Goroutines : state[g] \in {"exchange", "wedged"} <=> tx = g

\* Who has been started; the supervisor never publishes.
Present ==
  /\ main \in {"opening", "reopening"} =>
       \A g \in Goroutines : state[g] = "absent"
  /\ main \in {"connecting", "reconnecting"} =>
       \A g \in Goroutines \ {"supervisor"} : state[g] = "absent"
  /\ main = "starting" => state["poller"] = "absent"
  /\ state["supervisor"] \notin Publishing \cup Backoff

\* The context ends with the first signal, or when run gives up connecting.
Signalled ==
  /\ handler = "second" => done
  /\ main = "farewell" => done
  /\ done /\ handler = "first" => main = "joining"

\* Whatever is still to happen after the signal ends before the watchdog's
\* time: run in its own steps, a call on the port within the longest call
\* after the lock was got, which only reopen takes after the signal, and
\* a publish because none is held and none begins without a client.
Since == Grace - grace

OnTime ==
  /\ grace > 0
  /\ main = "opening" => left + Since <= ExchangeTime
  /\ main = "reopening" => Since <= ExchangeTime
  /\ main = "connecting" => left + Since <= ExchangeTime + PublishTime
  /\ main = "reconnecting" => Since <= ExchangeTime + PublishTime
  /\ main # "starting"
  /\ main = "running" => Since = 0
  /\ main = "farewell" => left + Since <= FarewellTime
  /\ \A g \in Goroutines :
       /\ state[g] \in {"exchange"} \cup Publishing \cup Backoff =>
            busy[g] < grace
       /\ state[g] = "exchange" /\ g # "supervisor" =>
            busy[g] + Since <= ExchangeTime
  /\ state["supervisor"] = "waiting" => Since <= ExchangeTime

Orderly ==
  handler = "second" /\ ~early /\ ~Wedged /\ ~stalled /\ exit = "no"

IInv ==
  /\ Types /\ Bounded /\ Holding /\ Present /\ Signalled
  /\ Orderly => OnTime
  /\ ForcedOnlyForCause
-----------------------------------------------------------------------------
LEMMA Times ==
  /\ Grace \in Nat /\ ExchangeTime \in Nat /\ PublishTime \in Nat
  /\ RetryDelay \in Nat /\ FarewellTime \in Nat /\ StartTime \in Nat
  /\ FarewellTime + PublishTime < Grace
  /\ ExchangeTime + PublishTime < Grace
  /\ RetryDelay + PublishTime < Grace
  /\ 2 * ExchangeTime < Grace
  /\ Grace > 0
BY TimesPositive, GraceSuffices

LEMMA Names ==
  /\ "supervisor" \in Goroutines /\ "poller" \in Goroutines
  /\ Nobody \notin Goroutines
  /\ \A g \in Writers : g \in Goroutines /\ g # "supervisor" /\ g # "poller"
  /\ \A g \in Goroutines : g # Nobody
BY WritersApart DEF Goroutines, Nobody

LEMMA PublishTimesType ==
  \A n \in PublishTimes :
    n \in Nat /\ n <= 2 * PublishTime /\ (main = "joining" => n = 0)
BY Times DEF PublishTimes, NoClient
-----------------------------------------------------------------------------
(***************************************************************************)
(* What a step of a goroutine amounts to: it goes on to s for at most n.   *)
(***************************************************************************)
Moves(g, s, n) ==
  /\ Proceed(g, s, n)
  /\ state[g] \notin {"absent", "wedged", "gone"}
  /\ attempts' \in [Goroutines -> Int]
  /\ s \in {"exchange", "wedged"} => tx' = g /\ tx \in {g, Nobody}
  /\ s \notin {"exchange", "wedged"} => tx' = (IF tx = g THEN Nobody ELSE tx)
  /\ s = "exchange" => n <= ExchangeTime /\ state[g] = "waiting"
  /\ s = "exchange" /\ done => g = "supervisor"
  /\ s \in Publishing =>
       /\ g # "supervisor" /\ n <= 2 * PublishTime
       /\ main = "joining" => n = 0
  /\ s \in Backoff =>
       g # "supervisor" /\ n <= RetryDelay /\ main \notin {"farewell", "joining"}
  /\ s = "waiting" => ~done

NewState == States \ {"absent"}

LEMMA AttemptsType ==
  ASSUME Types, NEW g \in Goroutines
  PROVE  /\ \A n \in Int : [attempts EXCEPT ![g] = n] \in [Goroutines -> Int]
         /\ [attempts EXCEPT ![g] = @ + 1] \in [Goroutines -> Int]
BY DEF Types

LEMMA AskMoves ==
  ASSUME Types, Holding, NEW g \in Goroutines, Ask(g)
  PROVE  Moves(g, "waiting", 0)
BY Names DEF Ask, Moves, Types, Holding, Publishing, Backoff

LEMMA ExchangeMoves ==
  ASSUME Types, NEW g \in Goroutines, Exchange(g)
  PROVE  Moves(g, "exchange", ExchangeTime)
BY Times DEF Exchange, Moves, Types, Publishing, Backoff

LEMMA WedgeMoves ==
  ASSUME Types, Holding, NEW g \in Goroutines, Wedge(g)
  PROVE  Moves(g, "wedged", 0)
BY DEF Wedge, Moves, Types, Holding, Publishing, Backoff

LEMMA LeaveMoves ==
  ASSUME Types, Holding, NEW g \in Goroutines, Leave(g)
  PROVE  Moves(g, "gone", 0)
BY DEF Leave, Moves, Types, Holding, Publishing, Backoff

LEMMA TooLateMoves ==
  ASSUME Types, NEW g \in Goroutines, TooLate(g)
  PROVE  \/ Moves(g, "idle", 0)
         \/ \E n \in PublishTimes : Moves(g, "reporting", n)
<1>1. state[g] = "waiting" /\ tx = Nobody /\ tx' = tx /\ g # Nobody
  BY Names DEF TooLate
<1>2. CASE Proceed(g, "idle", 0) /\ UNCHANGED attempts
  BY <1>1, <1>2 DEF Moves, Types, Publishing, Backoff
<1>3. ASSUME NEW n \in PublishTimes, g \in Writers,
             Proceed(g, "reporting", n), attempts' = [attempts EXCEPT ![g] = 1]
      PROVE  Moves(g, "reporting", n)
  <2>1. attempts' \in [Goroutines -> Int]
    BY <1>3, AttemptsType
  <2> QED
    BY <1>1, <1>3, <2>1, Names, PublishTimesType DEF Moves, Publishing, Backoff
<1> QED
  BY <1>2, <1>3 DEF TooLate, Publish

LEMMA ExchangedMoves ==
  ASSUME Types, Holding, NEW g \in Goroutines, Exchanged(g)
  PROVE  \/ Moves(g, "idle", 0)
         \/ \E n \in PublishTimes : Moves(g, "publishing", n)
<1>1. state[g] = "exchange" /\ tx = g /\ tx' = Nobody
  BY DEF Exchanged, Holding
<1>2. CASE Proceed(g, "idle", 0) /\ UNCHANGED attempts
  BY <1>1, <1>2 DEF Moves, Types, Publishing, Backoff
<1>3. ASSUME NEW n \in PublishTimes, g \in Writers,
             Proceed(g, "publishing", n), attempts' = [attempts EXCEPT ![g] = 1]
      PROVE  Moves(g, "publishing", n)
  <2>1. attempts' \in [Goroutines -> Int]
    BY <1>3, AttemptsType
  <2> QED
    BY <1>1, <1>3, <2>1, Names, PublishTimesType DEF Moves, Publishing, Backoff
<1> QED
  BY <1>2, <1>3 DEF Exchanged, Publish

LEMMA PublishedMoves ==
  ASSUME Types, Holding, NEW g \in Goroutines, Published(g)
  PROVE  \/ Moves(g, "idle", 0) \/ Moves(g, "waiting", 0)
         \/ \E n \in PublishTimes : Moves(g, "reporting", n)
<1>1. state[g] \in Publishing /\ tx # g /\ tx' = tx
  BY DEF Published, Holding, Publishing
<1>2. attempts' \in [Goroutines -> Int]
  BY AttemptsType DEF Published
<1>3. CASE Proceed(g, "idle", 0)
  BY <1>1, <1>2, <1>3 DEF Moves, Publishing, Backoff
<1>4. CASE ~done /\ Proceed(g, "waiting", 0)
  BY <1>1, <1>2, <1>4 DEF Moves, Publishing, Backoff
<1>5. ASSUME NEW n \in PublishTimes, g \in Writers, Proceed(g, "reporting", n)
      PROVE  Moves(g, "reporting", n)
  BY <1>1, <1>2, <1>5, Names, PublishTimesType DEF Moves, Publishing, Backoff
<1> QED
  BY <1>3, <1>4, <1>5 DEF Published, Publish

LEMMA PublishFailsMoves ==
  ASSUME Types, Holding, Present, NEW g \in Goroutines, PublishFails(g)
  PROVE  \E s \in Backoff : Moves(g, s, RetryDelay)
<1>1. state[g] \in Publishing /\ tx # g /\ tx' = tx /\ g # "supervisor"
  BY DEF PublishFails, Holding, Present, Publishing
<1>2. attempts' \in [Goroutines -> Int]
  BY DEF PublishFails, Types
<1>3. main \notin {"farewell", "joining"}
  BY DEF PublishFails, ShuttingDown
<1>4. PICK s \in Backoff : Proceed(g, s, RetryDelay)
  BY DEF PublishFails, Backoff
<1>5. s \notin {"exchange", "wedged", "waiting"} /\ s \notin Publishing
  BY DEF Backoff, Publishing
<1>6. state[g] \notin {"absent", "wedged", "gone"}
  BY <1>1 DEF Publishing
<1>7. Moves(g, s, RetryDelay)
  BY <1>1, <1>2, <1>3, <1>4, <1>5, <1>6, Times DEF Moves
<1> QED
  BY <1>7

LEMMA PublishAgainMoves ==
  ASSUME Types, Holding, Present, NEW g \in Goroutines, PublishAgain(g)
  PROVE  \E s \in Publishing, n \in PublishTimes : Moves(g, s, n)
<1>1. state[g] \in Backoff /\ tx # g /\ tx' = tx /\ g # "supervisor"
  BY DEF PublishAgain, Holding, Present, Backoff
<1>2. attempts' \in [Goroutines -> Int]
  BY AttemptsType DEF PublishAgain
<1>3. PICK s \in Publishing, n \in PublishTimes : Proceed(g, s, n)
  BY DEF PublishAgain, Publish, Publishing
<1>4. s \notin {"exchange", "wedged", "waiting"} /\ s \notin Backoff
  BY DEF Backoff, Publishing
<1>5. state[g] \notin {"absent", "wedged", "gone"}
  BY <1>1 DEF Backoff
<1>6. Moves(g, s, n)
  BY <1>1, <1>2, <1>3, <1>4, <1>5, PublishTimesType DEF Moves
<1> QED
  BY <1>6

LEMMA PollPublishesMoves ==
  ASSUME Types, Holding, PollPublishes
  PROVE  \E n \in PublishTimes : Moves("poller", "publishing", n)
<1>1. state["poller"] = "idle" /\ tx # "poller" /\ tx' = tx
  BY Names DEF PollPublishes, Holding
<1>2. attempts' \in [Goroutines -> Int]
  BY Names, AttemptsType DEF PollPublishes
<1>3. PICK n \in PublishTimes : Proceed("poller", "publishing", n)
  BY DEF PollPublishes, Publish
<1>4. Moves("poller", "publishing", n)
  BY <1>1, <1>2, <1>3, PublishTimesType DEF Moves, Publishing, Backoff
<1> QED
  BY <1>4

LEMMA WorkMoves ==
  ASSUME Types, Holding, Present,
         (\E g \in Goroutines : Work(g)) \/ PollPublishes
  PROVE  \E g \in Goroutines, s \in NewState, n \in Nat : Moves(g, s, n)
<1>1. {"idle", "waiting", "exchange", "wedged", "gone", "publishing", "reporting"}
        \cup Publishing \cup Backoff \subseteq NewState
  BY DEF NewState, States, Publishing, Backoff
<1>2. /\ 0 \in Nat /\ ExchangeTime \in Nat /\ RetryDelay \in Nat
      /\ PublishTimes \subseteq Nat
  BY Times, PublishTimesType
<1>3. CASE PollPublishes
  <2>1. \E n \in PublishTimes : Moves("poller", "publishing", n)
    BY <1>3, PollPublishesMoves
  <2> QED
    BY <1>1, <1>2, <2>1, Names
<1>4. ASSUME NEW g \in Goroutines, Work(g)
      PROVE  \E s \in NewState, n \in Nat : Moves(g, s, n)
  <2>1. \/ Ask(g) \/ Wedge(g) \/ Exchange(g) \/ TooLate(g) \/ Exchanged(g)
        \/ Published(g) \/ PublishFails(g) \/ PublishAgain(g) \/ Leave(g)
    BY <1>4 DEF Work, Step
  <2>2. \/ \E s \in NewState : Moves(g, s, 0)
        \/ \E s \in NewState : Moves(g, s, ExchangeTime)
        \/ \E s \in NewState, n \in PublishTimes : Moves(g, s, n)
        \/ \E s \in NewState : Moves(g, s, RetryDelay)
    BY <1>1, <2>1, AskMoves, WedgeMoves, ExchangeMoves, TooLateMoves,
       ExchangedMoves, PublishedMoves, PublishFailsMoves, PublishAgainMoves,
       LeaveMoves
  <2> QED
    BY <1>2, <2>2
<1> QED
  BY <1>3, <1>4
-----------------------------------------------------------------------------
(***************************************************************************)
(* The steps of the goroutines.                                            *)
(***************************************************************************)
Untimed == Types /\ Bounded /\ Holding /\ Present /\ Signalled

LEMMA MovesEffect ==
  ASSUME Types, NEW g \in Goroutines, NEW s \in NewState, NEW n \in Nat,
         Moves(g, s, n)
  PROVE  /\ state'[g] = s /\ busy'[g] = n
         /\ \A h \in Goroutines \ {g} : state'[h] = state[h] /\ busy'[h] = busy[h]
         /\ state' \in [Goroutines -> States] /\ busy' \in [Goroutines -> Nat]
         /\ UNCHANGED <<main, left, exit, handler, grace, signals>>
         /\ done' = done /\ early' = early
         /\ ~stalled' => ~stalled /\ ~(handler = "second" /\ Held(s, n))
BY DEF Types, Moves, Proceed, mainVars, handlerVars, NewState

LEMMA UntimedMoves ==
  ASSUME Untimed, NEW g \in Goroutines, NEW s \in NewState, NEW n \in Nat,
         Moves(g, s, n)
  PROVE  Untimed'
<1> USE MovesEffect DEF Untimed
<1>1. tx' \in Goroutines \cup {Nobody} /\ attempts' \in [Goroutines -> Int]
  BY DEF Moves, Types
<1>2. Types'
  BY <1>1 DEF Types
<1>3. Bounded'
  <2>1. /\ s = "exchange" => n <= ExchangeTime
        /\ s \in Publishing => n <= 2 * PublishTime
        /\ s \in Backoff => n <= RetryDelay
    BY DEF Moves
  <2> QED
    BY <2>1 DEF Bounded
<1>4. Holding'
  <2>1. CASE s \in {"exchange", "wedged"}
    <3>1. tx' = g /\ tx \in {g, Nobody}
      BY <2>1 DEF Moves
    <3>2. \A h \in Goroutines \ {g} : state[h] \notin {"exchange", "wedged"}
      BY <3>1, Names DEF Holding
    <3> QED
      BY <2>1, <3>1, <3>2 DEF Holding
  <2>2. CASE s \notin {"exchange", "wedged"}
    <3>1. tx' = (IF tx = g THEN Nobody ELSE tx)
      BY <2>2 DEF Moves
    <3> QED
      BY <2>2, <3>1, Names DEF Holding
  <2> QED
    BY <2>1, <2>2
<1>5. Present'
  <2>1. state[g] # "absent" /\ (g = "supervisor" => s \notin Publishing \cup Backoff)
    BY DEF Moves
  <2> QED
    BY <2>1, Names DEF Present
<1>6. Signalled'
  BY DEF Signalled
<1> QED
  BY <1>2, <1>3, <1>4, <1>5, <1>6

LEMMA OrderlyMoves ==
  ASSUME Untimed, NEW g \in Goroutines, NEW s \in NewState, NEW n \in Nat,
         Moves(g, s, n), Orderly'
  PROVE  Orderly
<1>1. handler = "second" /\ ~early /\ ~stalled /\ exit = "no"
  BY MovesEffect DEF Untimed, Orderly
<1>2. ~Wedged
  <2> SUFFICES ASSUME NEW h \in Goroutines, state[h] = "wedged"
               PROVE  FALSE
    BY DEF Wedged
  <2>1. h # g
    BY DEF Moves
  <2> QED
    BY <2>1, MovesEffect DEF Untimed, Orderly, Wedged
<1> QED
  BY <1>1, <1>2 DEF Orderly

LEMMA OnTimeMoves ==
  ASSUME Untimed, Orderly, OnTime, Orderly',
         NEW g \in Goroutines, NEW s \in NewState, NEW n \in Nat, Moves(g, s, n)
  PROVE  OnTime'
<1> USE Times DEF Untimed
<1>1. done
  BY DEF Orderly, Signalled
<1>2. /\ UNCHANGED <<main, left, grace>> /\ Since' = Since
      /\ state'[g] = s /\ busy'[g] = n
      /\ \A h \in Goroutines \ {g} : state'[h] = state[h] /\ busy'[h] = busy[h]
  BY MovesEffect DEF Since
<1>3. s = "exchange" => g = "supervisor" /\ n < grace
  <2> SUFFICES ASSUME s = "exchange" PROVE g = "supervisor" /\ n < grace
    OBVIOUS
  <2>1. g = "supervisor" /\ n <= ExchangeTime /\ state[g] = "waiting"
    BY <1>1 DEF Moves
  <2>2. Since <= ExchangeTime
    BY <2>1 DEF OnTime
  <2> QED
    BY <2>1, <2>2 DEF Since, Types
<1>4. s \in Publishing => n < grace
  <2> SUFFICES ASSUME s \in Publishing PROVE n < grace
    OBVIOUS
  <2>1. g # "supervisor" /\ (main = "joining" => n = 0) /\ state[g] # "absent"
    BY DEF Moves
  <2>2. main \in {"running", "farewell", "joining"}
    BY <2>1 DEF Present, OnTime, Types
  <2>3. n <= PublishTime
    <3>1. ~stalled' /\ handler = "second"
      BY DEF Orderly
    <3> QED
      BY <3>1, MovesEffect DEF Held
  <2> QED
    BY <2>1, <2>2, <2>3 DEF OnTime, Since, Types
<1>5. s \in Backoff => n < grace
  <2> SUFFICES ASSUME s \in Backoff PROVE n < grace
    OBVIOUS
  <2>1. g # "supervisor" /\ n <= RetryDelay /\ main \notin {"farewell", "joining"}
        /\ state[g] # "absent"
    BY DEF Moves
  <2>2. main = "running"
    BY <2>1 DEF Present, OnTime, Types
  <2> QED
    BY <2>1, <2>2 DEF OnTime, Since, Types
<1>6. s # "waiting"
  BY <1>1 DEF Moves
<1>7. \A h \in Goroutines :
        /\ state'[h] \in {"exchange"} \cup Publishing \cup Backoff =>
             busy'[h] < grace
        /\ state'[h] = "exchange" /\ h # "supervisor" =>
             busy'[h] + Since <= ExchangeTime
  <2> TAKE h \in Goroutines
  <2>1. CASE h = g
    BY <1>2, <1>3, <1>4, <1>5, <2>1
  <2>2. CASE h # g
    BY <1>2, <2>2 DEF OnTime
  <2> QED
    BY <2>1, <2>2
<1>8. state'["supervisor"] = "waiting" => Since <= ExchangeTime
  BY <1>2, <1>6, Names DEF OnTime
<1> QED
  BY <1>2, <1>7, <1>8 DEF OnTime
-----------------------------------------------------------------------------
(***************************************************************************)
(* The steps of run.                                                       *)
(***************************************************************************)
LEMMA StartEffect ==
  ASSUME Types, NEW gs \in SUBSET Goroutines, Start(gs)
  PROVE  /\ \A g \in gs : state'[g] = "idle"
         /\ \A g \in Goroutines \ gs : state'[g] = state[g]
         /\ state' \in [Goroutines -> States]
         /\ busy' = busy /\ attempts' = attempts /\ tx' = tx
BY DEF Types, Start, States

LEMMA Groups ==
  /\ {"supervisor"} \in SUBSET Goroutines
  /\ {"poller"} \in SUBSET Goroutines
  /\ Writers \in SUBSET Goroutines
  /\ "supervisor" \notin Writers /\ "poller" \notin Writers
BY WritersApart DEF Goroutines

\* A group that has not begun holds nothing when it does.
LEMMA StartKeeps ==
  ASSUME Untimed, NEW gs \in SUBSET Goroutines, Start(gs),
         \A g \in gs : state[g] = "absent"
  PROVE  /\ Holding'
         /\ \A g \in Goroutines :
              /\ state'[g] = "exchange" => state[g] = "exchange"
              /\ state'[g] \in Publishing => state[g] \in Publishing
              /\ state'[g] \in Backoff => state[g] \in Backoff
              /\ state'[g] = "waiting" => state[g] = "waiting"
              /\ state'[g] = "wedged" <=> state[g] = "wedged"
<1>1. \A g \in Goroutines :
        state'[g] = state[g] \/ (state'[g] = "idle" /\ state[g] = "absent")
  BY StartEffect DEF Untimed
<1>2. tx' = tx
  BY StartEffect DEF Untimed
<1>3. Holding'
  <2> SUFFICES ASSUME NEW g \in Goroutines
               PROVE  state'[g] \in {"exchange", "wedged"} <=> tx = g
    BY <1>2 DEF Holding
  <2>1. CASE state'[g] = state[g]
    BY <2>1 DEF Untimed, Holding
  <2>2. CASE state'[g] = "idle" /\ state[g] = "absent"
    BY <2>2 DEF Untimed, Holding
  <2> QED
    BY <1>1, <2>1, <2>2
<1> QED
  BY <1>1, <1>3 DEF Publishing, Backoff

LEMMA UntimedMain ==
  ASSUME Untimed, Main
  PROVE  Untimed'
<1> USE Times, Names, Groups DEF Untimed, Goto, goVars, handlerVars, mainVars
<1>1. CASE Opened
  <2>1. Start({"supervisor"}) /\ \A g \in {"supervisor"} : state[g] = "absent"
    BY <1>1 DEF Opened, Present
  <2>2. Holding'
    BY <2>1, StartKeeps
  <2>3. Types' /\ Bounded'
    BY <1>1, <2>1, StartKeeps, StartEffect DEF Opened, Types, Bounded
  <2>4. Present'
    BY <1>1, <2>1, StartKeeps, StartEffect DEF Opened, Present
  <2>5. Signalled'
    BY <1>1 DEF Opened, Signalled
  <2> QED
    BY <2>2, <2>3, <2>4, <2>5
<1>2. CASE Connected
  <2>1. Start(Writers) /\ \A g \in Writers : state[g] = "absent"
    BY <1>2 DEF Connected, Present
  <2>2. Holding'
    BY <2>1, StartKeeps
  <2>3. Types' /\ Bounded'
    BY <1>2, <2>1, StartKeeps, StartEffect DEF Connected, Types, Bounded
  <2>4. Present'
    <3>1. state["poller"] = "absent" /\ main' = "starting"
      BY <1>2 DEF Connected, Present
    <3>2. state'["poller"] = state["poller"]
          /\ state'["supervisor"] = state["supervisor"]
      BY <2>1, StartEffect
    <3> QED
      BY <3>1, <3>2 DEF Present
  <2>5. Signalled'
    BY <1>2 DEF Connected, Signalled
  <2> QED
    BY <2>2, <2>3, <2>4, <2>5
<1>3. CASE Started
  <2>1. Start({"poller"}) /\ \A g \in {"poller"} : state[g] = "absent"
    BY <1>3 DEF Started, Present
  <2>2. Holding'
    BY <2>1, StartKeeps
  <2>3. Types' /\ Bounded'
    BY <1>3, <2>1, StartKeeps, StartEffect DEF Started, Types, Bounded
  <2>4. Present'
    BY <1>3, <2>1, StartKeeps, StartEffect DEF Started, Present
  <2>5. Signalled'
    BY <1>3 DEF Started, Signalled
  <2> QED
    BY <2>2, <2>3, <2>4, <2>5
<1>4. CASE NotOpened \/ Reopen \/ StopOpening \/ NotConnected \/ Reconnect
           \/ GiveUpConnecting \/ (\E held \in BOOLEAN : Farewell(held))
           \/ Disconnected \/ Close
  <2> USE DEF NotOpened, Reopen, StopOpening, NotConnected, Reconnect,
              GiveUpConnecting, Farewell, SayFarewell, Disconnected, Close
  <2>1. UNCHANGED <<state, busy, attempts, tx, handler, grace>>
    BY <1>4
  <2>2. main' \in {"opening", "reopening", "connecting", "reconnecting",
                   "starting", "running", "farewell", "joining"}
        /\ left' \in Nat
    BY <1>4 DEF Types
  <2>3. /\ main' = "opening" => left' <= ExchangeTime
        /\ main' = "connecting" => left' <= PublishTime
        /\ main' = "joining" => left' = 0
    BY <1>4 DEF Bounded, Types
  <2>4. /\ main' \in {"opening", "reopening"} => main \in {"opening", "reopening"}
        /\ main' \in {"connecting", "reconnecting"} =>
             main \in {"connecting", "reconnecting"}
        /\ main' # "starting"
    BY <1>4 DEF Types
  <2>5. /\ done => done'
        /\ main' = "farewell" => done'
        /\ done' /\ handler = "first" => main' = "joining"
    BY <1>4 DEF Signalled, Types
  <2>6. Types' /\ Bounded'
    BY <2>1, <2>2, <2>3 DEF Types, Bounded
  <2>7. Holding'
    BY <2>1 DEF Holding
  <2>8. Present'
    BY <2>1, <2>4 DEF Present
  <2>9. Signalled'
    BY <2>1, <2>5 DEF Signalled
  <2> QED
    BY <2>6, <2>7, <2>8, <2>9
<1> QED
  BY <1>1, <1>2, <1>3, <1>4 DEF Main

LEMMA OrderlyMain ==
  ASSUME Untimed, Main, exit = "no", Orderly'
  PROVE  Orderly
<1>1. ~Connected
  <2> SUFFICES ASSUME Connected PROVE FALSE
    OBVIOUS
  <2>1. early' = done /\ done' = done
    BY DEF Connected
  <2>2. handler' = handler
    BY DEF Connected
  <2>3. done
    BY <2>2 DEF Orderly, Untimed, Signalled
  <2> QED
    BY <2>1, <2>3 DEF Orderly
<1>2. handler' = handler /\ early' = early /\ (~stalled' => ~stalled)
  <2>1. CASE Opened \/ NotOpened \/ Reopen \/ StopOpening \/ NotConnected
    BY <2>1 DEF Opened, NotOpened, Reopen, StopOpening, NotConnected,
       handlerVars, goVars, Start
  <2>2. CASE Reconnect \/ GiveUpConnecting \/ Started \/ Disconnected \/ Close
    BY <2>2 DEF Reconnect, GiveUpConnecting, Started, Disconnected, Close,
       handlerVars, goVars, Start
  <2>3. ASSUME NEW held \in BOOLEAN, Farewell(held)
        PROVE  handler' = handler /\ early' = early /\ (~stalled' => ~stalled)
    BY <2>3 DEF Farewell, SayFarewell, handlerVars
  <2> QED
    BY <1>1, <2>1, <2>2, <2>3 DEF Main
<1>3. \A g \in Goroutines : state'[g] = "wedged" <=> state[g] = "wedged"
  <2>1. CASE Opened
    <3>1. Start({"supervisor"}) /\ \A g \in {"supervisor"} : state[g] = "absent"
      BY <2>1, Names DEF Opened, Untimed, Present
    <3> QED
      BY <3>1, Groups, StartKeeps
  <2>2. CASE Started
    <3>1. Start({"poller"}) /\ \A g \in {"poller"} : state[g] = "absent"
      BY <2>2, Names DEF Started, Untimed, Present
    <3> QED
      BY <3>1, Groups, StartKeeps
  <2>3. CASE ~Opened /\ ~Started
    BY <1>1, <2>3 DEF Main, NotOpened, Reopen, StopOpening, NotConnected,
       Reconnect, GiveUpConnecting, Farewell, SayFarewell, Disconnected, Close,
       goVars
  <2> QED
    BY <2>1, <2>2, <2>3
<1> QED
  BY <1>2, <1>3 DEF Orderly, Wedged

\* What is on its way is not disturbed by a step of run.
Running ==
  /\ \A g \in Goroutines :
       /\ state[g] \in {"exchange"} \cup Publishing \cup Backoff =>
            busy[g] < grace
       /\ state[g] = "exchange" /\ g # "supervisor" =>
            busy[g] + Since <= ExchangeTime
  /\ state["supervisor"] = "waiting" => Since <= ExchangeTime

\* Reopen and Reconnect look at the context, and run is then not starting.
LEMMA OnTimeMain ==
  ASSUME Untimed, Orderly, OnTime, Main, Orderly'
  PROVE  OnTime'
<1> USE Times, Names DEF Untimed
<1>1. done /\ main # "starting" /\ grace > 0 /\ ~early'
  BY DEF Orderly, Signalled, OnTime
<1>2. \/ Opened \/ NotOpened \/ NotConnected \/ GiveUpConnecting
      \/ SayFarewell(FarewellTime, FALSE) \/ Disconnected
  <2>1. ~Reopen /\ ~Reconnect /\ ~Started
    BY <1>1 DEF Reopen, Reconnect, Started
  <2>2. ~StopOpening /\ ~Close
    BY DEF StopOpening, Close, Orderly
  <2>3. ~Connected
    BY <1>1 DEF Connected
  <2>4. ASSUME NEW held \in BOOLEAN, Farewell(held)
        PROVE  SayFarewell(FarewellTime, FALSE)
    <3>1. ~held
      BY <2>4 DEF Farewell, SayFarewell, Orderly
    <3> QED
      BY <2>4, <3>1 DEF Farewell
  <2> QED
    BY <2>1, <2>2, <2>3, <2>4 DEF Main
<1>3. grace' = grace /\ busy' = busy /\ Since' = Since
  BY <1>2 DEF Opened, NotOpened, NotConnected, GiveUpConnecting, SayFarewell,
     Disconnected, handlerVars, goVars, Start, Since
<1>4. \A g \in Goroutines : state'[g] = state[g] \/ state'[g] = "idle"
  <2>1. CASE Opened
    BY <2>1, Groups, StartEffect DEF Opened
  <2>2. CASE ~Opened
    BY <1>2, <2>2 DEF NotOpened, NotConnected, GiveUpConnecting, SayFarewell,
       Disconnected, goVars
  <2> QED
    BY <2>1, <2>2
<1>5. /\ main' = "opening" => left' + Since <= ExchangeTime
      /\ main' = "reopening" => Since <= ExchangeTime
      /\ main' = "connecting" => left' + Since <= ExchangeTime + PublishTime
      /\ main' = "reconnecting" => Since <= ExchangeTime + PublishTime
      /\ main' # "starting"
      /\ main' = "running" => Since = 0
      /\ main' = "farewell" => left' + Since <= FarewellTime
  <2>1. CASE Opened \/ NotOpened
    BY <2>1 DEF Opened, NotOpened, Goto, OnTime, Types, Since
  <2>2. CASE NotConnected
    BY <2>2 DEF NotConnected, Goto, OnTime, Types, Since
  <2>3. CASE GiveUpConnecting \/ Disconnected
    BY <2>3 DEF GiveUpConnecting, Disconnected, Goto
  <2>4. CASE SayFarewell(FarewellTime, FALSE)
    BY <2>4 DEF SayFarewell, Goto, OnTime, Types, Since
  <2> QED
    BY <1>2, <2>1, <2>2, <2>3, <2>4
<1>6. Running
  BY DEF OnTime, Running
<1>7. Running'
  BY <1>3, <1>4, <1>6 DEF Running, Publishing, Backoff
<1> QED
  BY <1>1, <1>3, <1>5, <1>7 DEF OnTime, Running
-----------------------------------------------------------------------------
(***************************************************************************)
(* The handler and the clock.                                              *)
(***************************************************************************)
LEMMA FirstSignalEffect ==
  ASSUME FirstSignal
  PROVE  /\ UNCHANGED <<mainVars, exit, sent, state, busy, attempts, tx>>
         /\ signals > 0 /\ signals' = signals - 1
         /\ handler' = "second" /\ grace' = Grace /\ done' = TRUE
BY Zenon DEF FirstSignal

LEMMA UntimedHandler ==
  ASSUME Untimed, Signal \/ FirstSignal \/ HandlerLeaves \/ ForceExit
  PROVE  Untimed'
<1>1. UNCHANGED <<main, left, state, busy, attempts, tx>>
  BY DEF Signal, FirstSignal, HandlerLeaves, ForceExit, mainVars, goVars
<1>2. grace' \in Int
  <2>1. CASE FirstSignal
    BY <2>1, FirstSignalEffect, Times
  <2>2. CASE Signal \/ HandlerLeaves \/ ForceExit
    BY <2>2 DEF Untimed, Types, Signal, HandlerLeaves, ForceExit, handlerVars
  <2> QED
    BY <2>1, <2>2
<1>3. Types' /\ Bounded'
  BY <1>1, <1>2 DEF Untimed, Types, Bounded
<1>4. Holding'
  BY <1>1 DEF Untimed, Holding
<1>5. Present'
  BY <1>1 DEF Untimed, Present
<1>6. Signalled'
  <2>1. CASE FirstSignal
    BY <2>1, FirstSignalEffect DEF Signalled
  <2>2. CASE Signal \/ HandlerLeaves \/ ForceExit
    BY <2>2 DEF Untimed, Signalled, Signal, HandlerLeaves, ForceExit, mainVars,
       handlerVars
  <2> QED
    BY <2>1, <2>2
<1> QED
  BY <1>3, <1>4, <1>5, <1>6 DEF Untimed

LEMMA OnTimeHandler ==
  ASSUME Untimed, Orderly => OnTime,
         Signal \/ FirstSignal \/ HandlerLeaves \/ ForceExit, Orderly'
  PROVE  OnTime'
<1> USE Times, Names DEF Untimed
<1>1. UNCHANGED <<main, left, state, busy>>
  BY DEF Signal, FirstSignal, HandlerLeaves, ForceExit, mainVars, goVars
<1>2. CASE FirstSignal
  <2>1. grace' = Grace /\ Since' = 0
    BY <1>2 DEF FirstSignal, Since
  <2>2. main # "starting"
    <3>1. early' = (main = "starting")
      BY <1>2 DEF FirstSignal
    <3> QED
      BY <3>1 DEF Orderly
  <2>3. /\ main = "opening" => left <= ExchangeTime
        /\ main = "connecting" => left <= ExchangeTime + PublishTime
        /\ main # "farewell"
    BY <1>2, <2>1 DEF Bounded, Signalled, FirstSignal, Types
  <2>4. \A g \in Goroutines :
          /\ state[g] \in {"exchange"} \cup Publishing \cup Backoff =>
               busy[g] < Grace
          /\ state[g] = "exchange" => busy[g] + 0 <= ExchangeTime
    <3> TAKE g \in Goroutines
    <3>1. state[g] \in Publishing => busy[g] <= PublishTime
      BY <1>2 DEF FirstSignal, Held, Orderly, Types
    <3> QED
      BY <3>1 DEF Bounded, Types
  <2>5. /\ main' = "opening" => left' + Since' <= ExchangeTime
        /\ main' = "connecting" => left' + Since' <= ExchangeTime + PublishTime
        /\ main' # "farewell"
    BY <1>1, <2>1, <2>3 DEF Types
  <2>6. Running'
    BY <1>1, <2>1, <2>4 DEF Running
  <2> QED
    BY <1>1, <2>1, <2>2, <2>5, <2>6 DEF OnTime, Running
<1>3. CASE Signal \/ HandlerLeaves \/ ForceExit
  <2>1. grace' = grace /\ early' = early /\ stalled' = stalled
    BY <1>3 DEF Signal, HandlerLeaves, ForceExit, handlerVars, goVars
  <2>2. handler' = handler \/ handler' = "gone"
    BY <1>3 DEF Signal, HandlerLeaves, ForceExit, handlerVars
  <2>3. exit' = exit \/ exit' = "forced"
    BY <1>3 DEF Signal, HandlerLeaves, ForceExit
  <2>4. Orderly
    BY <1>1, <2>1, <2>2, <2>3 DEF Orderly, Wedged
  <2> QED
    BY <1>1, <2>1, <2>4 DEF OnTime, Since
<1> QED
  BY <1>2, <1>3

LEMMA UntimedTick ==
  ASSUME Untimed, Tick
  PROVE  Untimed'
<1> USE DEF Untimed
<1>1. UNCHANGED <<main, state, attempts, tx, handler>> /\ done' = done
  BY DEF Tick
<1>2. /\ left' \in Nat /\ left' <= left
      /\ grace' \in Int
      /\ busy' \in [Goroutines -> Nat]
      /\ \A g \in Goroutines : busy'[g] <= busy[g]
  BY DEF Tick, Less, Types
<1>3. Types'
  BY <1>1, <1>2 DEF Types
<1>4. Bounded'
  <2>1. \A g \in Goroutines : busy[g] \in Nat /\ busy'[g] \in Nat
    BY <1>2 DEF Types
  <2>2. left \in Nat
    BY DEF Types
  <2> QED
    BY <1>1, <1>2, <2>1, <2>2, Times DEF Bounded
<1>5. Holding'
  BY <1>1 DEF Holding
<1>6. Present'
  BY <1>1 DEF Present
<1>7. Signalled'
  BY <1>1 DEF Signalled
<1> QED
  BY <1>3, <1>4, <1>5, <1>6, <1>7

\* The holder of the lock is at work, since nothing is wedged.
LEMMA HolderAtWork ==
  ASSUME Untimed, Orderly, tx # Nobody,
         \A g \in Goroutines : ~GoroutineDue(g)
  PROVE  tx \in Goroutines /\ state[tx] = "exchange" /\ busy[tx] > 0
<1>1. tx \in Goroutines
  BY DEF Untimed, Types
<1>2. state[tx] \in {"exchange", "wedged"} /\ state[tx] # "wedged"
  BY <1>1 DEF Untimed, Holding, Orderly, Wedged
<1>3. ~GoroutineDue(tx) /\ busy[tx] \in Nat
  BY <1>1 DEF Untimed, Types
<1>4. busy[tx] # 0
  BY <1>2, <1>3 DEF GoroutineDue
<1> QED
  BY <1>1, <1>2, <1>3, <1>4

\* While the clock may go on, what it waits for is due before the watchdog.
LEMMA TimeLeft ==
  ASSUME Untimed, Orderly, OnTime, Tick
  PROVE  grace > 1
<1> USE Times, Names DEF Untimed
<1>1. done
  BY DEF Orderly, Signalled
<1>2. \A g \in Goroutines : ~GoroutineDue(g)
  BY DEF Tick
<1>3. \A g \in Goroutines :
        state[g] \in {"exchange"} \cup Publishing \cup Backoff => grace > 1
  <2> SUFFICES ASSUME NEW g \in Goroutines,
                      state[g] \in {"exchange"} \cup Publishing \cup Backoff
               PROVE  grace > 1
    OBVIOUS
  <2>1. busy[g] # 0
    BY <1>2 DEF GoroutineDue
  <2>2. busy[g] \in Nat /\ busy[g] < grace
    BY DEF OnTime, Types
  <2> QED
    BY <2>1, <2>2 DEF Types
<1>4. ~MainDue
  BY DEF Tick
<1>5. main \notin {"running", "reopening", "reconnecting", "starting"}
  BY <1>1, <1>4 DEF MainDue, OnTime
<1>6. CASE main \in {"opening", "connecting", "farewell"}
  <2>1. left # 0
    BY <1>4, <1>6 DEF MainDue
  <2> QED
    BY <1>6, <2>1 DEF OnTime, Since, Types
<1>7. CASE main = "joining"
  <2>1. ~AllGone \/ tx # Nobody
    BY <1>4, <1>7 DEF MainDue, Bounded
  <2>2. CASE tx # Nobody
    BY <1>2, <1>3, <2>2, HolderAtWork
  <2>3. CASE ~AllGone /\ tx = Nobody
    <3>1. PICK g \in Goroutines : state[g] \notin {"absent", "gone"}
      BY <2>3 DEF AllGone
    <3>2. state[g] # "idle"
      BY <1>1, <1>2 DEF GoroutineDue
    <3>3. state[g] # "waiting"
      BY <1>2, <2>3 DEF GoroutineDue
    <3>4. state[g] # "wedged"
      BY DEF Orderly, Wedged
    <3>5. state[g] \in States
      BY DEF Types
    <3> QED
      BY <1>3, <3>1, <3>2, <3>3, <3>4, <3>5 DEF States
  <2> QED
    BY <2>1, <2>2, <2>3
<1> QED
  BY <1>5, <1>6, <1>7 DEF Types

LEMMA OnTimeTick ==
  ASSUME Untimed, Orderly, OnTime, Tick
  PROVE  OnTime'
<1> USE Times, Names DEF Untimed
<1>1. done
  BY DEF Orderly, Signalled
<1>2. /\ UNCHANGED <<main, state>>
      /\ \A g \in Goroutines : busy'[g] = Less(busy[g])
      /\ left' = Less(left)
  BY DEF Tick
<1>3. grace' = grace - 1 /\ grace' > 0 /\ Since' = Since + 1
  <2>1. grace' = Less(grace)
    BY DEF Tick, Orderly
  <2> QED
    BY <2>1, TimeLeft DEF Less, Types, Since
<1>4. \A g \in Goroutines : ~GoroutineDue(g)
  BY DEF Tick
<1>5. main \notin {"running", "reopening", "reconnecting", "starting"}
  <2>1. ~MainDue
    BY DEF Tick
  <2> QED
    BY <1>1, <2>1 DEF MainDue, OnTime
<1>6. main \in {"opening", "connecting", "farewell"} => left' = left - 1
  <2> SUFFICES ASSUME main \in {"opening", "connecting", "farewell"}
               PROVE  left' = left - 1
    OBVIOUS
  <2>1. ~MainDue
    BY DEF Tick
  <2>2. left # 0
    BY <2>1 DEF MainDue
  <2> QED
    BY <1>2, <2>2 DEF Less, Types
<1>7. \A g \in Goroutines :
        /\ state[g] \in {"exchange"} \cup Publishing \cup Backoff =>
             busy'[g] < grace'
        /\ state[g] = "exchange" /\ g # "supervisor" =>
             busy'[g] + Since' <= ExchangeTime
  <2> SUFFICES ASSUME NEW g \in Goroutines,
                      state[g] \in {"exchange"} \cup Publishing \cup Backoff
               PROVE  /\ busy'[g] < grace'
                      /\ state[g] = "exchange" /\ g # "supervisor" =>
                           busy'[g] + Since' <= ExchangeTime
    OBVIOUS
  <2>1. busy[g] # 0
    BY <1>4 DEF GoroutineDue
  <2>2. busy[g] \in Nat /\ busy[g] < grace
        /\ (state[g] = "exchange" /\ g # "supervisor" =>
              busy[g] + Since <= ExchangeTime)
    BY DEF OnTime, Types
  <2>3. busy'[g] = busy[g] - 1
    BY <1>2, <2>1, <2>2 DEF Less
  <2> QED
    BY <1>3, <2>2, <2>3 DEF Types, Since
<1>8. state["supervisor"] = "waiting" => Since' <= ExchangeTime
  <2> SUFFICES ASSUME state["supervisor"] = "waiting"
               PROVE  Since' <= ExchangeTime
    OBVIOUS
  <2>1. tx # Nobody
    BY <1>4 DEF GoroutineDue
  <2>2. tx \in Goroutines /\ state[tx] = "exchange" /\ busy[tx] > 0
    BY <1>4, <2>1, HolderAtWork
  <2>3. tx # "supervisor"
    BY <2>2
  <2>4. busy[tx] + Since <= ExchangeTime /\ busy[tx] \in Nat
    BY <2>2, <2>3 DEF OnTime, Types
  <2> QED
    BY <1>3, <2>2, <2>4 DEF Since, Types
<1>9. /\ main' = "opening" => left' + Since' <= ExchangeTime
      /\ main' = "connecting" => left' + Since' <= ExchangeTime + PublishTime
      /\ main' = "farewell" => left' + Since' <= FarewellTime
  BY <1>2, <1>3, <1>6 DEF OnTime, Types, Since
<1> QED
  BY <1>2, <1>3, <1>5, <1>7, <1>8, <1>9 DEF OnTime
-----------------------------------------------------------------------------
(***************************************************************************)
(* The whole.                                                              *)
(***************************************************************************)
LEMMA InitHolds == Init => IInv
<1> SUFFICES ASSUME Init PROVE IInv
  OBVIOUS
<1> USE Times, Names DEF Init
<1>1. \A g \in Goroutines : state[g] = "absent" /\ busy[g] = 0
  OBVIOUS
<1>2. Types
  BY DEF Types, States
<1>3. Bounded
  BY <1>1 DEF Bounded, Publishing, Backoff
<1>4. Holding
  BY <1>1 DEF Holding
<1>5. Present
  BY <1>1 DEF Present, Publishing, Backoff
<1>6. Signalled /\ ~Orderly
  BY DEF Signalled, Orderly
<1>7. ForcedOnlyForCause
  BY DEF ForcedOnlyForCause
<1> QED
  BY <1>2, <1>3, <1>4, <1>5, <1>6, <1>7 DEF IInv

\* When the watchdog fires there is a cause, and nothing else is forced.
LEMMA Ending ==
  ASSUME IInv, Next
  PROVE  ForcedOnlyForCause'
<1>1. exit = "no"
  BY DEF Next
<1>2. CASE ForceExit
  <2>1. UNCHANGED <<signals, state, stalled>> /\ early' = early
    BY <1>2 DEF ForceExit, handlerVars, goVars
  <2>2. handler = "second" /\ (signals > 0 \/ grace = 0)
    BY <1>2 DEF ForceExit
  <2>3. grace = 0 => ~Orderly
    BY DEF IInv, OnTime
  <2>4. signals > 0 \/ Wedged \/ early \/ stalled
    BY <1>1, <2>2, <2>3 DEF Orderly
  <2> QED
    BY <2>1, <2>4 DEF ForcedOnlyForCause, Wedged
<1>3. CASE ~ForceExit
  <2>1. exit' # "forced"
    <3>1. CASE Signal \/ FirstSignal \/ HandlerLeaves \/ Tick
      BY <1>1, <3>1 DEF Signal, FirstSignal, HandlerLeaves, Tick
    <3>2. CASE Main
      BY <1>1, <3>2 DEF Main, Opened, NotOpened, Reopen, StopOpening,
         Connected, NotConnected, Reconnect, GiveUpConnecting, Started,
         Farewell, SayFarewell, Disconnected, Close
    <3>3. CASE (\E g \in Goroutines : Work(g)) \/ PollPublishes
      <4>1. PICK g \in Goroutines, s \in NewState, n \in Nat : Moves(g, s, n)
        BY <3>3, WorkMoves DEF IInv
      <4> QED
        BY <1>1, <4>1 DEF Moves, Proceed
    <3> QED
      BY <1>3, <3>1, <3>2, <3>3 DEF Next
  <2> QED
    BY <2>1 DEF ForcedOnlyForCause
<1> QED
  BY <1>2, <1>3

LEMMA StepKeeps == IInv /\ [Next]_vars => IInv'
<1> SUFFICES ASSUME IInv, [Next]_vars PROVE IInv'
  OBVIOUS
<1>1. Untimed /\ (Orderly => OnTime)
  BY DEF IInv, Untimed
<1>2. CASE Next
  <2>1. Untimed' /\ (Orderly' => OnTime')
    <3>1. CASE Signal \/ FirstSignal \/ HandlerLeaves \/ ForceExit
      BY <1>1, <3>1, UntimedHandler, OnTimeHandler
    <3>2. CASE Main
      <4>1. Orderly' => Orderly
        BY <1>1, <1>2, <3>2, OrderlyMain DEF Next
      <4> QED
        BY <1>1, <3>2, <4>1, UntimedMain, OnTimeMain
    <3>3. CASE Tick
      <4>1. Orderly' => Orderly
        BY <3>3 DEF Tick, Orderly, Wedged
      <4> QED
        BY <1>1, <3>3, <4>1, UntimedTick, OnTimeTick
    <3>4. CASE (\E g \in Goroutines : Work(g)) \/ PollPublishes
      <4>1. PICK g \in Goroutines, s \in NewState, n \in Nat : Moves(g, s, n)
        BY <1>1, <3>4, WorkMoves DEF Untimed
      <4>2. Untimed' /\ (Orderly' => Orderly)
        BY <1>1, <4>1, UntimedMoves, OrderlyMoves
      <4> QED
        BY <1>1, <4>1, <4>2, OnTimeMoves
    <3> QED
      BY <1>2, <3>1, <3>2, <3>3, <3>4 DEF Next
  <2>2. ForcedOnlyForCause'
    BY <1>2, Ending
  <2> QED
    BY <2>1, <2>2 DEF IInv, Untimed
<1>3. CASE UNCHANGED vars
  <2> USE <1>3 DEF vars, mainVars, handlerVars, goVars
  <2>1. Types' /\ Bounded' /\ Holding' /\ Present' /\ Signalled'
    BY DEF IInv, Types, Bounded, Holding, Present, Signalled
  <2>2. Orderly' => OnTime'
    <3>1. Orderly' => Orderly
      BY DEF Orderly, Wedged
    <3>2. OnTime => OnTime'
      BY DEF OnTime, Since
    <3> QED
      BY <3>1, <3>2 DEF IInv
  <2>3. ForcedOnlyForCause'
    BY DEF IInv, ForcedOnlyForCause, Wedged
  <2> QED
    BY <2>1, <2>2, <2>3 DEF IInv
<1> QED
  BY <1>2, <1>3

THEOREM Invariance == Spec => []IInv
BY InitHolds, StepKeeps, PTL DEF Spec

(***************************************************************************)
(* The watchdog never fires because of what the goroutines and the broker  *)
(* do: with no second signal, no wedged call, no start-up to finish and no *)
(* publish that paho held before taking it, run returns first.             *)
(***************************************************************************)
THEOREM WatchdogHasCause == Spec => []ForcedOnlyForCause
<1>1. IInv => ForcedOnlyForCause
  BY DEF IInv
<1> QED
  BY <1>1, Invariance, PTL

-----------------------------------------------------------------------------
(***************************************************************************)
(* The rest of the types: every attempt that is waited for is one more.    *)
(***************************************************************************)
Flags ==
  /\ err \in {"nil", "canceled", "failed"}
  /\ exit \in {"no", "clean", "failed", "forced"}
  /\ done \in BOOLEAN /\ early \in BOOLEAN /\ stalled \in BOOLEAN
  /\ handler \in {"first", "second", "gone"}

Counts ==
  /\ tries \in 0..ConnectTries
  /\ main = "reconnecting" => tries < ConnectTries
  /\ grace \in 0..Grace /\ signals \in 0..2 /\ sent \in 0..MaxSignals

Attempts ==
  /\ attempts \in [Goroutines -> 0..PublishTries]
  /\ \A g \in Goroutines : state[g] \in Backoff => attempts[g] < PublishTries

LEMMA FlagsStep ==
  ASSUME Flags, Next
  PROVE  Flags'
<1> USE DEF Flags
<1>1. CASE Signal \/ FirstSignal \/ HandlerLeaves \/ ForceExit \/ Tick
  BY <1>1 DEF Signal, FirstSignal, HandlerLeaves, ForceExit, Tick, mainVars,
     handlerVars, goVars
<1>2. CASE Opened \/ NotOpened \/ Reopen \/ StopOpening \/ Connected \/ NotConnected
  BY <1>2 DEF Opened, NotOpened, Reopen, StopOpening, Connected, NotConnected,
     mainVars, handlerVars, goVars, Start
<1>3. CASE Reconnect \/ GiveUpConnecting \/ Started
           \/ (\E held \in BOOLEAN : Farewell(held)) \/ Disconnected \/ Close
  BY <1>3 DEF Reconnect, GiveUpConnecting, Started, Farewell, SayFarewell,
     Disconnected, Close, mainVars, handlerVars, goVars, Start
<1>4. CASE (\E g \in Goroutines : Work(g)) \/ PollPublishes
  <2>1. UNCHANGED <<err, exit, done, early, handler>>
    BY <1>4 DEF Work, Step, Ask, Wedge, Exchange, TooLate, Exchanged, Published,
       PublishFails, PublishAgain, Leave, PollPublishes, Publish, Proceed,
       mainVars,
       handlerVars
  <2>2. stalled' \in BOOLEAN
    BY <1>4 DEF Work, Step, Ask, Wedge, Exchange, TooLate, Exchanged, Published,
       PublishFails, PublishAgain, Leave, PollPublishes, Publish, Proceed
  <2> QED
    BY <2>1, <2>2
<1> QED
  BY <1>1, <1>2, <1>3, <1>4 DEF Next, Main

LEMMA CountsStep ==
  ASSUME Counts, Next
  PROVE  Counts'
<1> USE TimesPositive DEF Counts
<1>1. CASE Signal \/ FirstSignal
  <2>1. CASE Signal
    BY <2>1 DEF Signal, mainVars
  <2>2. CASE FirstSignal
    BY <2>2, FirstSignalEffect DEF mainVars
  <2> QED
    BY <1>1, <2>1, <2>2
<1>2. CASE HandlerLeaves \/ ForceExit
  BY <1>2 DEF HandlerLeaves, ForceExit, mainVars, handlerVars
<1>3. CASE Tick
  BY <1>3 DEF Tick, Less
<1>4. CASE Main
  <2>1. UNCHANGED <<grace, signals, sent>>
    BY <1>4 DEF Main, Opened, NotOpened, Reopen, StopOpening, Connected,
       NotConnected, Reconnect, GiveUpConnecting, Started, Farewell,
       SayFarewell, Disconnected, Close, handlerVars
  <2>2. CASE Opened \/ Reconnect \/ NotConnected
    BY <2>1, <2>2 DEF Opened, Reconnect, NotConnected, Goto
  <2>3. CASE ~Opened /\ ~Reconnect /\ ~NotConnected
    <3>1. tries' = tries
      BY <1>4, <2>3 DEF Main, NotOpened, Reopen, StopOpening, Connected,
         GiveUpConnecting, Started, Farewell, SayFarewell,
         Disconnected, Close, mainVars
    <3>2. main' = "reconnecting" => main = "reconnecting"
      BY <1>4, <2>3 DEF Main, NotOpened, Reopen, StopOpening, Connected,
         GiveUpConnecting, Started, Farewell, SayFarewell,
         Disconnected, Close, mainVars, Goto
    <3> QED
      BY <2>1, <3>1, <3>2
  <2> QED
    BY <2>2, <2>3
<1>5. CASE (\E g \in Goroutines : Work(g)) \/ PollPublishes
  <2>1. UNCHANGED <<main, tries, grace, signals, sent>>
    BY <1>5 DEF Work, Step, Ask, Wedge, Exchange, TooLate, Exchanged, Published,
       PublishFails, PublishAgain, Leave, PollPublishes, Publish, Proceed,
       mainVars,
       handlerVars
  <2> QED
    BY <2>1
<1> QED
  BY <1>1, <1>2, <1>3, <1>4, <1>5 DEF Next

\* g goes on to s with n attempts made.
LEMMA AttemptsProceed ==
  ASSUME Types, Attempts, NEW g \in Goroutines, NEW s \in States, NEW t,
         NEW n \in 0..PublishTries, Proceed(g, s, t),
         attempts' = [attempts EXCEPT ![g] = n],
         s \in Backoff => n < PublishTries
  PROVE  Attempts'
BY TimesPositive DEF Attempts, Types, Proceed

LEMMA AttemptsKept ==
  ASSUME Types, Attempts, NEW g \in Goroutines, NEW s \in States, NEW t,
         Proceed(g, s, t), attempts' = attempts,
         s \in Backoff => attempts[g] < PublishTries
  PROVE  Attempts'
BY DEF Attempts, Types, Proceed

LEMMA AttemptsWork ==
  ASSUME Types, Attempts, NEW g \in Goroutines, Work(g)
  PROVE  Attempts'
<1>1. 0 \in 0..PublishTries /\ 1 \in 0..PublishTries
  BY TimesPositive
<1>2. {"idle", "waiting", "exchange", "wedged", "gone", "publishing", "reporting"}
        \subseteq States \ Backoff /\ Backoff \subseteq States
  BY DEF States, Publishing, Backoff
<1>3. CASE Ask(g) \/ Exchange(g) \/ Wedge(g) \/ Leave(g)
  <2>1. attempts' = attempts
        /\ \E s \in States \ Backoff, t \in {0, ExchangeTime} : Proceed(g, s, t)
    BY <1>2, <1>3 DEF Ask, Exchange, Wedge, Leave
  <2> QED
    BY <2>1, AttemptsKept
<1>4. CASE TooLate(g) \/ Exchanged(g) \/ Published(g)
  <2>1. \E s \in States \ Backoff, t \in {0} \cup PublishTimes :
          /\ Proceed(g, s, t)
          /\ \/ attempts' = attempts
             \/ \E n \in {0, 1} : attempts' = [attempts EXCEPT ![g] = n]
    BY <1>2, <1>4 DEF TooLate, Exchanged, Published, Publish
  <2> QED
    BY <1>1, <2>1, AttemptsKept, AttemptsProceed
<1>5. CASE PublishFails(g)
  <2>1. PICK s \in Backoff : Proceed(g, s, RetryDelay)
    BY <1>5 DEF PublishFails, Backoff
  <2>2. attempts' = attempts /\ attempts[g] < PublishTries
    BY <1>5 DEF PublishFails
  <2> QED
    BY <1>2, <2>1, <2>2, AttemptsKept
<1>6. CASE PublishAgain(g)
  <2>1. PICK s \in States \ Backoff, t \in PublishTimes : Proceed(g, s, t)
    BY <1>2, <1>6 DEF PublishAgain, Publish
  <2>2. attempts[g] < PublishTries /\ attempts[g] \in 0..PublishTries
    BY <1>6 DEF PublishAgain, Attempts
  <2>3. attempts[g] + 1 \in 0..PublishTries
    BY <2>2, TimesPositive
  <2>4. attempts' = [attempts EXCEPT ![g] = attempts[g] + 1]
    BY <1>6 DEF PublishAgain
  <2> QED
    BY <2>1, <2>3, <2>4, AttemptsProceed
<1> QED
  BY <1>3, <1>4, <1>5, <1>6 DEF Work, Step

LEMMA AttemptsStep ==
  ASSUME Untimed, Attempts, Next
  PROVE  Attempts'
<1>1. CASE Main
  <2>1. attempts' = attempts
    BY <1>1 DEF Main, Opened, NotOpened, Reopen, StopOpening, Connected,
       NotConnected, Reconnect, GiveUpConnecting, Started, Farewell,
       SayFarewell, Disconnected, Close, goVars, Start
  <2>2. \A g \in Goroutines : state'[g] = state[g] \/ state'[g] = "idle"
    <3>1. CASE Opened \/ Connected \/ Started
      BY <3>1, Groups, StartEffect DEF Opened, Connected, Started, Untimed
    <3>2. CASE ~Opened /\ ~Connected /\ ~Started
      BY <1>1, <3>2 DEF Main, NotOpened, Reopen, StopOpening, NotConnected,
         Reconnect, GiveUpConnecting, Farewell, SayFarewell, Disconnected, Close,
         goVars
    <3> QED
      BY <3>1, <3>2
  <2> QED
    BY <2>1, <2>2 DEF Attempts, Backoff
<1>2. CASE \E g \in Goroutines : Work(g)
  BY <1>2, AttemptsWork DEF Untimed
<1>3. CASE PollPublishes
  <2>1. 1 \in 0..PublishTries /\ "publishing" \in States \ Backoff
    BY TimesPositive DEF States, Publishing, Backoff
  <2> QED
    BY <1>3, <2>1, Names, AttemptsProceed DEF PollPublishes, Publish, Untimed
<1>4. CASE Signal \/ FirstSignal \/ HandlerLeaves \/ ForceExit \/ Tick
  BY <1>4 DEF Signal, FirstSignal, HandlerLeaves, ForceExit, Tick, goVars, Attempts
<1> QED
  BY <1>1, <1>2, <1>3, <1>4 DEF Next

(***************************************************************************)
(* Every variable keeps its type, the countdowns and counters in bounds.   *)
(***************************************************************************)
THEOREM TypeCorrect == Spec => []TypeOK
<1>1. Init => Flags /\ Counts /\ Attempts
  <2> SUFFICES ASSUME Init PROVE Flags /\ Counts /\ Attempts
    OBVIOUS
  <2>1. Flags
    BY DEF Init, Flags
  <2>2. Counts
    BY TimesPositive DEF Init, Counts
  <2>3. Attempts
    BY TimesPositive DEF Init, Attempts, Backoff
  <2> QED
    BY <2>1, <2>2, <2>3
<1>2. IInv /\ Flags /\ Counts /\ Attempts /\ [Next]_vars =>
        (Flags /\ Counts /\ Attempts)'
  <2> SUFFICES ASSUME IInv, Flags, Counts, Attempts, [Next]_vars
               PROVE  (Flags /\ Counts /\ Attempts)'
    OBVIOUS
  <2>1. CASE Next
    BY <2>1, FlagsStep, CountsStep, AttemptsStep DEF IInv, Untimed
  <2>2. CASE UNCHANGED vars
    BY <2>2 DEF vars, mainVars, handlerVars, goVars, Flags, Counts, Attempts
  <2> QED
    BY <2>1, <2>2
<1>3. IInv /\ Flags /\ Counts /\ Attempts => TypeOK
  BY DEF IInv, Types, States, Flags, Counts, Attempts, TypeOK
<1> QED
  BY <1>1, <1>2, <1>3, Invariance, PTL DEF Spec
=============================================================================
