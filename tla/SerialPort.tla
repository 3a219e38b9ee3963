----------------------------- MODULE SerialPort -----------------------------
(***************************************************************************)
(* internal/serial/serial.go: ownership of the serial port.                *)
(*                                                                         *)
(* Several goroutines run transactions; txMu serialises them.  A port      *)
(* error marks the port unhealthy, and the supervisor, alone, closes and   *)
(* reopens it, with a backoff.  main opens the port before any of them     *)
(* starts and closes it after all of them have ended (cmd/main.go, run).   *)
(*                                                                         *)
(* What travels on the wire is the matter of BusExchange; here a           *)
(* transaction is the sequence of its port operations, each of which may   *)
(* succeed or fail, with an error that says the port is gone or one that   *)
(* does not.  mu is never held across a step.                              *)
(***************************************************************************)
EXTENDS Integers

CONSTANTS
  Clients,          \* goroutines that run transactions
  ReopenBackoff,    \* clock steps before a second reopen
  MaxReopenBackoff, \* the cap on the doubling backoff
  HealthCheckInterval

\* Config.applyDefaults, and the range checks of AppConfig.Validate.
ASSUME BackoffOrder ==
  /\ ReopenBackoff \in Nat \ {0}
  /\ MaxReopenBackoff \in Nat
  /\ ReopenBackoff <= MaxReopenBackoff
ASSUME IntervalPositive == HealthCheckInterval \in Nat \ {0}

Nobody == "nobody"
Supervisor == "supervisor"
ASSUME ClientNames == Nobody \notin Clients /\ Supervisor \notin Clients

\* time.Time{} of healthySince.
Never == -1

VARIABLES
  main,      \* run: "opening", "running", "closed"
  stop,      \* the root context is cancelled
  txMu,      \* who holds txMu
  open,      \* SerialPort.open (and port, fr # nil)
  healthy,   \* SerialPort.healthy
  pc,        \* pc[c]: where client c is in a transaction
  session,   \* session[c]: c's port: "none", "current", or "stale" once swapped
  sup,       \* the supervisor: "off", "check", "rest", "reopen", "hold", "done"
  timer,     \* clock steps left of the supervisor's sleep
  backoff,   \* Supervise: backoff
  healthySince, \* Supervise: clock steps since healthySince, or Never
  lost,      \* the device behind the open port is gone
  upFor,     \* history: clock steps the port has been healthy without a break
  sinceReopen  \* history: clock steps since the last reopen attempt

port == <<open, healthy, lost, upFor>>
supervision == <<sup, timer, backoff, healthySince, sinceReopen>>
vars == <<main, stop, txMu, open, healthy, pc, session, sup, timer, backoff,
          healthySince, lost, upFor, sinceReopen>>

OnWire == {"quiet", "flush", "write", "drain", "await"}

Init ==
  /\ main = "opening"
  /\ stop = FALSE
  /\ txMu = Nobody
  /\ open = FALSE
  /\ healthy = FALSE
  /\ pc = [c \in Clients |-> "idle"]
  /\ session = [c \in Clients |-> "none"]
  /\ sup = "off"
  /\ timer = 0
  /\ backoff = ReopenBackoff
  /\ healthySince = Never
  /\ lost = FALSE
  /\ upFor = 0
  /\ sinceReopen = MaxReopenBackoff

(***************************************************************************)
(* Opening and closing.  openLocked and closeLocked run under mu in one    *)
(* step; a swap leaves whoever still holds the old session with a dead     *)
(* port.                                                                   *)
(***************************************************************************)
\* Bug: the health flag is not set again (see ReadGate on these).
OpenedKeepingHealth ==
  /\ open' = TRUE
  /\ healthy' = healthy
  /\ lost' = FALSE
  /\ upFor' = 0

Opened ==
  /\ open' = TRUE
  /\ healthy' = TRUE
  /\ lost' = FALSE
  /\ upFor' = 0

NotOpened ==
  /\ open' = FALSE
  /\ healthy' = FALSE
  /\ lost' = FALSE
  /\ upFor' = 0

DropSessions ==
  session' = [c \in Clients |->
                IF session[c] = "current" THEN "stale" ELSE session[c]]

\* openSerialWithRetry: try until the device is there, then start the rest.
FirstOpen ==
  /\ main = "opening"
  /\ ~stop
  /\ Opened
  /\ main' = "running"
  /\ sup' = "check"
  /\ UNCHANGED <<stop, txMu, pc, session, timer, backoff, healthySince,
                 sinceReopen>>

\* ... or until the program is told to stop.
NeverOpened ==
  /\ main = "opening"
  /\ stop
  /\ main' = "closed"
  /\ UNCHANGED <<stop, txMu, pc, session, port, supervision>>

\* SIGINT or SIGTERM, or the broker was never reached.
Stop ==
  /\ ~stop
  /\ stop' = TRUE
  /\ UNCHANGED <<main, txMu, pc, session, port, supervision>>

\* Bug: the supervisor is not joined.
CloseBeforeJoin ==
  /\ main = "running"
  /\ stop
  /\ \A c \in Clients : pc[c] = "gone"
  /\ txMu = Nobody
  /\ main' = "closed"
  /\ NotOpened
  /\ DropSessions
  /\ UNCHANGED <<stop, txMu, pc, supervision>>

\* run: wg.Wait() has returned, Close takes txMu and closes the port.
Close ==
  /\ main = "running"
  /\ stop
  /\ sup = "done"
  /\ \A c \in Clients : pc[c] = "gone"
  /\ txMu = Nobody
  /\ main' = "closed"
  /\ NotOpened
  /\ DropSessions
  /\ UNCHANGED <<stop, txMu, pc, supervision>>

(***************************************************************************)
(* Transact and Send.                                                      *)
(***************************************************************************)
Request(c) ==
  /\ main = "running"
  /\ pc[c] = "idle"
  /\ ~stop
  /\ pc' = [pc EXCEPT ![c] = "waiting"]
  /\ UNCHANGED <<main, stop, txMu, session, port, supervision>>

\* The client's goroutine ends with the root context.
Leave(c) ==
  /\ main = "running"
  /\ stop
  /\ pc[c] = "idle"
  /\ pc' = [pc EXCEPT ![c] = "gone"]
  /\ UNCHANGED <<main, stop, txMu, session, port, supervision>>

\* txMu taken, context alive, session() returned the open port.
Acquire(c) ==
  /\ pc[c] = "waiting"
  /\ txMu = Nobody
  /\ ~stop
  /\ open
  /\ txMu' = c
  /\ pc' = [pc EXCEPT ![c] = "quiet"]
  /\ session' = [session EXCEPT ![c] = "current"]
  /\ UNCHANGED <<main, stop, port, supervision>>

\* txMu taken and given back: the port is not open, or the context has ended,
\* which a read cycle's may at any time.
Refused(c) ==
  /\ pc[c] = "waiting"
  /\ txMu = Nobody
  /\ pc' = [pc EXCEPT ![c] = "idle"]
  /\ UNCHANGED <<main, stop, txMu, session, port, supervision>>

\* The deferred unlock.
Return(c) ==
  /\ txMu' = Nobody
  /\ pc' = [pc EXCEPT ![c] = "idle"]
  /\ session' = [session EXCEPT ![c] = "none"]

\* waitQuiet, ResetInputBuffer, Write, Drain and, for Transact, the wait.
Advance(c) ==
  /\ \E step \in {<<"quiet", "flush">>, <<"flush", "write">>,
                  <<"write", "drain">>, <<"drain", "await">>} :
       /\ pc[c] = step[1]
       /\ pc' = [pc EXCEPT ![c] = step[2]]
  /\ UNCHANGED <<main, stop, txMu, session, port, supervision>>

\* Send ends once drained; Transact with a frame that matches.
Succeed(c) ==
  /\ pc[c] \in {"drain", "await"}
  /\ Return(c)
  /\ UNCHANGED <<main, stop, port, supervision>>

\* ctx.Err, while listening before the command and between two frames.
ContextEnds(c) ==
  /\ pc[c] \in {"quiet", "await"}
  /\ Return(c)
  /\ UNCHANGED <<main, stop, port, supervision>>

(***************************************************************************)
(* Errors.  One is the set of the sentinels and codes that errors.Is and   *)
(* errors.As find in it, of which there may be several.                    *)
(***************************************************************************)
TimeoutMarks == {"ErrReadTimeout", "EOF", "DeadlineExceeded", "EAGAIN",
                 "net.Error.Timeout"}
PortMarks == {"PortClosed", "PortNotFound", "InvalidSerialPort", "EIO",
              "ENODEV", "ENXIO", "EBADF", "ErrClosed", "ErrNotExist",
              "ErrPortNotOpen"}
OtherMarks == {"EINTR", "ErrFrameOverflow"}

Errors ==
  {{m} : m \in TimeoutMarks \cup PortMarks \cup OtherMarks}
    \cup {{m, n} : m \in TimeoutMarks, n \in PortMarks}

IsTimeout(err) == err \cap TimeoutMarks # {}

\* Bug: whatever is not a timeout condemns the port.
AnyOtherError(err) == ~IsTimeout(err)

IsPortError(err) == ~IsTimeout(err) /\ err \cap PortMarks # {}

\* The driver (external) says a port is gone of one that is: unplugged, or
\* closed under its user.
Plausible(c, err) ==
  err \cap PortMarks # {} => lost \/ session[c] = "stale"

\* waitQuiet and readFrame wait on over a timeout; readFrame has its own,
\* the response timeout.
Surfaces(c, err) ==
  IsTimeout(err) => \/ pc[c] \in {"flush", "write", "drain"}
                    \/ pc[c] = "await" /\ err = {"ErrReadTimeout"}

\* A port operation fails: markUnhealthy if the error means that the port is
\* gone, whichever port is the current one by then.
Fails(c, err) ==
  /\ pc[c] \in OnWire
  /\ Plausible(c, err)
  /\ Surfaces(c, err)
  /\ Return(c)
  /\ healthy' = (healthy /\ ~IsPortError(err))
  /\ upFor' = IF healthy' THEN upFor ELSE 0
  /\ UNCHANGED <<main, stop, open, lost, supervision>>

\* The device is unplugged, or dies (external).
Unplugged ==
  /\ open
  /\ ~lost
  /\ lost' = TRUE
  /\ UNCHANGED <<main, stop, txMu, open, healthy, upFor, pc, session,
                 supervision>>

(***************************************************************************)
(* Supervise.                                                              *)
(***************************************************************************)
\* The port is healthy: maybe forgive its past, then rest.
SeeHealthy ==
  /\ sup = "check"
  /\ ~stop
  /\ open /\ healthy
  /\ healthySince' = IF healthySince = Never THEN 0 ELSE healthySince
  /\ backoff' =
       IF healthySince' >= MaxReopenBackoff THEN ReopenBackoff ELSE backoff
  /\ sup' = "rest"
  /\ timer' = HealthCheckInterval
  /\ UNCHANGED <<main, stop, txMu, pc, session, port, sinceReopen>>

\* Bug: healthySince survives an unhealthy spell.
SeeUnhealthyForgiving ==
  /\ sup = "check"
  /\ ~stop
  /\ ~(open /\ healthy)
  /\ sup' = "reopen"
  /\ UNCHANGED <<main, stop, txMu, pc, session, port, timer, backoff,
                 healthySince, sinceReopen>>

SeeUnhealthy ==
  /\ sup = "check"
  /\ ~stop
  /\ ~(open /\ healthy)
  /\ healthySince' = Never
  /\ sup' = "reopen"
  /\ UNCHANGED <<main, stop, txMu, pc, session, port, timer, backoff,
                 sinceReopen>>

\* Bug: reopen does not take txMu.
ReopenUnlocked(opened) ==
  /\ sup = "reopen"
  /\ IF opened THEN Opened ELSE NotOpened
  /\ DropSessions
  /\ sup' = "hold"
  /\ timer' = backoff
  /\ sinceReopen' = 0
  /\ UNCHANGED <<main, stop, txMu, pc, backoff, healthySince>>

\* reopen: under txMu, close and open again, which may fail.
Reopen(opened) ==
  /\ sup = "reopen"
  /\ txMu = Nobody
  /\ IF opened THEN Opened ELSE NotOpened
  /\ DropSessions
  /\ sup' = "hold"
  /\ timer' = backoff
  /\ sinceReopen' = 0
  /\ UNCHANGED <<main, stop, txMu, pc, backoff, healthySince>>

\* Bug: the next attempt follows at once.
HoldSkipped ==
  /\ sup = "hold"
  /\ sup' = "check"
  /\ backoff' = IF 2 * backoff > MaxReopenBackoff THEN MaxReopenBackoff
                                                  ELSE 2 * backoff
  /\ UNCHANGED <<main, stop, txMu, pc, session, port, timer, healthySince,
                 sinceReopen>>

\* The sleep after an attempt is over: double the backoff.
HoldOver ==
  /\ sup = "hold"
  /\ timer = 0
  /\ sup' = "check"
  /\ backoff' = IF 2 * backoff > MaxReopenBackoff THEN MaxReopenBackoff
                                                  ELSE 2 * backoff
  /\ UNCHANGED <<main, stop, txMu, pc, session, port, timer, healthySince,
                 sinceReopen>>

RestOver ==
  /\ sup = "rest"
  /\ timer = 0
  /\ sup' = "check"
  /\ UNCHANGED <<main, stop, txMu, pc, session, port, timer, backoff,
                 healthySince, sinceReopen>>

\* ctx ends at the head of the loop or in either sleep, not during reopen.
SupervisorEnds ==
  /\ sup \in {"check", "rest", "hold"}
  /\ stop
  /\ sup' = "done"
  /\ UNCHANGED <<main, stop, txMu, pc, session, port, timer, backoff,
                 healthySince, sinceReopen>>

\* A count that stops where no guard can tell the difference any more.
Count(n) == IF n < MaxReopenBackoff THEN n + 1 ELSE n

Tick ==
  /\ main = "running"
  /\ timer' = IF timer > 0 THEN timer - 1 ELSE 0
  /\ healthySince' = IF healthySince = Never THEN Never ELSE Count(healthySince)
  /\ upFor' = IF open /\ healthy THEN Count(upFor) ELSE 0
  /\ sinceReopen' = Count(sinceReopen)
  /\ UNCHANGED <<main, stop, txMu, open, healthy, pc, session, sup, backoff,
                 lost>>

\* The process has ended.
Ended == main = "closed" /\ UNCHANGED vars

Client(c) ==
  Request(c) \/ Leave(c) \/ Acquire(c) \/ Refused(c) \/ Advance(c)
    \/ Succeed(c) \/ ContextEnds(c)
    \/ \E err \in Errors : Fails(c, err)

Next ==
  \/ FirstOpen \/ NeverOpened \/ Stop \/ Close
  \/ \E c \in Clients : Client(c)
  \/ SeeHealthy \/ SeeUnhealthy \/ HoldOver \/ RestOver \/ SupervisorEnds
  \/ \E opened \in BOOLEAN : Reopen(opened)
  \/ Unplugged
  \/ Tick
  \/ Ended

Spec == Init /\ [][Next]_vars

(***************************************************************************)
(* Fairness.  Goroutines run and time passes.  sync.Mutex hands itself to  *)
(* a waiter that has starved for a millisecond, so whoever keeps finding   *)
(* txMu free now and then gets it (SF).  The waits of a transaction have   *)
(* a deadline, and ResetInputBuffer does not block.                        *)
(*                                                                         *)
(* Write and Drain have no time limit: that they return is an assumption   *)
(* about the driver, and that the device can be opened again and again one *)
(* about the hardware.  Lifecycle is about a system call that never does.  *)
(***************************************************************************)
Leaves(c) ==
  \/ Advance(c) \/ Succeed(c) \/ ContextEnds(c)
  \/ \E err \in Errors : Fails(c, err)

Fairness ==
  /\ WF_vars(Tick)
  /\ WF_vars(SeeHealthy) /\ WF_vars(SeeUnhealthy)
  /\ WF_vars(HoldOver) /\ WF_vars(RestOver)
  /\ SF_vars(\E opened \in BOOLEAN : Reopen(opened))
  /\ \A c \in Clients :
       /\ WF_vars(pc[c] \in {"quiet", "flush", "await"} /\ Leaves(c))
       /\ SF_vars(Acquire(c) \/ Refused(c))

CallsReturn ==
  \A c \in Clients : WF_vars(pc[c] \in {"write", "drain"} /\ Leaves(c))
DeviceReturns == SF_vars(Reopen(TRUE))

LuckySpec == Spec /\ Fairness /\ CallsReturn /\ DeviceReturns
-----------------------------------------------------------------------------
TypeOK ==
  /\ main \in {"opening", "running", "closed"}
  /\ stop \in BOOLEAN
  /\ txMu \in Clients \cup {Nobody}
  /\ open \in BOOLEAN /\ healthy \in BOOLEAN
  /\ pc \in [Clients -> {"idle", "waiting", "gone"} \cup OnWire]
  /\ session \in [Clients -> {"none", "current", "stale"}]
  /\ sup \in {"off", "check", "rest", "reopen", "hold", "done"}
  /\ timer \in Nat
  /\ backoff \in ReopenBackoff..MaxReopenBackoff
  /\ healthySince \in Never..MaxReopenBackoff
  /\ lost \in BOOLEAN
  /\ upFor \in 0..MaxReopenBackoff
  /\ sinceReopen \in 0..MaxReopenBackoff

(***************************************************************************)
(* "The port is never swapped mid-transaction" (serial.go, txMu): whoever  *)
(* is on the wire is there alone, on the port that is open now.            *)
(***************************************************************************)
WireExclusive ==
  \A c \in Clients :
    pc[c] \in OnWire =>
      /\ open
      /\ session[c] = "current"
      /\ \A d \in Clients \ {c} : pc[d] \notin OnWire

(***************************************************************************)
(* A port that is open but marked unhealthy, which the supervisor will     *)
(* reopen and so reset, has really lost its device: no time-out, no        *)
(* interrupted call, no cancellation and no late error of a port replaced  *)
(* since condemns one that works (IsPortError, "the only condition that    *)
(* justifies closing and reopening it"; markUnhealthy).                    *)
(***************************************************************************)
UnhealthyForCause == open /\ ~healthy => lost

(***************************************************************************)
(* The process ends with the port closed and nobody left who could open or *)
(* use it: the supervisor is joined first, "or it reopens the port as the  *)
(* process exits" (run).                                                   *)
(***************************************************************************)
ClosedForGood ==
  main = "closed" =>
    /\ ~open
    /\ sup \in {"off", "done"}
    /\ \A c \in Clients : pc[c] \notin OnWire

(***************************************************************************)
(* "Wait after every attempt, successful or not": between two reopens, of  *)
(* which each resets the device, at least the initial backoff has passed.  *)
(***************************************************************************)
ReopensApart ==
  [][sup = "reopen" /\ sup' = "hold" => sinceReopen >= ReopenBackoff]_vars

(***************************************************************************)
(* The backoff only shrinks after the port has really been healthy for the *)
(* whole MaxReopenBackoff: a port that opens and fails again is not        *)
(* reopened in a tight loop (Supervise, healthySince).                     *)
(***************************************************************************)
BackoffEarned ==
  [][backoff' < backoff => upFor >= MaxReopenBackoff]_vars

(***************************************************************************)
(* A port marked unhealthy is healthy again some time, if the device can   *)
(* be opened and no call blocks for ever, whatever the clients do          *)
(* meanwhile, unless the program stops.                                    *)
(***************************************************************************)
PortRecovers ==
  main = "running" /\ ~(open /\ healthy) ~> (open /\ healthy) \/ stop
=============================================================================
