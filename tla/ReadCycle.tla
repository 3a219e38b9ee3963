----------------------------- MODULE ReadCycle -----------------------------
(***************************************************************************)
(* The poll loop and its time budget: which configurations                 *)
(* internal/config/config.go accepts, how long ReadAll of                  *)
(* internal/registers/reader.go then takes on the port of internal/serial, *)
(* when pollLoop of cmd/main.go begins the next cycle, and how old the     *)
(* value of a register gets before its entity expires.                     *)
(*                                                                         *)
(* Time is counted in halves of a millisecond, the finest the budget's     *)
(* arithmetic produces.  Publishing takes no time; commands, the gate and  *)
(* the supervisor appear as what they do to a cycle: a cycle is skipped,   *)
(* preempted, or meets a failed port.                                      *)
(***************************************************************************)
EXTENDS Integers

CONSTANTS
  Configs,        \* configuration files, 0 for what they leave out
  Durations(_, _), \* how long an attempt of a configuration may take
  Transmission,   \* how long the command itself is on the wire
  MaxDisturbances \* bound: cycles skipped or preempted

Ms(n) == 2 * n
Second == Ms(1000)

Fields == {"retries", "gap", "maxWait", "readTimeout", "responseTimeout",
           "backoff", "interval", "registers"}

ASSUME ConfigsTyped == Configs \subseteq [Fields -> Int]
ASSUME LimitsNat == Transmission \in Nat /\ MaxDisturbances \in Nat

(***************************************************************************)
(* Configuration.                                                          *)
(***************************************************************************)
OrDefault(n, default) == IF n = 0 THEN default ELSE n
Larger(a, b) == IF a >= b THEN a ELSE b

Defaults ==
  [retries |-> 3, gap |-> 20, maxWait |-> 100, readTimeout |-> 200,
   responseTimeout |-> 300, backoff |-> 100, interval |-> 60,
   registers |-> 0]

\* applyDefaults of the configuration.
Loaded(file) == [k \in Fields |-> OrDefault(file[k], Defaults[k])]

\* Validate, as far as it is about these settings.
Valid(c) ==
  /\ c.retries >= 1
  /\ c.interval > 0
  /\ \A k \in {"readTimeout", "responseTimeout", "backoff", "gap", "maxWait"} :
       c[k] >= 0

EffectiveResponseTimeout(c) == Larger(c.responseTimeout, c.readTimeout)
EffectiveBusQuietMaxWait(c) == Larger(c.maxWait, c.gap)

\* Bug: as many attempts as configured, even one.
AttemptsConfigured(c) == c.retries

EffectiveAttempts(c) == Larger(c.retries, 2)

PerAttemptMs(c) ==
  EffectiveBusQuietMaxWait(c) + EffectiveResponseTimeout(c)
    + (c.backoff * 3) \div 2

\* ValidateCycleBudget
WithinBudget(c) ==
  \/ c.registers <= 0
  \/ EffectiveAttempts(c) * PerAttemptMs(c) * c.registers <= c.interval * 1000

\* What the program starts with.
Accepted == {c \in {Loaded(file) : file \in Configs} :
               Valid(c) /\ WithinBudget(c)}

\* Bug: half an interval more than one.
ExpireAfterTight(c) == (c.interval * 3) \div 2

\* expire_after when it is not configured, in seconds.
ExpireAfter(c) == (c.interval * 5) \div 2

(***************************************************************************)
(* The serial port and the reader.                                         *)
(***************************************************************************)
\* serial.Config.applyDefaults
PortMaxWait(c) == IF c.maxWait < c.gap THEN c.gap ELSE c.maxWait
PortResponseTimeout(c) ==
  IF c.responseTimeout < c.readTimeout THEN c.readTimeout
  ELSE c.responseTimeout

IdlePoll == Ms(1)

\* One Transact, on a bus that is quiet at once and answers at once, and on
\* one that is never quiet and does not answer. Both waits may end with a
\* sleep of idlePoll that began just before their deadline.
ShortestExchange(c) == Ms(c.gap)
LongestExchange(c) ==
  Ms(PortMaxWait(c)) + IdlePoll + Transmission
    + Ms(PortResponseTimeout(c)) + IdlePoll

\* NewReader: a changed value takes a second reading.
ReaderAttempts(c) == Larger(c.retries, 2)

\* An attempt after the first waits first, up to half again as long: jittered.
Shortest(c, attempt) ==
  ShortestExchange(c) + (IF attempt > 1 THEN Ms(c.backoff) ELSE 0)
Longest(c, attempt) ==
  LongestExchange(c) + (IF attempt > 1 THEN 3 * c.backoff ELSE 0)

ASSUME DurationsTyped ==
  \A c \in Accepted : \A n \in 1..ReaderAttempts(c) : Durations(c, n) \subseteq Nat

\* pollLoop's wait after a cycle that read nothing.
SkipDelay(c) == IF 5 > c.interval THEN c.interval * Second ELSE 5 * Second

VARIABLES
  config,
  watched,     \* the register whose entity is followed
  pc,          \* "begin", "reading", "returned", "ended"
  err,         \* what RunCycle returned: "nil", "canceled", "skipped"
  register,    \* ReadAll's position
  attempt,     \* readSingleRaw's position
  read,        \* whether the watched register has been read in this cycle
  done,        \* the program's context is done
  elapsed,     \* history: time since ReadAll began, 0 outside
  age,         \* history: time since the watched register was published,
               \* 0 when it is not followed
  failures,    \* history: readouts of it that failed since then, at most 2
  disturbed,   \* history: a cycle has been skipped or preempted since then
  disturbances \* counted against its bound

cycle == <<pc, err, register, attempt, read>>
history == <<elapsed, age, failures, disturbed, disturbances>>
vars == <<config, watched, cycle, done, history>>

TypeOK ==
  /\ config \in Accepted /\ watched \in Int
  /\ pc \in {"begin", "reading", "returned", "ended"}
  /\ err \in {"nil", "canceled", "skipped"}
  /\ register \in Nat \ {0} /\ attempt \in Nat \ {0}
  /\ read \in BOOLEAN /\ done \in BOOLEAN /\ disturbed \in BOOLEAN
  /\ elapsed \in Nat /\ age \in Nat
  /\ failures \in 0..2 /\ disturbances \in 0..MaxDisturbances

Init ==
  /\ config \in Accepted
  /\ watched \in 1..config.registers
  /\ pc = "begin" /\ err = "nil" /\ register = 1 /\ attempt = 1
  /\ read = FALSE /\ done = FALSE
  /\ elapsed = 0 /\ age = 0
  /\ failures = 0 /\ disturbed = TRUE /\ disturbances = 0

\* The age is followed until it is no longer a matter of the cycles' timing.
Followed == ~disturbed /\ failures < 2
Older(d) == IF Followed THEN age + d ELSE 0

(***************************************************************************)
(* RunCycle.                                                               *)
(***************************************************************************)
Return(e) ==
  /\ pc' = "returned" /\ err' = e
  /\ register' = 1 /\ attempt' = 1 /\ read' = FALSE
  /\ elapsed' = 0
  /\ UNCHANGED <<config, watched, done>>

Disturb ==
  /\ disturbances < MaxDisturbances
  /\ disturbances' = disturbances + 1
  /\ disturbed' = TRUE
  /\ age' = 0
  /\ UNCHANGED failures

\* The port is unhealthy or a write is in flight.
Skip == pc = "begin" /\ Return("skipped") /\ Disturb

BeginCycle ==
  /\ pc = "begin"
  /\ pc' = "reading"
  /\ UNCHANGED <<config, watched, err, register, attempt, read, done, history>>

\* One attempt that takes d; what follows it is left to the outcome.
Attempt(d) ==
  /\ pc = "reading"
  /\ ~done
  /\ register <= config.registers
  /\ d <= Longest(config, attempt)
  /\ elapsed' = elapsed + d
  /\ age' = Older(d)
  /\ UNCHANGED <<config, watched, pc, err, done, failures, disturbed,
                 disturbances>>

\* The reading is trusted.
ReadSucceeds(d) ==
  /\ Attempt(d)
  /\ d >= Shortest(config, attempt)
  /\ read' = (read \/ register = watched)
  /\ register' = register + 1
  /\ attempt' = 1

\* No reply, one that is out of range, or one that needs another to agree.
AttemptFails(d) ==
  /\ Attempt(d)
  /\ d >= Shortest(config, attempt)
  /\ IF attempt < ReaderAttempts(config)
     THEN register' = register /\ attempt' = attempt + 1
     ELSE register' = register + 1 /\ attempt' = 1
  /\ UNCHANGED read

\* A port error, at any point of the exchange: no further attempts.
PortFails(d) ==
  /\ Attempt(d)
  /\ d >= (IF attempt > 1 THEN Ms(config.backoff) ELSE 0)
  /\ register' = register + 1
  /\ attempt' = 1
  /\ UNCHANGED read

\* A write cancels the cycle: nothing is published.
Preempted == pc = "reading" /\ Return("canceled") /\ Disturb

\* The program's context cancels it.
Canceled ==
  /\ pc = "reading"
  /\ done
  /\ Return("canceled")
  /\ UNCHANGED <<age, failures, disturbed, disturbances>>

\* PublishAll: every valid reading. A register that was not read keeps its
\* retained value and its entity's clock runs on.
Publish ==
  /\ pc = "reading"
  /\ register > config.registers
  /\ Return("nil")
  /\ IF read
     THEN age' = 0 /\ failures' = 0 /\ disturbed' = FALSE
     ELSE /\ failures' = (IF failures < 2 THEN failures + 1 ELSE failures)
          /\ age' = (IF failures = 0 THEN age ELSE 0)
          /\ UNCHANGED disturbed
  /\ UNCHANGED disturbances

(***************************************************************************)
(* pollLoop.                                                               *)
(***************************************************************************)
\* Bug: any cancellation ends the loop, a write's as well.
PollAgainUnlessCanceled ==
  /\ pc = "returned"
  /\ ~done
  /\ pc' = IF err = "canceled" THEN "ended" ELSE "begin"
  /\ age' = Older(config.interval * Second)
  /\ UNCHANGED <<config, watched, err, register, attempt, read, done, elapsed,
                 failures, disturbed, disturbances>>

\* The wait is measured from the end of the cycle.
PollAgain ==
  /\ pc = "returned"
  /\ ~done
  /\ pc' = "begin"
  /\ age' = Older(IF err = "nil" THEN config.interval * Second
                  ELSE SkipDelay(config))
  /\ UNCHANGED <<config, watched, err, register, attempt, read, done, elapsed,
                 failures, disturbed, disturbances>>

PollEnds ==
  /\ pc \in {"returned", "begin"}
  /\ done
  /\ pc' = "ended"
  /\ UNCHANGED <<config, watched, err, register, attempt, read, done,
                 history>>

Shutdown ==
  /\ ~done
  /\ done' = TRUE
  /\ UNCHANGED <<config, watched, cycle, history>>

RunCycle ==
  \/ Skip \/ BeginCycle \/ Preempted \/ Canceled \/ Publish
  \/ \E d \in Durations(config, attempt) :
       ReadSucceeds(d) \/ AttemptFails(d) \/ PortFails(d)

PollLoop == RunCycle \/ PollAgain \/ PollEnds

Next == PollLoop \/ Shutdown

Spec == Init /\ [][Next]_vars

\* The goroutine keeps running: every wait in it is bounded.
FairSpec == Spec /\ WF_vars(PollLoop)

(***************************************************************************)
(* Properties.                                                             *)
(***************************************************************************)
\* What an attempt takes and its budget does not charge for: two sleeps of
\* idlePoll, the transmission, and the half millisecond lost in 3/2.
Uncharged == 2 * IdlePoll + Transmission + 1

(***************************************************************************)
(* With any configuration the program accepts, a readout of all registers  *)
(* ends within its read interval, but for Uncharged in every attempt,      *)
(* however the bus and the unit behave (ValidateCycleBudget).              *)
(***************************************************************************)
CycleWithinBudget ==
  elapsed <= config.interval * Second
               + config.registers * ReaderAttempts(config) * Uncharged

\* What an attempt is charged for is at least three times Uncharged, some
\* milliseconds: the rest of the interval bears what is not charged.
ChargesEnough(c) == 3 * Uncharged <= Ms(PerAttemptMs(c))

(***************************************************************************)
(* An entity with the default expire_after never becomes unavailable while *)
(* its register is read in every cycle, and not for a single failed        *)
(* readout either if a cycle takes no more than a quarter of the interval  *)
(* (less the rounding of expire_after); intervals of one second aside,     *)
(* which leave no room, and time-outs so short that what is not charged    *)
(* weighs as much as they do (the comment on the default).                 *)
(***************************************************************************)
LongestCycle(c) ==
  c.registers * (LongestExchange(c)
    + (ReaderAttempts(c) - 1) * (LongestExchange(c) + 3 * c.backoff))

ShouldNotExpire ==
  \/ failures = 0 /\ config.interval > 1 /\ ChargesEnough(config)
  \/ failures = 1 /\ 4 * LongestCycle(config) + Second
                       <= config.interval * Second

ExpiresOnlyAfterFailures ==
  ~disturbed /\ ShouldNotExpire => age <= ExpireAfter(config) * Second

(***************************************************************************)
(* Polling goes on until the program stops: skipped and preempted cycles,  *)
(* which return the same error as a shutdown does, never end the loop.     *)
(***************************************************************************)
PollingGoesOn ==
  <>done \/ []<>(pc = "returned" /\ err = "nil")
=============================================================================
