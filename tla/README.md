# A TLA+ model of the Aerosmart gateway

The gateway is a Go program between an Aerosmart ventilation unit on a shared
RS-485 bus and Home Assistant behind an MQTT broker. It polls the unit's
registers and publishes them, applies commands that arrive by MQTT, and tries
to stay right while the bus garbles frames, the panel talks in between, the
adapter disappears, and the broker comes and goes. These modules describe it
part by part, check each with TLC on small instances, and prove the most
important invariants with TLAPS for every value of the constants.

## 1. The system

| Part | State | Operations | Hard because |
|---|---|---|---|
| Read gate `internal/registers/gate.go` | hold count, deadline, cancel function of the cycle | `Preempt`, `Release`, `TryBeginCycle` and its clean-up, lazy expiry | two holders overlap, expire and release in any order; the cancel function is called outside the lock |
| Command queue `cmd/commandqueue.go` | bounded channel | `enqueue` (drops), `run` | bursts |
| Writer `internal/registers/writer.go` | last command per topic, write sequence per register | `HandleMessage`, `refreshIfCurrent` | early returns, two attempts, deduplication, publishing what may be superseded |
| Resettler `resettle.go` | pending re-reads, one-token channel, timer | `schedule`, `due`, `run` | the next time is computed before a batch and used after it; replaced, taken and superseded entries |
| Poller `poller.go` | the cycle's snapshot | `RunCycle` | cancelled at any point, publishes an older snapshot |
| Reader `reader.go` | trusted value per register | `ReadSingle`, `ReadAll`, `PublishAll` | no checksum; three goroutines share the trusted value |
| Serial port `internal/serial/serial.go` | port, health, session | `Transact`, `Send`, `Supervise`, `reopen`, `Close` | a reopen resets the device; shutdown; locks |
| Framing `framing.go` | buffer | `readFrame`, `waitQuiet`, `reset` | late, foreign, split and spliced frames |
| MQTT client `internal/mqtt/client.go` | paho client, tracked topics, `shuttingDown` | `Connect`, `onConnected`, `Subscribe`, `Disconnect`, publishing | one goroutine per connection, last will, clean sessions |
| Discovery `internal/mqtt/discovery.go` | the broker's retained messages | configs of sensors and commands, clearing of stale ones | what earlier runs left behind |
| Derived registers `derived.go` | none | `Validate`, `Calculate`, `PublishAll` | missing sources, stopped fans, rounding |
| Configuration `internal/config/config.go` | none after start-up | defaults, validation, cycle budget | limits that three other functions raise again |
| main `cmd/main.go` | context, wait group, signal channel | start-up, poll loop, shutdown, watchdog | order of teardown, everything at once |

How they meet: paho's router goroutine calls `enqueue`; one worker takes the
commands and runs `HandleMessage`; the resettler runs `refreshIfCurrent`; the
poll loop runs `RunCycle`. These three share the gate, the port (one
transaction at a time under `txMu`), the reader's trusted values and the
broker's topics. The supervisor shares `txMu` with them. `main` starts them
and, on a signal, disconnects from the broker, joins them and closes the port,
while the signal handler counts the grace period down.

What makes each right is stated as the properties below; `PROJECT.json` lists
under "hazards" every place that is hard to test, with the properties that
watch it.

## 2. Modules

| Module | Models | Properties |
|---|---|---|
| `WritePriority` | abstract contract: a write gets a window without new reads, and stops the cycle | (specification) |
| `ReadGate` | gate.go, one action per critical section | windows never stolen, cycles yield, suppression ends, refinement of `WritePriority` |
| `SerialPort` | serial.go, with the start and end of main.go | exclusive wire, health lost only with the device, backoff, recovery, closed for good |
| `Gateway` (extends `ReadGate`) | commandqueue.go, writer.go, resettle.go, poller.go, reader.go's `ReadAll`/`PublishAll` around the gate | no hold leaks, every command is re-read, only reported state, only confirmed repeats dropped, writes first, topics converge |
| `Resettler` | resettle.go with the map, the token, the timer and time | never late by more than a batch, never early, none lost |
| `BusExchange` | framing.go, serial.go `transmit` and `Transact` over a stream of tokens | nothing left over, splices, no reply overlooked, exchanges end |
| `ReadTrust` | reader.go `readSingleRaw`, conversion and range | drift bounded, trust catches up |
| `ReadCycle` | config.go's timing settings and budget, reader.go's attempts, main.go `pollLoop`, in time | cycle within its interval, entities expire only for failures, polling goes on |
| `MqttClient` | client.go, with connect, subscribe and shutdown of main.go | applied once, subscriptions restored, online again, dead looks offline, shutdown |
| `Lifecycle` | main.go `run`, signal handler and watchdog, with the goroutines as what they can be busy with | watchdog only for cause, shutdown ends |
| `Entities` | validation of register files, discovery.go, main.go `publishHADiscovery`, derived.go | one entity per register, entity commands accepted, derived values right |
| `GatewayProofs` (with `ReadGate`), `SerialProofs` (`SerialPort` and `BusExchange`), `MqttClientProofs`, `ResettlerProofs`, `ReadTrustProofs`, `ReadCycleProofs`, `LifecycleProofs`, `EntitiesProofs` | | proofs, section 4 |
| `MC...` | instances for TLC | |

Correspondence. Every action stands for what one goroutine does between two
points at which another may interfere: a critical section, one exchange on the
wire, one publish. Variables keep the names of the fields (`holds`, `until`,
`txMu`, `lastCommand`, `writeSeq`, `pending`, `trusted`, `tracked`, ...);
program counters name the place in the function. History variables are marked
as such where they are declared. `PROJECT.json` maps every definition to its
lines. Operators that start with "Bug:" in their comment are plausible errors,
each used to show that a property notices it; no specification uses them.

Time. Where no guard compares two deadlines, a delay may take any time: a
settle delay, a retry backoff, a dedupe window. Where times meet they are
countdowns in clock steps (`ReadGate`, `SerialPort`, `Resettler`,
`Lifecycle`) or sums (`ReadCycle`). In `Resettler` and `Lifecycle` the clock
moves on only when nothing is able to run, so that being late is the
algorithm's doing and not the scheduler's; what takes time may take less.

Modelling decisions worth knowing:

* `ReadGate`: `until` counts down to 0 and is reset only when somebody looks
  (`suppressedLocked`), as in the code; `FireCancel` is a step of its own,
  since `Preempt` calls the cancel function after unlocking.
* `SerialPort`: an error is the set of sentinels and codes that `errors.Is` and
  `errors.As` find in it, up to a time-out wrapped together with a port error.
  Any call may return any of them, except that the driver says a port is gone
  only of one that is unplugged or closed. `IsTimeout` and `IsPortError` then
  decide what becomes of the port.
* `Gateway`: a write register and its `state_from` are one; registers outside
  `Readable` have none, cannot be read back, and publish what was commanded. A
  publish of the cycle is begun (context checked) and lands later; the
  worker's and the settler's publishes are single steps. The unit may take a
  command and show it later, lose it, or change a register by itself.
* `Resettler`: the write sequence is the history `superseded`: what
  `refreshIfCurrent` does with an entry is in `Gateway`.
* `BusExchange`: a frame is two tokens, prefix and value with the line end, so
  that it can be cut and spliced but not corrupted into another number (that
  is `ReadTrust`'s subject). Tokens carry, as history, whether they answer the
  exchange under way and whether they were received before it began.
* `ReadCycle`: time in half milliseconds, the finest `retry_backoff * 3 / 2`
  produces. Integer division is that of the code. Both limits of the port are
  recomputed as the port does, not taken from the budget. An attempt may take
  any time between its shortest and its longest; publishing takes none.
* `MqttClient`: what is sent on one connection arrives in order or is lost, so
  a publish takes effect when made or never, acknowledged or not.
  `IsConnected` is taken to mean that the connection is up. paho itself, the
  broker's clean session, retained messages and last will are external.
* `Lifecycle`: what a goroutine does is one of: nothing, waiting for `txMu`,
  an exchange, a publish, a pause before the next attempt. One exchange may
  wedge for ever, as a system call on a dead adapter does. A publish takes up to
  `op_timeout` once paho has taken it, and as long again before if it has not.
* `Entities`: readings in tenths, of either sign, so that rounding to whole
  numbers and halves are exact. A publish that fails may have arrived. The
  broker's retained discovery messages survive restarts; the gateway may stop
  anywhere.

## 3. Checks

| Run | Instance | What it shows |
|---|---|---|
| `gate` | 3 callers, window of 3 steps | every overlap of Preempt, expiry, late Release and cycle; the gate implements `WritePriority`; suppression ends even if Release never comes |
| `port` | 2 clients, backoff 1 to 3 | no swap under a transaction, no device condemned that is still there, reopens apart, backoff earned, recovery, closed for good |
| `commands` | 1 register, 2 values, 3 commands, queue of 2, 1 change at the panel | no exit path keeps the gate; every accepted command is re-read; only reported values are published; what is dropped repeats a confirmed command |
| `cycle` | 2 registers, one without `state_from`, 1 command that may be malformed, unlimited cycles | the write has the wire and the topics to itself; the topics converge |
| `resettle` | 3 registers, delay 3, batches of up to 2 steps | requests at any moment of the loop's scan, batch and sleep are served when due |
| `bus` | 2 registers, 2 losses, buffers of two tokens | replies are of this exchange's input, unspliced unless the line lost something, and not overlooked; exchanges end |
| `trust` | 2 callers, divisor 2, step 1, 1 attempt configured | a lone corrupted reading cannot move the trusted value more than one step; a changed value gets through |
| `readcycle` | 6 configurations on both sides of the budget, shortest and longest attempts, 2 skipped or preempted cycles | an accepted configuration keeps its interval; `expire_after` is long enough; a preempted cycle does not end polling |
| `mqtt` | 2 topics, 2 connection attempts, 2 connections, 2 publish attempts | subscriptions, availability and shutdown in every order of connection loss, late connections and signals |
| `lifecycle` | 1 writer with supervisor and poller, grace 4, 2 signals, 2 connection attempts, start-up of up to 5 steps | the end of the process from any moment of its life |
| `entities` | 6 files, 3 starts, 3 readings and gaps | entities across changed files, stops and failed publishes; derived values |
| `online_again` | smallest that shows it | a disagreement, section 5 |

Bounds and why they are enough. Three callers of the gate are one more than
the program has. Three commands give 3, 0, 3 and a superseded re-read; a queue
of two overflows. The gate's window of one step in `Gateway` may close at any
moment of a command, since nothing forces a step between two ticks.
`Polling = FALSE` in `commands` leaves out the read cycle, which shares no
variable those four properties mention. A batch of two steps against a delay
of three lets entries become due during a batch and after it, and the third
register arrives while two are at work. Two registers in `BusExchange` are the
wanted one and any other; two losses make an overflow of `MaxFrameLen`
possible. In `ReadTrust` two collisions in different calls are the worst case
of the stated premise, one per call; two equal collisions in one call do
defeat the code and are outside it. The configurations of `readcycle` include
one that is 2 ms short of its budget, one whose limits the port raises, one
with a single attempt (which the reader makes two), and two the program
refuses for exactly these reasons. Two connections are a reconnect with both
`onConnected` goroutines alive. In `lifecycle` the grace period is one step
longer than the longest thing that may have to be waited for twice over, and a
start-up is longer than it, so that the watchdog fires both with and without a
cause; its writer stands for the worker as well as the settle loop. Three
starts are a first file, another, and a return or a repair; the
six files have a register whose range changes its kind, swapped topics, shared
topics, missing inputs, empty ranges.

Fairness. Goroutines are scheduled (weak fairness of each), timers fire and
time passes, a locked mutex is handed to a starved waiter (`sync.Mutex`; strong
fairness of acquiring `txMu`). `PortRecovers` assumes a device that can be
opened again and again (`DeviceReturns`) and, since neither has a time limit,
that `Write` and `Drain` return (`CallsReturn`); the other waits of a
transaction have a deadline. `TopicsConverge` assumes that the unit answers and
the broker accepts a publish now and then (`Surroundings`); `ExchangeEnds`
assumes nothing of the bus, `MqttClient!ShutdownEnds` nothing of the broker,
`Lifecycle!ShutdownEnds` nothing of the system call that wedges.
`SubscriptionsRestored` and `OnlineAgain` speak of connections that last;
connection losses end by the bound on connections. `OnlineAgain` is excused once
`onConnected` is at its last attempt. That the will of a lost connection is
settled before its successor is accepted is an assumption about the broker
(`Accepts`); on it rests that the will does not come after that "online".

Deadlock is checked in `gate`, `port`, `cycle`, `bus` and `trust`. The others
really stop: `commands` when its commands are used up and no cycle runs,
`resettle` when the context has ended or nothing is pending, `readcycle`,
`mqtt` and `lifecycle` when the program has ended, `entities` when its starts
are used up.

The type invariants (`TypeOK`, `GatewayTypeOK`) hold in all these instances.
They are no part of the runs; `ReadGate`, `BusExchange`, `MqttClient`,
`Resettler`, `ReadCycle` and `Lifecycle` are proved to keep theirs, and the
other proofs rest on types without the bounds of the runs.

## 4. Proofs

All from the assumptions declared in the modules and nothing else.

* `GatewayProofs`, about the gate, for any finite set of callers and any
  positive timeout. `IInv` is the conjunction of the type, the count
  (`HoldsCounted`), the windows (`LiveHoldSuppresses`, `SuppressedForSomeone`),
  and two facts the properties leave unsaid: an open window belongs to a caller
  that has not released (`WindowHeld`), and the cycle's cancel function is in
  exactly one place, in the gate or in one caller's hands, until it is called
  (`CancelSomewhere`). The latter is what makes `CycleYieldsToHold` inductive.
  `GateImplementsContract` maps every step to one of `WritePriority` or a
  stutter.
* `GatewayProofs`, about the gateway, for any number of registers, with or
  without a `state_from`, values and commands and any queue depth. `Types` is
  the type without the bounds of the runs, with the registers the goroutines
  have in hand. `GatewayKeepsGate` shows that every step of the gateway is one
  of `ReadGate` or leaves it alone, so all that is proved of the gate holds
  here too. On these rest five invariants:
  * `NoHoldLeaks` is inductive as it stands.
  * `RereadOwed` is not: a finished worker must have left its re-read behind,
    and an older re-read must not overwrite the record of a newer one.
    `RereadInv` says that between counting and scheduling the worker carries
    the newest sequence, that every other register has its newest command
    pending, ready, under way or re-read, and that the sequence in the
    settler's hands lies between what has been re-read and the newest.
  * `OnlyReportedState` needs that every value on its way to a topic, in the
    worker's, the settler's or the cycle's hands, was read from the unit for
    that register (`ReportedInv`).
  * `WriteHasPriority` needs that the poll loop works only in a running cycle
    of the gate (`PollerInCycle`); `CycleYieldsToHold` does the rest.
  * `DropsOnlyConfirmed` needs that whatever is remembered for a register is
    the value of its last finished command, confirmed, or that this command
    ended in a failed send, except while the worker has the register in hand
    (`Remembered`), and that nothing but the worker shortens the queue.
* `SerialProofs`, about the port, for any clients and backoff bounds. The
  invariant ties each place on the wire to `txMu` and the current session, and
  the supervisor's states to `main`'s; the action property `BackoffEarned`
  needs that `healthySince` never exceeds the time the port has really been up.
  `UnhealthyForCause` needs that an error that reaches `markUnhealthy` of a
  working port carries no mark of a port that is gone (`Plausible`, an
  assumption about the driver) and that nobody uses a port replaced since: the
  classification by `IsTimeout` and `IsPortError` does the rest.
  `ReopensApart` needs `Spaced`: what has passed since an attempt and what is
  left of the sleep after it always add up to `ReopenBackoff`, whatever the
  supervisor sees when it wakes.
* `SerialProofs`, about the bus, for any registers, frame length, time-outs,
  buffer size and losses. `Fresh` follows the discarding: what travels is never
  left over, the frame reader's buffer is empty when the port's is flushed, and
  from then on neither holds anything older than the exchange. `Unspliced` is
  about the whole stream, from the frame reader through the port to the line:
  while nothing is lost each head in it is followed by its own tail. It is kept
  because every discard takes a prefix of the stream and every frame is added
  at its end; only while `waitQuiet` throws input away behind the frame
  reader's back does it hold of the rest alone, which is why both must be reset
  together. `FrameEndRange` rests on the least element of a set of naturals,
  from the well-foundedness of `<`. `ReplyIsTaken` follows the answer of an
  exchange instead: until it is taken it is in the stream, whole, behind other
  frames perhaps (`Answering`), while nothing is lost; then a time-out or an
  overflow, which need a stream without a complete frame at its head, cannot
  come first.
* `MqttClientProofs`, for any topics, connections and attempts. `MInv` has one
  part for each property: a command is handed on when the broker first has it
  and only then, never when a subscription delivers it again (`Counted`); a
  tracked topic on an open connection is delivered, refused, or in the hands
  of this connection's `onConnected`; the retained availability is online or
  that goroutine has an attempt left; a dead process has said so, or its will
  is due. The last three are the safety parts of `SubscriptionsRestored`,
  `OnlineAgain` and `DeadLooksOffline`: fairness has only to let the step they
  promise happen.
* `ResettlerProofs`, for any registers, delay and length of a batch. An entry
  is never further behind than this batch has taken, and from the scan on an
  entry the scan has not seen has left a sign: a token, a request about to
  send one, or a timer that fires before it is due (`InTime`). `Settled` ties
  an entry's time to the age of its request.
* `ReadTrustProofs`, for any callers, values, divisor, step and number of
  collisions. `DriftBounded` is not inductive: a call that has met a collision
  may still be about to trust a genuine reading next to a value another call
  moved. The invariant counts collisions that are pending in a call apart from
  those that may have moved the trusted value: trusted is within a step of a
  genuine reading for each of the others, and a call's chosen value for each
  but those of other calls.
* `ReadCycleProofs`, for any configurations. `Charged` bounds the time since
  the cycle began by the registers done and the attempts made at this one, the
  first of them without a backoff; `CycleTime` sets a full cycle against the
  arithmetic of `ValidateCycleBudget`. `Paced` adds the age of the followed
  value: one wait and one cycle lie between two publications, two of each when
  a readout fails in between. `ExpiresOnlyAfterFailures` is then a matter of
  the half interval that `expire_after` has to spare (`Slack`).
* `LifecycleProofs`, for any writers and signals and any times that the grace
  period suffices for (`GraceSuffices`, which the defaults satisfy: 10 s
  against 5 s of waiting for one token, 2.25 s of the farewell, and about a
  second for an exchange or a pause). They leave no room for a hand-off that
  paho holds up: that is a cause of its own (`stalled`), see section 5.
  With e the time since the signal, `OnTime` says of everything under way how
  late it can end: what began before the signal ends its longest time after
  it; only a reopen takes the lock after the signal; no publish starts once the
  client is gone; so the watchdog's countdown is never the first to reach zero
  unless there is a cause.
* `EntitiesProofs`, for any files and any number of starts. An announced
  register has its own topic right and every other one empty or about to be
  cleared (`Entity`), while what is being cleared is never a topic that this
  file uses (`ClearsOthers`, which needs distinct names); commands arrive at
  their register because a validated file has distinct topics.
  `DerivedFromReadings` holds for all readings, of either sign: `RoundedNear`
  says that the rounded quotient is within half a unit of the exact one, and
  that every input of a formula is a reading of this cycle rests on `Validate`
  (`FormulasSupplied`).

Only model-checked: all liveness and what needs ENABLED, which this prover does
not do. Every invariant and action property of the runs is proved.

## 5. Where code and documents disagree

`online_again`, a run that TLC refutes: `onConnected` looks at `shuttingDown`
and publishes afterwards; "online" may follow the offline announcement and
outlive the process, which the comment at client.go:196 rules out.

Seen while modelling, without a run:

* writer.go:224: a failed send returns before `forgetSent` (254) and leaves
  what is remembered as it was. A command sent once, not confirmed, whose
  re-send fails is still remembered, and the user's retry within the dedupe
  window is dropped, although it "must reach the wire" (writer.go:251) and is to
  stay retryable (APPLICATION_FLOW.md:393). And when a send fails after the unit
  has heard it (in `Drain`), 3 confirmed, then 0 that fails, then 3 again: the
  last is dropped while the unit holds 0, the case writer.go:231 speaks of.
  `DropsOnlyConfirmed` excludes the register whose last command ended that way,
  and only that.
* client.go:145: `SetWriteTimeout` bounds the hand-off to paho by `op_timeout`,
  and `WaitTimeout` then waits as long again for the token. By default one
  publish may take 10 s, which is the whole `shutdownGrace` (main.go:39), and
  the farewell 7.25 s; so the hand-off may still "overrun the shutdown grace
  period", and "a broker that has gone away cannot stretch shutdown past its
  grace period" (client.go:261) holds only while paho takes packets at once
  (`stalled` in `Lifecycle`).
* poller.go:133: the publish under way when a write preempts the cycle may
  land after the write's and puts the older state back until the next cycle;
  and a cycle cancelled while it publishes has published a part, although
  "nothing is published for a cancelled cycle".
* writer.go:403: a re-read superseded during its exchange publishes the
  reading all the same (not the state, which is checked again).
* serial.go:307: an answer later than the response timeout is taken for the
  reply to the next question about that register.
* gate.go: `Preempt` may return while the cycle's context is still live
  (another caller is about to cancel it); overlapping holds can suppress reads
  for longer than `write_priority_timeout`.
* client.go:101: a connection attempt that timed out may connect late,
  announce online, and be cleanly disconnected by the next attempt.
* config.go:368 says that a single failed readout does not make an entity
  flap. That holds when a cycle takes at most a quarter of the interval
  (`ShouldNotExpire`); slow configurations that are accepted do flap, and an
  interval of one second leaves no room at all. The proof found one case more:
  with time-outs of a few milliseconds what the budget does not charge outweighs
  what it does, and even an entity read in every cycle expires. 2 attempts, all
  times 1 ms, 333 registers every 2 s pass the budget; a cycle may then take
  about 4.5 s (with 2 ms of transmission) and a value get 6.5 s old, against an
  `expire_after` of 5 s.
  `ChargesEnough` excludes this; the defaults charge 550 ms an attempt.
* config.go:491: the budget leaves out what `Uncharged` names: the
  transmission, two sleeps of `idlePoll`, half a millisecond of `* 3 / 2`. And
  the poll loop waits its interval from the end of a cycle, so a full budget
  means a period of two intervals and not a bus that never idles.
* main.go:116: when the connection fails for good `run` cancels the context
  itself, which ends the signal handler: from then on there is no watchdog and
  signals are ignored, and a wedged port holds the process up for ever.
  `Lifecycle!ShutdownEnds` says so ("or wedged").
* main.go: subscriptions and discovery do not look at the context, so a
  signal during them may be answered by the watchdog (`early`). `op_timeout`
  is not validated against `shutdownGrace`; `GraceSuffices` is an assumption.
* A read and a derived register may have one name and then share a discovery
  topic; registers that are renamed or removed leave their retained entities.

## 6. Not modelled

* `calculateBackoffWithJitter`: connection attempts are paused for any time.
  There are at most ten, and `Validate` keeps the delays in order and the
  jitter within 100 per cent, so the doubling cannot overflow.
* Logging, YAML and warnings, settings of the serial line and of the broker,
  units, classes and device information in discovery payloads: no behaviour
  depends on them.
* Of the validation of register files: that `command_template`, `command`, the
  topics and the `confirm_step` and `verify_registers` settings are well formed.
  `Entities` starts with some files that the program refuses.
* The unit's own changes are part of `commands`, not of `cycle`, where
  `TopicsConverge` is checked.
* Build files, the Docker image, scripts.
* The composition of `SerialPort` and `Gateway` is by argument: a transaction
  is atomic in `Gateway` because `WireExclusive` holds in `SerialPort`; a port
  error is a read or a send that fails. Likewise `Resettler` supplies the "due
  at some time" of `Gateway`, and `ReadTrust` its successful reads. A shutdown
  is left out of `Gateway`; `Lifecycle` has it.
* `ReadCycle` does not charge the wait for `txMu` behind a supervisor's reopen
  or another goroutine's exchange, nor the time publishes take.

## 7. Plan

Done, in this order: gate and contract; port; gateway; bus; trust; MQTT
client; the proofs of the first three; resettler; read cycle and budget;
lifecycle; entities; their proofs and that of `DriftBounded`; write registers
without `state_from`; the proofs of the MQTT client, the bus, the derived
values, the spacing of reopens and the expiry of entities.

What is left is proof rather than model: the safety parts of the other liveness
properties (a requested re-read, a lost port, a shutdown: that what has to
happen next is always in somebody's hands), and a common abstraction of
`SerialPort` and `Gateway` in which a transaction is one step.
