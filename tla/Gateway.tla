------------------------------ MODULE Gateway ------------------------------
(***************************************************************************)
(* The three goroutines that share the unit and the state topics, around   *)
(* the read gate:                                                          *)
(*                                                                         *)
(*   worker   cmd/commandqueue.go run, registers/writer.go HandleMessage   *)
(*   settler  registers/resettle.go run, writer.go refreshIfCurrent        *)
(*   poller   registers/poller.go RunCycle, reader.go ReadAll, PublishAll  *)
(*                                                                         *)
(* A step is what one goroutine does between two points at which another   *)
(* can interfere: one critical section, one exchange on the wire (txMu     *)
(* makes it atomic), one publish reaching the broker.  Of a write          *)
(* register's read-back registers only state_from is kept, if it has one;  *)
(* the others only decide whether the write is confirmed without it.       *)
(*                                                                         *)
(* Abstractions.  ReadSingle yields what the unit holds or fails (how it   *)
(* comes to trust a reading is another component's matter).  The waits     *)
(* (settle, re-read and polling delays, retry backoff) may take any time,  *)
(* and the dedupe window may close at any time.  The program is not        *)
(* stopped and the port stays healthy.                                     *)
(***************************************************************************)
EXTENDS ReadGate, Sequences

CONSTANTS
  Registers,    \* write registers
  Readable,     \* those with a state_from, for which they stand as well
  Values,       \* values in range
  Refusable,    \* payloads HandleMessage rejects: not a number, out of range
  NoValue,
  NoRegister,
  QueueDepth,   \* commandQueueDepth
  MaxCommands,  \* bound: commands delivered in a behaviour
  MaxDrifts,    \* bound: changes the unit makes by itself in a behaviour
  Polling       \* bound: FALSE for behaviours between two read cycles

ASSUME TwoHolders == Holders = {"worker", "settler"}
ASSUME NoValueIsNone == NoValue \notin Values \cup Refusable
ASSUME NoRegisterIsNone == NoRegister \notin Registers
ASSUME SomeReadable == Readable \subseteq Registers
ASSUME Payloads == Values \cap Refusable = {}
ASSUME DepthPositive == QueueDepth \in Nat \ {0}
ASSUME BoundsNat ==
  MaxCommands \in Nat /\ MaxDrifts \in Nat /\ Polling \in BOOLEAN

VARIABLES
  told,         \* the unit: what it has been set to
  held,         \* the unit: what its registers show
  state,        \* broker: the write register's state topic
  reading,      \* broker: state_from's own topic
  queue,        \* commandQueue.ch
  lastCommand,  \* Writer.lastCommand within the dedupe window, or NoValue
  writeSeq,     \* Writer.writeSeq
  pending,      \* resettler.pending: the sequence to re-read, 0 if none
  worker, settler, poller,   \* the goroutines' program counters and locals
  delivered, drifts,         \* counted against the bounds
  outcome,      \* history: how the register's last command ended
  everHeld,     \* history: what the register has shown so far
  reread        \* history: the last sequence whose re-read has run

device == <<told, held, everHeld, drifts>>
topics == <<state, reading>>
commands == <<queue, delivered>>
writes == <<lastCommand, writeSeq, outcome>>
settling == <<pending, reread>>
vars == <<gateVars, device, topics, commands, writes, settling, worker,
          settler, poller>>

Commands == [reg : Registers, val : Values \cup Refusable]
Sequence == 0..MaxCommands

\* What HandleMessage made of a command: its value was read back, or it was
\* refused or could not be confirmed, or a send failed.
Verdicts == {"none", "confirmed", "doubted", "unsent"}

\* writeAttempts: the original and one re-send.
WriteAttempts == 2

IdleWorker ==
  [pc |-> "idle", reg |-> NoRegister, val |-> NoValue, attempt |-> 0,
   seq |-> 0, actual |-> NoValue, err |-> FALSE]
IdleSettler ==
  [pc |-> "idle", reg |-> NoRegister, seq |-> 0, actual |-> NoValue,
   ready |-> {}]
IdlePoller ==
  [pc |-> "idle", todo |-> {}, flight |-> NoRegister,
   snap |-> [r \in Registers |-> NoValue]]

GatewayInit ==
  /\ Init
  /\ held \in [Registers -> Values]
  /\ told = held
  /\ everHeld = [r \in Registers |-> {held[r]}]
  /\ drifts = 0
  /\ state = [r \in Registers |-> NoValue]
  /\ reading = [r \in Registers |-> NoValue]
  /\ queue = <<>>
  /\ delivered = 0
  /\ lastCommand = [r \in Registers |-> NoValue]
  /\ writeSeq = [r \in Registers |-> 0]
  /\ outcome = [r \in Registers |-> [val |-> NoValue, verdict |-> "none"]]
  /\ pending = [r \in Registers |-> 0]
  /\ reread = [r \in Registers |-> 0]
  /\ worker = IdleWorker
  /\ settler = IdleSettler
  /\ poller = IdlePoller

(***************************************************************************)
(* The unit (external).  What it is told shows up in its registers a       *)
(* little later, and it changes them by itself: party mode ends, somebody  *)
(* uses the panel.                                                         *)
(***************************************************************************)
Shows(r, v) ==
  /\ held' = [held EXCEPT ![r] = v]
  /\ everHeld' = [everHeld EXCEPT ![r] = @ \cup {v}]

UnitApplies(r) ==
  /\ held[r] # told[r]
  /\ Shows(r, told[r])
  /\ UNCHANGED <<told, drifts, gateVars, topics, commands, writes, settling,
                 worker, settler, poller>>

UnitDrifts(r, v) ==
  /\ drifts < MaxDrifts
  /\ v # told[r]
  /\ told' = [told EXCEPT ![r] = v]
  /\ Shows(r, v)
  /\ drifts' = drifts + 1
  /\ UNCHANGED <<gateVars, topics, commands, writes, settling, worker,
                 settler, poller>>

\* A publish reaches the broker, or fails and leaves the topic as it was.
Published(topic, r, v, ok) ==
  topic' = IF ok THEN [topic EXCEPT ![r] = v] ELSE topic

(***************************************************************************)
(* The command queue.                                                      *)
(***************************************************************************)
\* enqueue: a full queue drops the command.
Deliver(c) ==
  /\ delivered < MaxCommands
  /\ delivered' = delivered + 1
  /\ queue' = IF Len(queue) < QueueDepth THEN Append(queue, c) ELSE queue
  /\ UNCHANGED <<gateVars, device, topics, writes, settling, worker, settler,
                 poller>>

(***************************************************************************)
(* The command worker: HandleMessage, one command after another.           *)
(***************************************************************************)
WorkerAt(from) == worker.pc = from

\* Bug: any command within the window counts as a redelivery (see ReadGate
\* on these).
AnyRecent(c) == lastCommand[c.reg] # NoValue

\* isDuplicate: the value last sent, within the dedupe window.
Duplicate(c) == lastCommand[c.reg] = c.val

\* Parse, range check, isDuplicate; a rejected command changes nothing.
TakeCommand ==
  /\ WorkerAt("idle")
  /\ queue # <<>>
  /\ queue' = Tail(queue)
  /\ LET c == Head(queue) IN
       worker' =
         IF c.val \in Values /\ ~Duplicate(c)
         THEN [worker EXCEPT !.pc = "preempt", !.reg = c.reg, !.val = c.val,
                             !.attempt = 1, !.actual = NoValue, !.err = FALSE]
         ELSE worker
  /\ UNCHANGED <<gateVars, device, topics, delivered, writes, settling,
                 settler, poller>>

WorkerPreempts ==
  /\ WorkerAt("preempt")
  /\ Preempt("worker")
  /\ worker' = [worker EXCEPT !.pc = "cancel"]
  /\ UNCHANGED <<device, topics, commands, writes, settling, settler, poller>>

WorkerCancels ==
  /\ WorkerAt("cancel")
  /\ FireCancel("worker")
  /\ worker' = [worker EXCEPT !.pc = "count"]
  /\ UNCHANGED <<device, topics, commands, writes, settling, settler, poller>>

\* nextWriteSequence.
CountCommand ==
  /\ WorkerAt("count")
  /\ writeSeq' = [writeSeq EXCEPT ![worker.reg] = @ + 1]
  /\ worker' = [worker EXCEPT !.pc = "send", !.seq = writeSeq'[worker.reg]]
  /\ UNCHANGED <<gateVars, device, topics, commands, lastCommand, outcome,
                 settling, settler, poller>>

\* The unit takes a command that reached it, unless it was corrupted.
UnitTold(takes) ==
  /\ told' = IF takes THEN [told EXCEPT ![worker.reg] = worker.val] ELSE told
  /\ UNCHANGED <<held, everHeld, drifts>>

\* sendCommand succeeded: rememberSent, then the settle delay.
SendCommand(takes) ==
  /\ WorkerAt("send")
  /\ UnitTold(takes)
  /\ lastCommand' = [lastCommand EXCEPT ![worker.reg] = worker.val]
  /\ worker' = [worker EXCEPT !.pc = "readBack"]
  /\ UNCHANGED <<gateVars, topics, commands, writeSeq, outcome, settling,
                 settler, poller>>

\* Records how the worker's command ended.
Ends(verdict) ==
  outcome' = [outcome EXCEPT ![worker.reg] = [val |-> worker.val,
                                              verdict |-> verdict]]

\* Bug: returns without giving the gate back.
SendFailsHolding(takes) ==
  /\ WorkerAt("send")
  /\ UnitTold(takes)
  /\ Ends("unsent")
  /\ worker' = IdleWorker
  /\ UNCHANGED <<gateVars, topics, commands, lastCommand, writeSeq, settling,
                 settler, poller>>

\* Bug: returns before the re-read is scheduled.
SendFailsUnscheduled(takes) ==
  /\ WorkerAt("send")
  /\ UnitTold(takes)
  /\ Ends("unsent")
  /\ worker' = [worker EXCEPT !.pc = "release", !.err = TRUE]
  /\ UNCHANGED <<gateVars, topics, commands, lastCommand, writeSeq, settling,
                 settler, poller>>

\* sendCommand failed on every retry; HandleMessage returns at once, and what
\* was remembered of an earlier send stays.  After a failed Drain the unit may
\* have the command all the same.
SendFails(takes) ==
  /\ WorkerAt("send")
  /\ UnitTold(takes)
  /\ Ends("unsent")
  /\ worker' = [worker EXCEPT !.pc = "schedule", !.err = TRUE]
  /\ UNCHANGED <<gateVars, topics, commands, lastCommand, writeSeq, settling,
                 settler, poller>>

\* The end of the attempt: send again, or go on with what was established.
Judged(w) ==
  IF w.err /\ w.attempt < WriteAttempts
  THEN [w EXCEPT !.pc = "send", !.attempt = @ + 1]
  ELSE [w EXCEPT !.pc = "publishState"]

\* verify, state_from read: the value decides.
ReadBack ==
  /\ WorkerAt("readBack")
  /\ worker.reg \in Readable
  /\ worker' = [worker EXCEPT !.pc = "publishReading",
                              !.actual = held[worker.reg],
                              !.err = held[worker.reg] # worker.val]
  /\ UNCHANGED <<gateVars, device, topics, commands, writes, settling, settler,
                 poller>>

\* verify, state_from not read: confirmed if a verify register was, or if
\* there is neither.
ReadBackFails(confirmed) ==
  /\ WorkerAt("readBack")
  /\ worker' = Judged([worker EXCEPT !.actual = NoValue, !.err = ~confirmed])
  /\ UNCHANGED <<gateVars, device, topics, commands, writes, settling, settler,
                 poller>>

WorkerPublishesReading(ok) ==
  /\ WorkerAt("publishReading")
  /\ Published(reading, worker.reg, worker.actual, ok)
  /\ worker' = Judged(worker)
  /\ UNCHANGED <<gateVars, device, state, commands, writes, settling, settler,
                 poller>>

Verdict == IF worker.err THEN "doubted" ELSE "confirmed"

\* Bug: without a reading the commanded value is published.
WorkerPublishesCommanded(ok) ==
  /\ WorkerAt("publishState")
  /\ Published(state, worker.reg,
               IF worker.actual = NoValue THEN worker.val ELSE worker.actual, ok)
  /\ Ends(Verdict)
  /\ worker' = [worker EXCEPT !.pc = "schedule"]
  /\ UNCHANGED <<gateVars, device, reading, commands, lastCommand, writeSeq,
                 settling, settler, poller>>

\* Bug: a command that was refused or not confirmed is still remembered.
WorkerPublishesRemembering(ok) ==
  /\ WorkerAt("publishState")
  /\ IF worker.reg \in Readable
     THEN Published(state, worker.reg, worker.actual,
                    ok /\ worker.actual # NoValue)
     ELSE Published(state, worker.reg, worker.val, ok)
  /\ Ends(Verdict)
  /\ worker' = [worker EXCEPT !.pc = "schedule"]
  /\ UNCHANGED <<gateVars, device, reading, commands, lastCommand, writeSeq,
                 settling, settler, poller>>

\* publishState: the reading, or nothing without one; the commanded value
\* where nothing can be read. forgetSent after an error.
WorkerPublishesState(ok) ==
  /\ WorkerAt("publishState")
  /\ IF worker.reg \in Readable
     THEN Published(state, worker.reg, worker.actual,
                    ok /\ worker.actual # NoValue)
     ELSE Published(state, worker.reg, worker.val, ok)
  /\ Ends(Verdict)
  /\ lastCommand' =
       IF worker.err /\ lastCommand[worker.reg] = worker.val
       THEN [lastCommand EXCEPT ![worker.reg] = NoValue]
       ELSE lastCommand
  /\ worker' = [worker EXCEPT !.pc = "schedule"]
  /\ UNCHANGED <<gateVars, device, reading, commands, writeSeq, settling,
                 settler, poller>>

\* The deferred resettle.schedule, whatever the outcome.
ScheduleReread ==
  /\ WorkerAt("schedule")
  /\ pending' = [pending EXCEPT ![worker.reg] = worker.seq]
  /\ worker' = [worker EXCEPT !.pc = "release"]
  /\ UNCHANGED <<gateVars, device, topics, commands, writes, reread, settler,
                 poller>>

\* The deferred gate.Release.
WorkerReleases ==
  /\ WorkerAt("release")
  /\ Release("worker")
  /\ worker' = IdleWorker
  /\ UNCHANGED <<device, topics, commands, writes, settling, settler, poller>>

\* The dedupe window of the last command closes.
WindowCloses(r) ==
  /\ lastCommand[r] # NoValue
  /\ lastCommand' = [lastCommand EXCEPT ![r] = NoValue]
  /\ UNCHANGED <<gateVars, device, topics, commands, writeSeq, outcome,
                 settling, worker, settler, poller>>

Worker ==
  \/ TakeCommand \/ WorkerPreempts \/ WorkerCancels \/ CountCommand
  \/ \E takes \in BOOLEAN : SendCommand(takes) \/ SendFails(takes)
  \/ ReadBack
  \/ \E confirmed \in BOOLEAN : ReadBackFails(confirmed)
  \/ \E ok \in BOOLEAN : WorkerPublishesReading(ok) \/ WorkerPublishesState(ok)
  \/ ScheduleReread \/ WorkerReleases

(***************************************************************************)
(* The settle re-read: run takes what is due, refreshIfCurrent runs each.  *)
(***************************************************************************)
SettlerAt(from) == settler.pc = from

Superseded == writeSeq[settler.reg] # settler.seq

\* due: a set of entries whose delay is over leaves the pending map.
TakeDue(due) ==
  /\ SettlerAt("idle")
  /\ due # {}
  /\ \A r \in due : pending[r] # 0
  /\ pending' = [r \in Registers |-> IF r \in due THEN 0 ELSE pending[r]]
  /\ settler' = [settler EXCEPT !.pc = "next",
                                !.ready = {<<r, pending[r]>> : r \in due}]
  /\ UNCHANGED <<gateVars, device, topics, commands, writes, reread, worker,
                 poller>>

\* refreshIfCurrent, first check: a superseded entry is dropped.
StartRefresh(entry) ==
  /\ SettlerAt("next")
  /\ entry \in settler.ready
  /\ settler' =
       IF writeSeq[entry[1]] = entry[2]
       THEN [settler EXCEPT !.pc = "preempt", !.reg = entry[1],
                            !.seq = entry[2], !.ready = @ \ {entry}]
       ELSE [settler EXCEPT !.ready = @ \ {entry}]
  /\ UNCHANGED <<gateVars, device, topics, commands, writes, settling, worker,
                 poller>>

AllRefreshed ==
  /\ SettlerAt("next")
  /\ settler.ready = {}
  /\ settler' = IdleSettler
  /\ UNCHANGED <<gateVars, device, topics, commands, writes, settling, worker,
                 poller>>

SettlerPreempts ==
  /\ SettlerAt("preempt")
  /\ Preempt("settler")
  /\ settler' = [settler EXCEPT !.pc = "cancel"]
  /\ UNCHANGED <<device, topics, commands, writes, settling, worker, poller>>

SettlerCancels ==
  /\ SettlerAt("cancel")
  /\ FireCancel("settler")
  /\ settler' = [settler EXCEPT !.pc = "check"]
  /\ UNCHANGED <<device, topics, commands, writes, settling, worker, poller>>

\* readBackIfCurrent checks before the exchange ...
CheckBeforeRead ==
  /\ SettlerAt("check")
  /\ settler' = [settler EXCEPT !.pc = IF Superseded THEN "release" ELSE "read"]
  /\ UNCHANGED <<gateVars, device, topics, commands, writes, settling, worker,
                 poller>>

\* ... reads, which may take several exchanges, fail, or find nothing to
\* read ...
Reread(ok) ==
  /\ SettlerAt("read")
  /\ ok => settler.reg \in Readable
  /\ settler' = [settler EXCEPT
                   !.actual = IF ok THEN held[settler.reg] ELSE NoValue,
                   !.pc = IF ok THEN "publishReading" ELSE "release"]
  /\ UNCHANGED <<gateVars, device, topics, commands, writes, settling, worker,
                 poller>>

\* ... and publishes the reading without another check.
SettlerPublishesReading(ok) ==
  /\ SettlerAt("publishReading")
  /\ Published(reading, settler.reg, settler.actual, ok)
  /\ settler' = [settler EXCEPT !.pc = "recheck"]
  /\ UNCHANGED <<gateVars, device, state, commands, writes, settling, worker,
                 poller>>

\* refreshIfCurrent, last check.
CheckBeforeState ==
  /\ SettlerAt("recheck")
  /\ settler' = [settler EXCEPT
                   !.pc = IF Superseded THEN "release" ELSE "publishState"]
  /\ UNCHANGED <<gateVars, device, topics, commands, writes, settling, worker,
                 poller>>

SettlerPublishesState(ok) ==
  /\ SettlerAt("publishState")
  /\ Published(state, settler.reg, settler.actual, ok)
  /\ settler' = [settler EXCEPT !.pc = "release"]
  /\ UNCHANGED <<gateVars, device, reading, commands, writes, settling, worker,
                 poller>>

SettlerReleases ==
  /\ SettlerAt("release")
  /\ Release("settler")
  /\ reread' = [reread EXCEPT ![settler.reg] = settler.seq]
  /\ settler' = [IdleSettler EXCEPT !.pc = "next", !.ready = settler.ready]
  /\ UNCHANGED <<device, topics, commands, writes, pending, worker, poller>>

Settler ==
  \/ \E due \in SUBSET Registers : TakeDue(due)
  \/ \E entry \in settler.ready : StartRefresh(entry)
  \/ AllRefreshed \/ SettlerPreempts \/ SettlerCancels \/ CheckBeforeRead
  \/ CheckBeforeState \/ SettlerReleases
  \/ \E ok \in BOOLEAN :
       Reread(ok) \/ SettlerPublishesReading(ok) \/ SettlerPublishesState(ok)

(***************************************************************************)
(* The read cycle: RunCycle under the gate's context.                      *)
(***************************************************************************)
PollerAt(from) == poller.pc = from

PollBegins ==
  /\ PollerAt("idle")
  /\ Polling
  /\ BeginCycle
  /\ poller' = [poller EXCEPT !.pc = "read", !.todo = Readable]
  /\ UNCHANGED <<device, topics, commands, writes, settling, worker, settler>>

\* ReadAll: one register, trusted or recorded as invalid.
PollReads(r, ok) ==
  /\ PollerAt("read")
  /\ ~ctxDone
  /\ r \in poller.todo
  /\ poller' = [poller EXCEPT !.todo = @ \ {r},
                              !.snap[r] = IF ok THEN held[r] ELSE NoValue]
  /\ UNCHANGED <<gateVars, device, topics, commands, writes, settling, worker,
                 settler>>

\* Bug: the state topics are left out.
NextPhaseNoStates == [read |-> "readings", readings |-> "end"]

\* The next phase, if the context is still alive: PublishAll, then
\* publishWriteRegisterState, then (without effect here) the derived values.
NextPhase == [read |-> "readings", readings |-> "states", states |-> "end"]

PollProceeds ==
  /\ poller.pc \in DOMAIN NextPhase
  /\ ~ctxDone
  /\ poller.todo = {} /\ poller.flight = NoRegister
  /\ poller' = [poller EXCEPT
                  !.pc = NextPhase[poller.pc],
                  !.todo = {r \in Registers : poller.snap[r] # NoValue}]
  /\ UNCHANGED <<gateVars, device, topics, commands, writes, settling, worker,
                 settler>>

\* The context is checked, and the publish of one topic is under way ...
PollStartsPublish(r) ==
  /\ poller.pc \in {"readings", "states"}
  /\ ~ctxDone
  /\ poller.flight = NoRegister
  /\ r \in poller.todo
  /\ poller' = [poller EXCEPT !.todo = @ \ {r}, !.flight = r]
  /\ UNCHANGED <<gateVars, device, topics, commands, writes, settling, worker,
                 settler>>

\* ... and reaches the broker, or not.
PollLands(ok) ==
  /\ poller.flight # NoRegister
  /\ IF poller.pc = "readings"
     THEN /\ Published(reading, poller.flight, poller.snap[poller.flight], ok)
          /\ UNCHANGED state
     ELSE /\ Published(state, poller.flight, poller.snap[poller.flight], ok)
          /\ UNCHANGED reading
  /\ poller' = [poller EXCEPT !.flight = NoRegister]
  /\ UNCHANGED <<gateVars, device, commands, writes, settling, worker, settler>>

\* Every check of the context ends the cycle once it is cancelled.
PollPreempted ==
  /\ poller.pc \in DOMAIN NextPhase
  /\ ctxDone
  /\ poller.flight = NoRegister
  /\ poller' = [poller EXCEPT !.pc = "end", !.todo = {}]
  /\ UNCHANGED <<gateVars, device, topics, commands, writes, settling, worker,
                 settler>>

\* The deferred clean-up.
PollEnds ==
  /\ PollerAt("end")
  /\ CancelAtEnd
  /\ poller' = [poller EXCEPT !.pc = "deregister"]
  /\ UNCHANGED <<device, topics, commands, writes, settling, worker, settler>>

PollDeregisters ==
  /\ PollerAt("deregister")
  /\ Deregister
  /\ poller' = IdlePoller
  /\ UNCHANGED <<device, topics, commands, writes, settling, worker, settler>>

Poller ==
  \/ PollBegins \/ PollProceeds \/ PollPreempted \/ PollEnds \/ PollDeregisters
  \/ \E r \in Registers, ok \in BOOLEAN : PollReads(r, ok)
  \/ \E r \in Registers : PollStartsPublish(r)
  \/ \E ok \in BOOLEAN : PollLands(ok)

GateClock ==
  /\ Tick
  /\ UNCHANGED <<device, topics, commands, writes, settling, worker, settler,
                 poller>>

GatewayNext ==
  \/ Worker
  \/ Settler
  \/ Poller
  \/ GateClock
  \/ \E c \in Commands : Deliver(c)
  \/ \E r \in Registers : UnitApplies(r) \/ WindowCloses(r)
  \/ \E r \in Registers, v \in Values : UnitDrifts(r, v)

GatewaySpec == GatewayInit /\ [][GatewayNext]_vars

(***************************************************************************)
(* Fairness.  Goroutines run, timers fire, the unit gets round to applying *)
(* what it was told.  That the unit answers and the broker accepts a       *)
(* publish now and then is an assumption about the surroundings: without   *)
(* it nothing can be promised about the topics.                            *)
(***************************************************************************)
GoroutinesRun ==
  /\ WF_vars(Worker) /\ WF_vars(Settler) /\ WF_vars(Poller)
  /\ WF_vars(GateClock)
  /\ \A r \in Registers : WF_vars(UnitApplies(r))

Surroundings ==
  \A r \in Readable :
    /\ SF_vars(PollReads(r, TRUE))
    /\ \A phase \in {"readings", "states"} :
         SF_vars(PollerAt(phase) /\ poller.flight = r /\ PollLands(TRUE))

FairGatewaySpec == GatewaySpec /\ GoroutinesRun /\ Surroundings
-----------------------------------------------------------------------------
GatewayTypeOK ==
  /\ TypeOK
  /\ told \in [Registers -> Values] /\ held \in [Registers -> Values]
  /\ state \in [Registers -> Values \cup {NoValue}]
  /\ reading \in [Registers -> Values \cup {NoValue}]
  /\ queue \in Seq(Commands) /\ Len(queue) <= QueueDepth
  /\ lastCommand \in [Registers -> Values \cup {NoValue}]
  /\ writeSeq \in [Registers -> Sequence]
  /\ outcome \in [Registers ->
                   [val : Values \cup {NoValue}, verdict : Verdicts]]
  /\ pending \in [Registers -> Sequence]
  /\ worker \in [pc : {"idle", "preempt", "cancel", "count", "send",
                       "readBack", "publishReading", "publishState",
                       "schedule", "release"},
                 reg : Registers \cup {NoRegister},
                 val : Values \cup {NoValue},
                 attempt : 0..WriteAttempts,
                 seq : Sequence,
                 actual : Values \cup {NoValue},
                 err : BOOLEAN]
  /\ settler \in [pc : {"idle", "next", "preempt", "cancel", "check", "read",
                        "publishReading", "recheck", "publishState", "release"},
                  reg : Registers \cup {NoRegister},
                  seq : Sequence,
                  actual : Values \cup {NoValue},
                  ready : SUBSET (Registers \X Sequence)]
  /\ poller \in [pc : {"idle", "read", "readings", "states", "end",
                       "deregister"},
                 todo : SUBSET Registers,
                 flight : Registers \cup {NoRegister},
                 snap : [Registers -> Values \cup {NoValue}]]

(***************************************************************************)
(* "The gate is released on every exit path" of a command and of a         *)
(* re-read: a goroutine that is not in the middle of either holds nothing  *)
(* (HandleMessage, refreshIfCurrent).                                      *)
(***************************************************************************)
NoHoldLeaks ==
  /\ worker.pc \in {"idle", "preempt"} <=> hpc["worker"] = "out"
  /\ settler.pc \in {"idle", "next", "preempt"} <=> hpc["settler"] = "out"

(***************************************************************************)
(* Whatever the outcome of a command, the register is read again: the      *)
(* newest command is still at work, or its re-read is pending, taken or    *)
(* under way, or has run.  A superseded re-read never costs the newest one *)
(* its turn (HandleMessage, schedule, due).                                *)
(***************************************************************************)
RereadOwed ==
  \A r \in Registers :
    LET newest == writeSeq[r] IN
      \/ newest = 0
      \/ worker.reg = r
      \/ pending[r] = newest
      \/ <<r, newest>> \in settler.ready
      \/ settler.reg = r /\ settler.seq = newest
      \/ reread[r] = newest

(***************************************************************************)
(* The state topic of a register with a state_from never shows a value the *)
(* unit has not reported: a refused or lost command's value is not         *)
(* published (publishState: "the commanded value would show a state nobody *)
(* verified").                                                             *)
(***************************************************************************)
OnlyReportedState ==
  \A r \in Readable : state[r] # NoValue => state[r] \in everHeld[r]

\* The worker takes command c from the queue and drops it as a duplicate.
DropsDuplicate(c) ==
  /\ worker.pc = "idle" /\ worker'.pc = "idle"
  /\ queue # <<>> /\ queue' = Tail(queue)
  /\ c = Head(queue) /\ c.val \in Values

(***************************************************************************)
(* What is dropped as a redelivery repeats a command that worked: the last *)
(* command carried out for its register had the same value and was         *)
(* confirmed.  A correction back to an earlier value, and a retry of one   *)
(* that was refused or not confirmed, reach the wire (isDuplicate,         *)
(* rememberSent, forgetSent; HandleMessage, "must reach the wire").  The   *)
(* exception is what the code leaves out: it returns from a failed send    *)
(* without forgetting, and the value remembered before then still counts.  *)
(***************************************************************************)
DropsOnlyConfirmed ==
  [][\A c \in Commands : DropsDuplicate(c) =>
       \/ outcome[c.reg] = [val |-> c.val, verdict |-> "confirmed"]
       \/ outcome[c.reg].verdict = "unsent"]_vars

\* The poller puts an exchange on the wire or a publish under way.
PollActs ==
  \/ \E r \in Registers, ok \in BOOLEAN : PollReads(r, ok)
  \/ \E r \in Registers : PollStartsPublish(r)

(***************************************************************************)
(* A command or re-read that has the gate has the wire and the topics to   *)
(* itself: while its window is open the poll cycle starts no exchange and  *)
(* no publish, unless another caller took the cycle's cancel function and  *)
(* has yet to call it (RunCycle, ReadAll, PublishAll).                     *)
(***************************************************************************)
WriteHasPriority ==
  [][PollActs => \/ \A h \in Holders : hpc[h] = "in" => window[h] = 0
                 \/ \E h \in Holders : hpc[h] = "preempting" /\ taken[h]]_vars

(***************************************************************************)
(* When commands and the unit's own changes have ceased, the state topic   *)
(* and the reading's topic of a register with a state_from come to show    *)
(* what the unit holds and stay so, whatever was refused, lost or          *)
(* published late before (RunCycle, publishWriteRegisterState).            *)
(***************************************************************************)
TopicsConverge ==
  <>[](\A r \in Readable : state[r] = held[r] /\ reading[r] = held[r])
=============================================================================
