----------------------------- MODULE Resettler -----------------------------
(***************************************************************************)
(* registers/resettle.go: re-reads of a write register some time after a   *)
(* command for it.                                                         *)
(*                                                                         *)
(*   writer   calls schedule at the end of every command: one entry per    *)
(*            register, then a token for the loop unless one is there      *)
(*   loop     run: takes what is due, re-reads it, and sleeps until the    *)
(*            next entry's time, a token or the end of the context         *)
(*                                                                         *)
(* Time.  Moments are countdowns in clock steps, negative once they are    *)
(* over.  Re-reading takes time; whatever is able to run runs before the   *)
(* clock moves on, so that being late is the algorithm's doing and not the *)
(* scheduler's.                                                            *)
(*                                                                         *)
(* The delay is positive: with 0 schedule and run do nothing.  Stopping a  *)
(* timer that has fired leaves nothing in its channel (Go 1.23 and later), *)
(* so a sleep never ends for an earlier timer.                             *)
(***************************************************************************)
EXTENDS Integers, FiniteSets

CONSTANTS
  Registers,  \* write registers
  Delay,      \* resettler.delay
  MaxBusy     \* bound: clock steps the re-reads of one batch take

ASSUME DelayPositive == Delay \in Nat \ {0}
ASSUME MaxBusyNat == MaxBusy \in Nat

VARIABLES
  pending,    \* the map's keys
  due,        \* due[r]: clock steps to the time of r's entry
  wake,       \* whether the channel holds a token
  signalling, \* schedule has changed the map and not yet sent the token
  pc,         \* the loop: "scan", "refresh", "reading", "sleep", "ended"
  ready,      \* registers whose entries were taken and not yet re-read
  next,       \* what due returned: steps to the next entry, 0 for none
  timer,      \* steps until the timer fires, 0 if it is not set
  stopped,    \* the context is done
  busy,       \* history: clock steps the re-reads of this batch have taken
  owed,       \* history: the newest request has had no re-read
  superseded, \* history: a newer request came after the entry was taken
  since       \* history: steps since the newest request, at most Delay

entries == <<pending, due>>
loop == <<pc, ready, next, timer>>
history == <<busy, owed, superseded, since>>
vars == <<entries, wake, signalling, loop, stopped, history>>

TypeOK ==
  /\ pending \subseteq Registers /\ ready \subseteq Registers
  /\ due \in [Registers -> Int]
  /\ wake \in BOOLEAN /\ signalling \in BOOLEAN /\ stopped \in BOOLEAN
  /\ pc \in {"scan", "refresh", "reading", "sleep", "ended"}
  /\ next \in Nat /\ timer \in Nat /\ busy \in Nat
  /\ owed \subseteq Registers /\ superseded \subseteq Registers
  /\ since \in [Registers -> 0..Delay]

Init ==
  /\ pending = {} /\ ready = {} /\ owed = {} /\ superseded = {}
  /\ due = [r \in Registers |-> 0]
  /\ since = [r \in Registers |-> Delay]
  /\ wake = FALSE /\ signalling = FALSE /\ stopped = FALSE
  /\ pc = "scan" /\ next = 0 /\ timer = 0 /\ busy = 0

(***************************************************************************)
(* schedule.                                                               *)
(***************************************************************************)
\* The entry for r, due at the given step, replaces any earlier one; an
\* entry for r the loop has taken is of an older command from now on. (A
\* second request in one clock step would leave the same entry.)
Enter(r, at) ==
  /\ ~signalling
  /\ since[r] > 0
  /\ pending' = pending \cup {r}
  /\ due' = [due EXCEPT ![r] = at]
  /\ signalling' = TRUE
  /\ owed' = owed \cup {r}
  /\ superseded' = superseded \cup (ready \cap {r})
  /\ since' = [since EXCEPT ![r] = 0]
  /\ UNCHANGED <<wake, loop, stopped, busy>>

\* Bug: a request finds the entry of an earlier one and keeps its time.
ScheduleKeepingTime(r) == Enter(r, IF r \in pending THEN due[r] ELSE Delay)

\* The critical section of schedule.
Schedule(r) == Enter(r, Delay)

\* Bug: without room in the channel only a loop that is asleep hears of it.
SignalUnbuffered ==
  /\ signalling
  /\ signalling' = FALSE
  /\ wake' = (pc = "sleep")
  /\ UNCHANGED <<entries, loop, stopped, history>>

\* The token, unless the channel holds one.
Signal ==
  /\ signalling
  /\ signalling' = FALSE
  /\ wake' = TRUE
  /\ UNCHANGED <<entries, loop, stopped, history>>

(***************************************************************************)
(* The loop.                                                               *)
(***************************************************************************)
Waiting == {r \in pending : due[r] > 0}

\* Bug: the time of any entry that waits, not of the first.
NextOfAny == IF Waiting = {} THEN {0} ELSE {due[r] : r \in Waiting}

\* How long until the first of the waiting entries is due, 0 without any.
NextDue ==
  IF Waiting = {} THEN {0}
  ELSE {d \in {due[r] : r \in Waiting} : \A r \in Waiting : d <= due[r]}

\* due, one critical section.
Scan ==
  /\ pc = "scan"
  /\ ready' = pending \ Waiting
  /\ pending' = Waiting
  /\ next' \in NextDue
  /\ pc' = "refresh"
  /\ busy' = 0
  /\ UNCHANGED <<due, wake, signalling, timer, stopped, owed, superseded,
                 since>>

\* The next entry of the batch; entries come in the order of a map.
Refresh(r) ==
  /\ pc = "refresh"
  /\ r \in ready
  /\ ~stopped
  /\ ready' = ready \ {r}
  /\ owed' = owed \ ({r} \ superseded)
  /\ superseded' = superseded \ {r}
  /\ pc' = "reading"
  /\ UNCHANGED <<entries, wake, signalling, next, timer, stopped, busy,
                 since>>

Refreshed ==
  /\ pc = "reading"
  /\ pc' = "refresh"
  /\ UNCHANGED <<entries, wake, signalling, ready, next, timer, stopped,
                 history>>

\* The context is done before the next entry.
Abandon ==
  /\ pc = "refresh"
  /\ ready # {}
  /\ stopped
  /\ pc' = "ended"
  /\ UNCHANGED <<entries, wake, signalling, ready, next, timer, stopped,
                 history>>

\* The batch is done: the timer is set to what due returned before it.
Sleep ==
  /\ pc = "refresh"
  /\ ready = {}
  /\ pc' = "sleep"
  /\ timer' = next
  /\ UNCHANGED <<entries, wake, signalling, ready, next, stopped, history>>

Rescan ==
  /\ pc = "sleep"
  /\ pc' = "scan"
  /\ UNCHANGED <<entries, signalling, ready, next, stopped, history>>

\* The token ends the sleep and stops the timer.
Woken ==
  /\ Rescan
  /\ wake
  /\ wake' = FALSE
  /\ timer' = 0

\* A timer that was set has run out; the select may still take a token.
TimerFires ==
  /\ Rescan
  /\ next > 0
  /\ timer = 0
  /\ UNCHANGED <<wake, timer>>

EndSleep ==
  /\ pc = "sleep"
  /\ stopped
  /\ pc' = "ended"
  /\ timer' = 0
  /\ UNCHANGED <<entries, wake, signalling, ready, next, stopped, history>>

Loop ==
  \/ Scan
  \/ \E r \in Registers : Refresh(r)
  \/ Refreshed \/ Abandon \/ Sleep \/ Woken \/ TimerFires \/ EndSleep

(***************************************************************************)
(* Surroundings.                                                           *)
(***************************************************************************)
Stop ==
  /\ ~stopped
  /\ stopped' = TRUE
  /\ UNCHANGED <<entries, wake, signalling, loop, history>>

\* The loop sleeps and has nothing to wake it.
Asleep ==
  /\ pc = "sleep"
  /\ ~wake /\ ~stopped
  /\ next > 0 => timer > 0

Reading == pc = "reading" /\ busy < MaxBusy

\* The clock moves on while a re-read takes its time or nothing can run. How
\* far an entry is behind is counted to one step past the longest batch.
Tick ==
  /\ ~signalling
  /\ Asleep \/ Reading
  /\ \E r \in Registers : r \in pending \/ since[r] < Delay
  /\ due' = [r \in Registers |-> IF r \in pending /\ due[r] >= -MaxBusy
                                 THEN due[r] - 1 ELSE due[r]]
  /\ since' = [r \in Registers |-> IF since[r] < Delay THEN since[r] + 1
                                   ELSE since[r]]
  /\ timer' = IF timer > 0 THEN timer - 1 ELSE 0
  /\ busy' = IF Reading THEN busy + 1 ELSE busy
  /\ UNCHANGED <<pending, wake, signalling, pc, ready, next, stopped, owed,
                 superseded>>

Next ==
  \/ \E r \in Registers : Schedule(r)
  \/ Signal \/ Loop \/ Stop \/ Tick

Spec == Init /\ [][Next]_vars

\* Both goroutines run. Time passes, since requests are as fast as the
\* clock at most.
FairSpec ==
  Spec /\ WF_vars(Signal) /\ WF_vars(Loop) /\ WF_vars(Tick)

(***************************************************************************)
(* Properties.                                                             *)
(***************************************************************************)
(***************************************************************************)
(* While the context lives no request waits in the map for longer than its *)
(* delay and the re-reads of one batch, although the loop computes the     *)
(* next time before the batch and sets the timer after it, and although    *)
(* one token stands for any number of requests (resettler.wake).           *)
(***************************************************************************)
LateByOneBatch ==
  ~stopped => \A r \in pending : due[r] >= -MaxBusy

(***************************************************************************)
(* A re-read that no newer command has superseded begins only when its     *)
(* register has been left alone for the whole delay: a burst of commands   *)
(* produces its re-read after the burst (the comment on resettler).        *)
(***************************************************************************)
QuietBeforeReread ==
  [][\A r \in owed \ owed' : since[r] = Delay]_vars

(***************************************************************************)
(* Every request is re-read in the end or replaced by a newer one for the  *)
(* same register, unless the program stops.                                *)
(***************************************************************************)
EveryRequestServed ==
  \A r \in Registers :
    (r \in owed) ~> (r \notin owed \/ since[r] = 0 \/ stopped)
=============================================================================
