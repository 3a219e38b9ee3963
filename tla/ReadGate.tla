------------------------------ MODULE ReadGate ------------------------------
(***************************************************************************)
(* internal/registers/gate.go: the gate that puts writes ahead of the      *)
(* periodic read cycle.                                                    *)
(*                                                                         *)
(* The command worker and the settle re-read each take the gate (Preempt)  *)
(* and give it back (Release), from their own goroutines.  The poll loop   *)
(* asks to begin a cycle.  Every method is one critical section of mu,     *)
(* except Preempt, which calls the cycle's cancel function after           *)
(* unlocking: that is a step of its own here, and so is the cancel at the  *)
(* head of the cycle's clean-up.                                           *)
(*                                                                         *)
(* Time is counted down: a deadline is the number of clock steps left.     *)
(* RunCycle is only called by the poll loop and always runs its deferred   *)
(* clean-up, so at most one cycle exists and cycleID always matches in the *)
(* clean-up; the identity of a cancel function reduces to "of the running  *)
(* cycle, or dead".  The parent context only ends at shutdown, which this  *)
(* module leaves out.                                                      *)
(***************************************************************************)
EXTENDS Integers, FiniteSets

CONSTANTS
  Holders,   \* goroutines that call Preempt: command worker, settle re-read
  Timeout    \* write_priority_timeout, in clock steps

ASSUME HoldersFinite == IsFiniteSet(Holders)
ASSUME TimeoutPositive == Timeout \in Nat \ {0}   \* NewReadGate replaces <= 0

\* time.Time{}, as opposed to a deadline that has been reached (0).
ZeroTime == -1

VARIABLES
  holds,     \* ReadGate.holds
  until,     \* ReadGate.until: clock steps left, or ZeroTime
  cancel,    \* ReadGate.cancel # nil
  cycle,     \* the poll loop's cycle: "none", "running", "ending"
  ctxDone,   \* the running cycle's context has been cancelled
  hpc,       \* hpc[h]: "out", "preempting" (unlocked, cancel() due), "in"
  taken,     \* taken[h]: the cancel h took belongs to the running cycle
  window     \* window[h]: what is left of the time h was promised (history)

gateVars == <<holds, until, cancel, cycle, ctxDone, hpc, taken, window>>

Init ==
  /\ holds = 0
  /\ until = ZeroTime
  /\ cancel = FALSE
  /\ cycle = "none"
  /\ ctxDone = FALSE
  /\ hpc = [h \in Holders |-> "out"]
  /\ taken = [h \in Holders |-> FALSE]
  /\ window = [h \in Holders |-> 0]

(***************************************************************************)
(* Some definitions are preceded by what a plausible bug would make of     *)
(* them ("Bug: ...").  No specification uses those: each is there to see   *)
(* that the properties notice when it takes the definition's place.        *)
(***************************************************************************)
\* Bug: no deadline, only the count of holds.
SuppressedWhileHeld == holds > 0

(***************************************************************************)
(* suppressedLocked: a deadline that has not been reached.  Its side       *)
(* effect, clearing a deadline that has, is part of BeginCycle.            *)
(***************************************************************************)
Suppressed == until > 0

\* Bug: the cycle's cancel function is not registered.
BeginUnregistered ==
  /\ cycle = "none"
  /\ ~Suppressed
  /\ until' = ZeroTime
  /\ cycle' = "running"
  /\ ctxDone' = FALSE
  /\ UNCHANGED <<holds, cancel, hpc, taken, window>>

\* TryBeginCycle that succeeds; one that is refused changes nothing.
BeginCycle ==
  /\ cycle = "none"
  /\ ~Suppressed
  /\ until' = ZeroTime
  /\ cancel' = TRUE
  /\ cycle' = "running"
  /\ ctxDone' = FALSE
  /\ UNCHANGED <<holds, hpc, taken, window>>

\* The clean-up TryBeginCycle returned: cancel() first, then the lock.
CancelAtEnd ==
  /\ cycle = "running"
  /\ cycle' = "ending"
  /\ ctxDone' = TRUE
  /\ UNCHANGED <<holds, until, cancel, hpc, taken, window>>

\* ... deregister.  From here on calling the cycle's cancel does nothing.
Deregister ==
  /\ cycle = "ending"
  /\ cycle' = "none"
  /\ cancel' = FALSE
  /\ taken' = [h \in Holders |-> FALSE]
  /\ UNCHANGED <<holds, until, ctxDone, hpc, window>>

\* Bug: a deadline already running is left as it is.
PreemptKeepingDeadline(h) ==
  /\ hpc[h] = "out"
  /\ hpc' = [hpc EXCEPT ![h] = "preempting"]
  /\ taken' = [taken EXCEPT ![h] = cancel]
  /\ cancel' = FALSE
  /\ holds' = holds + 1
  /\ until' = IF Suppressed THEN until ELSE Timeout
  /\ window' = [window EXCEPT ![h] = Timeout]
  /\ UNCHANGED <<cycle, ctxDone>>

\* Preempt, up to the unlock.
Preempt(h) ==
  /\ hpc[h] = "out"
  /\ hpc' = [hpc EXCEPT ![h] = "preempting"]
  /\ taken' = [taken EXCEPT ![h] = cancel]
  /\ cancel' = FALSE
  /\ holds' = holds + 1
  /\ until' = Timeout
  /\ window' = [window EXCEPT ![h] = Timeout]
  /\ UNCHANGED <<cycle, ctxDone>>

\* ... and the cancel() it calls after unlocking, if it found one.
FireCancel(h) ==
  /\ hpc[h] = "preempting"
  /\ hpc' = [hpc EXCEPT ![h] = "in"]
  /\ ctxDone' = (ctxDone \/ taken[h])
  /\ taken' = [taken EXCEPT ![h] = FALSE]
  /\ UNCHANGED <<holds, until, cancel, cycle, window>>

\* Bug: whoever releases first lifts everybody's hold.
ReleaseForAll(h) ==
  /\ hpc[h] = "in"
  /\ hpc' = [hpc EXCEPT ![h] = "out"]
  /\ holds' = IF holds > 0 THEN holds - 1 ELSE holds
  /\ until' = ZeroTime
  /\ window' = [window EXCEPT ![h] = 0]
  /\ UNCHANGED <<cancel, cycle, ctxDone, taken>>

Release(h) ==
  /\ hpc[h] = "in"
  /\ hpc' = [hpc EXCEPT ![h] = "out"]
  /\ holds' = IF holds > 0 THEN holds - 1 ELSE holds
  /\ until' = IF holds' = 0 THEN ZeroTime ELSE until
  /\ window' = [window EXCEPT ![h] = 0]
  /\ UNCHANGED <<cancel, cycle, ctxDone, taken>>

\* One clock step less on a deadline; a reached one stays reached.
Elapse(t) == IF t > 0 THEN t - 1 ELSE t

\* The clock moves.
Tick ==
  /\ \/ until > 0
     \/ \E h \in Holders : window[h] > 0
  /\ until' = Elapse(until)
  /\ window' = [h \in Holders |-> Elapse(window[h])]
  /\ UNCHANGED <<holds, cancel, cycle, ctxDone, hpc, taken>>

Next ==
  \/ BeginCycle
  \/ CancelAtEnd
  \/ Deregister
  \/ Tick
  \/ \E h \in Holders : Preempt(h) \/ FireCancel(h) \/ Release(h)

Spec == Init /\ [][Next]_gateVars

\* Time passes; nothing else has to happen.  A holder may never release.
FairSpec == Spec /\ WF_gateVars(Tick)
-----------------------------------------------------------------------------
TypeOK ==
  /\ holds \in Nat
  /\ until \in ZeroTime..Timeout
  /\ cancel \in BOOLEAN
  /\ cycle \in {"none", "running", "ending"}
  /\ ctxDone \in BOOLEAN
  /\ hpc \in [Holders -> {"out", "preempting", "in"}]
  /\ taken \in [Holders -> BOOLEAN]
  /\ window \in [Holders -> 0..Timeout]

Holding == {h \in Holders : hpc[h] # "out"}

(***************************************************************************)
(* holds is exactly the number of callers between Preempt and Release,     *)
(* however their windows expire and overlap (gate.go, comment on holds:    *)
(* the sweep that zeroed it made a later Release miscount).                *)
(***************************************************************************)
HoldsCounted == holds = Cardinality(Holding)

(***************************************************************************)
(* As long as a caller's own window is open, reads are suppressed at least *)
(* that long: neither another caller's Release nor the sweep of an expired *)
(* deadline lifts a hold that is still live.                               *)
(***************************************************************************)
LiveHoldSuppresses ==
  \A h \in Holders : window[h] > 0 => until >= window[h]

(***************************************************************************)
(* Reads are held off only on somebody's behalf: when the last caller has  *)
(* released, no deadline is left behind (Writer.HandleMessage: "leaving it *)
(* suppressed used to block reads until the suppression timeout expired"). *)
(***************************************************************************)
SuppressedForSomeone == Suppressed => Holding # {}

(***************************************************************************)
(* No cycle runs unhindered next to a live hold: if one is running and its *)
(* context is not cancelled, the caller that will cancel it is between its *)
(* unlock and its call of cancel (TryBeginCycle tests and registers under  *)
(* one lock for this).                                                     *)
(***************************************************************************)
CycleYieldsToHold ==
  /\ cycle = "running"
  /\ ~ctxDone
  /\ \E h \in Holders : window[h] > 0
  => \E h \in Holders : hpc[h] = "preempting" /\ taken[h]

(***************************************************************************)
(* "A release that never happens must not wedge reads permanently": if     *)
(* from some time on nobody preempts, reads are not suppressed for ever,   *)
(* even when no holder ever releases.                                      *)
(***************************************************************************)
SuppressionEnds ==
  <>[][\A h \in Holders : ~Preempt(h)]_gateVars => <>[]~Suppressed
-----------------------------------------------------------------------------
(***************************************************************************)
(* The gate implements WritePriority.  A cycle counts as preempted from    *)
(* the moment a caller has taken its cancel function, and as over once its *)
(* clean-up has begun.                                                     *)
(***************************************************************************)
cycleBar ==
  IF cycle # "running" THEN "none"
  ELSE IF ctxDone \/ \E h \in Holders : taken[h] THEN "preempted"
  ELSE "running"

Contract == INSTANCE WritePriority WITH cycle <- cycleBar

(***************************************************************************)
(* Every behaviour of the gate is one of WritePriority: cycles start only  *)
(* when no window is open, and taking priority stops the cycle under way.  *)
(***************************************************************************)
ImplementsWritePriority == Contract!Spec
=============================================================================
