-------------------------- MODULE ResettlerProofs --------------------------
(***************************************************************************)
(* The timing of the settle re-reads, for any set of registers, any delay  *)
(* and re-reads that take any time.                                        *)
(***************************************************************************)
EXTENDS Resettler, TLAPS

\* An entry is never further behind than the re-reads of the batch have
\* taken; from the scan on, an entry the scan has not seen has left a sign.
InTime ==
  /\ busy <= MaxBusy
  /\ \A r \in pending :
       /\ due[r] >= -busy
       /\ pc \in {"refresh", "reading"} =>
            wake \/ signalling \/ (next > 0 /\ due[r] >= next - busy)
       /\ pc = "sleep" =>
            wake \/ signalling \/ (next > 0 /\ due[r] >= timer - busy)

\* The time of an entry and the age of its request go together, and what was
\* taken for a re-read was due, unless a newer request has come since.
Settled ==
  /\ \A r \in pending : since[r] = Delay \/ due[r] + since[r] = Delay
  /\ \A r \in ready \ superseded : since[r] = Delay

IInv == TypeOK /\ InTime /\ Settled
-----------------------------------------------------------------------------
LEMMA Bounds == Delay \in Nat /\ Delay > 0 /\ MaxBusy \in Nat
BY DelayPositive, MaxBusyNat

\* What due returns.
LEMMA NextDueBound ==
  ASSUME TypeOK, NEW n \in NextDue
  PROVE  /\ n \in Nat
         /\ \A r \in Waiting : n > 0 /\ due[r] >= n
BY DEF TypeOK, NextDue, Waiting

LEMMA TypeStep ==
  ASSUME TypeOK, [Next]_vars
  PROVE  TypeOK'
<1> USE Bounds DEF TypeOK, entries, loop, history
<1>1. ASSUME NEW r \in Registers, Schedule(r)
      PROVE  TypeOK'
  BY <1>1 DEF Schedule, Enter
<1>2. CASE Signal \/ Stop
  BY <1>2 DEF Signal, Stop
<1>3. CASE Scan
  BY <1>3, NextDueBound DEF Scan, Waiting
<1>4. ASSUME NEW r \in Registers, Refresh(r)
      PROVE  TypeOK'
  BY <1>4 DEF Refresh
<1>5. CASE Refreshed \/ Abandon \/ Sleep \/ EndSleep
  <2>1. CASE Refreshed
    BY <2>1 DEF Refreshed
  <2>2. CASE Abandon
    BY <2>2 DEF Abandon
  <2>3. CASE Sleep
    BY <2>3 DEF Sleep
  <2>4. CASE EndSleep
    BY <2>4 DEF EndSleep
  <2> QED
    BY <1>5, <2>1, <2>2, <2>3, <2>4
<1>6. CASE Woken \/ TimerFires
  <2>1. CASE Woken
    BY <2>1 DEF Woken, Rescan
  <2>2. CASE TimerFires
    BY <2>2 DEF TimerFires, Rescan
  <2> QED
    BY <1>6, <2>1, <2>2
<1>7. CASE Tick
  BY <1>7 DEF Tick
<1>8. CASE UNCHANGED vars
  BY <1>8 DEF vars
<1> QED
  BY <1>1, <1>2, <1>3, <1>4, <1>5, <1>6, <1>7, <1>8 DEF Next, Loop

LEMMA InTimeStep ==
  ASSUME TypeOK, InTime, [Next]_vars
  PROVE  InTime'
<1> USE Bounds DEF TypeOK, InTime, entries, loop, history
<1>1. ASSUME NEW r \in Registers, Schedule(r)
      PROVE  InTime'
  BY <1>1 DEF Schedule, Enter
<1>2. CASE Signal \/ Stop
  BY <1>2 DEF Signal, Stop
<1>3. CASE Scan
  <2>1. pending' = Waiting /\ busy' = 0 /\ due' = due /\ pc' = "refresh"
        /\ next' \in NextDue
    BY <1>3 DEF Scan
  <2>2. \A r \in Waiting : next' > 0 /\ due[r] >= next'
    BY <2>1, NextDueBound
  <2> QED
    BY <2>1, <2>2, NextDueBound DEF Waiting
<1>4. ASSUME NEW r \in Registers, Refresh(r)
      PROVE  InTime'
  BY <1>4 DEF Refresh
<1>5. CASE Refreshed \/ Abandon \/ Sleep \/ EndSleep
  BY <1>5 DEF Refreshed, Abandon, Sleep, EndSleep
<1>6. CASE Woken \/ TimerFires
  BY <1>6 DEF Woken, TimerFires, Rescan
<1>7. CASE Tick
  <2>1. CASE Reading
    BY <1>7, <2>1 DEF Tick, Reading
  <2>2. CASE Asleep
    BY <1>7, <2>2 DEF Tick, Asleep, Reading
  <2> QED
    BY <1>7, <2>1, <2>2 DEF Tick
<1>8. CASE UNCHANGED vars
  BY <1>8 DEF vars
<1> QED
  BY <1>1, <1>2, <1>3, <1>4, <1>5, <1>6, <1>7, <1>8 DEF Next, Loop

LEMMA SettledStep ==
  ASSUME TypeOK, Settled, [Next]_vars
  PROVE  Settled'
<1> USE Bounds DEF TypeOK, Settled, entries, loop, history
<1>1. ASSUME NEW r \in Registers, Schedule(r)
      PROVE  Settled'
  BY <1>1 DEF Schedule, Enter
<1>2. CASE Signal \/ Stop
  BY <1>2 DEF Signal, Stop
<1>3. CASE Scan
  BY <1>3 DEF Scan, Waiting
<1>4. ASSUME NEW r \in Registers, Refresh(r)
      PROVE  Settled'
  BY <1>4 DEF Refresh
<1>5. CASE Refreshed \/ Abandon \/ Sleep \/ EndSleep
  BY <1>5 DEF Refreshed, Abandon, Sleep, EndSleep
<1>6. CASE Woken \/ TimerFires
  BY <1>6 DEF Woken, TimerFires, Rescan
<1>7. CASE Tick
  BY <1>7 DEF Tick
<1>8. CASE UNCHANGED vars
  BY <1>8 DEF vars
<1> QED
  BY <1>1, <1>2, <1>3, <1>4, <1>5, <1>6, <1>7, <1>8 DEF Next, Loop

LEMMA Inductive == Spec => []IInv
<1>1. Init => IInv
  <2> SUFFICES ASSUME Init PROVE IInv
    OBVIOUS
  <2>1. TypeOK
    <3>1. Delay \in 0..Delay
      BY Bounds
    <3>2. due \in [Registers -> Int] /\ since \in [Registers -> 0..Delay]
      BY <3>1 DEF Init
    <3> QED
      BY <3>2 DEF Init, TypeOK
  <2>2. InTime /\ Settled
    BY Bounds DEF Init, InTime, Settled
  <2> QED
    BY <2>1, <2>2 DEF IInv
<1>2. IInv /\ [Next]_vars => IInv'
  BY TypeStep, InTimeStep, SettledStep DEF IInv
<1> QED
  BY <1>1, <1>2, PTL DEF Spec
-----------------------------------------------------------------------------
(***************************************************************************)
(* The resettler keeps its type.                                           *)
(***************************************************************************)
THEOREM TypeCorrect == Spec => []TypeOK
<1>1. IInv => TypeOK
  BY DEF IInv
<1> QED
  BY <1>1, Inductive, PTL

(***************************************************************************)
(* Whatever requests come, no entry waits longer than its delay and the    *)
(* re-reads of one batch: no token is lost and no timer is set for a time  *)
(* that has passed unnoticed (the wake channel of resettler).              *)
(***************************************************************************)
THEOREM NeverLaterThanOneBatch == Spec => []LateByOneBatch
<1>1. IInv => LateByOneBatch
  BY Bounds DEF IInv, TypeOK, InTime, LateByOneBatch
<1> QED
  BY <1>1, Inductive, PTL

(***************************************************************************)
(* A re-read that is not superseded comes after the whole delay without a  *)
(* command for its register (the comment on resettler: one read after the  *)
(* changes stop).                                                          *)
(***************************************************************************)
THEOREM RereadAfterQuiet == Spec => QuietBeforeReread
<1>1. ASSUME IInv, [Next]_vars
      PROVE  [\A r \in owed \ owed' : since[r] = Delay]_vars
  <2> SUFFICES ASSUME Next, NEW r \in owed \ owed'
               PROVE  since[r] = Delay
    BY <1>1
  <2> USE DEF IInv, TypeOK, Settled, entries, loop, history
  <2>1. ASSUME NEW s \in Registers, Refresh(s)
        PROVE  since[r] = Delay
    BY <1>1, <2>1 DEF Refresh
  <2>2. ASSUME NEW s \in Registers, Schedule(s)
        PROVE  FALSE
    BY <2>2 DEF Schedule, Enter
  <2>3. CASE Signal \/ Stop \/ Tick
    BY <2>3 DEF Signal, Stop, Tick
  <2>4. CASE Scan \/ Refreshed \/ Abandon \/ Sleep \/ EndSleep
    BY <2>4 DEF Scan, Refreshed, Abandon, Sleep, EndSleep
  <2>5. CASE Woken \/ TimerFires
    BY <2>5 DEF Woken, TimerFires, Rescan
  <2> QED
    BY <2>1, <2>2, <2>3, <2>4, <2>5 DEF Next, Loop
<1> QED
  BY <1>1, Inductive, PTL DEF Spec, QuietBeforeReread
=============================================================================
