--------------------------- MODULE GatewayProofs ---------------------------
(***************************************************************************)
(* The safety of the read gate for any finite set of callers and any       *)
(* timeout, and its implementation of WritePriority; then the safety of    *)
(* the command worker, the settle re-read and the read cycle around it,    *)
(* for any number of registers, values and commands and any queue depth.   *)
(***************************************************************************)
EXTENDS Gateway, FiniteSetTheorems, TLAPS

(***************************************************************************)
(* The gate alone: Spec, of ReadGate.                                      *)
(***************************************************************************)

(***************************************************************************)
(* What the properties leave unsaid: an open window belongs to a caller    *)
(* that has not released, and the cycle's cancel function is in exactly    *)
(* one place until it is called: in the gate or with one caller.           *)
(***************************************************************************)
WindowHeld == \A h \in Holders : window[h] > 0 => hpc[h] # "out"

CancelSomewhere ==
  /\ \A h \in Holders :
       taken[h] => hpc[h] = "preempting" /\ cycle # "none" /\ ~cancel
  /\ cancel => cycle # "none"
  /\ cycle = "running" /\ cancel =>
       ~ctxDone /\ \A h \in Holders : window[h] = 0
  /\ cycle = "running" /\ ~ctxDone /\ ~cancel =>
       \E h \in Holders : taken[h]

IInv ==
  /\ TypeOK
  /\ HoldsCounted
  /\ LiveHoldSuppresses
  /\ SuppressedForSomeone
  /\ WindowHeld
  /\ CancelSomewhere
-----------------------------------------------------------------------------
\* Both ends of the range of a deadline are in it.
LEMMA DeadlineRange ==
  /\ ZeroTime \in ZeroTime..Timeout
  /\ Timeout \in ZeroTime..Timeout
  /\ 0 \in 0..Timeout
  /\ Timeout \in 0..Timeout
BY TimeoutPositive DEF ZeroTime

\* Every step keeps every variable in its type.
LEMMA TypeStep ==
  ASSUME TypeOK, [Next]_gateVars
  PROVE  TypeOK'
<1> USE DeadlineRange DEF TypeOK
<1>1. CASE BeginCycle
  BY <1>1 DEF BeginCycle
<1>2. CASE CancelAtEnd
  BY <1>2 DEF CancelAtEnd
<1>3. CASE Deregister
  BY <1>3 DEF Deregister
<1>4. CASE Tick
  BY <1>4 DEF Tick, Elapse, ZeroTime
<1>5. ASSUME NEW h \in Holders, Preempt(h)
      PROVE  TypeOK'
  <2>1. taken' \in [Holders -> BOOLEAN]
    BY <1>5, Zenon DEF Preempt
  <2>2. window' \in [Holders -> 0..Timeout] /\ until' \in ZeroTime..Timeout
    BY <1>5 DEF Preempt
  <2>3. hpc' \in [Holders -> {"out", "preempting", "in"}] /\ holds' \in Nat
    BY <1>5 DEF Preempt
  <2>4. cancel' \in BOOLEAN /\ UNCHANGED <<cycle, ctxDone>>
    BY <1>5 DEF Preempt
  <2>5. QED
    BY <2>1, <2>2, <2>3, <2>4
<1>6. ASSUME NEW h \in Holders, FireCancel(h)
      PROVE  TypeOK'
  BY <1>6 DEF FireCancel
<1>7. ASSUME NEW h \in Holders, Release(h)
      PROVE  TypeOK'
  BY <1>7 DEF Release
<1>8. CASE UNCHANGED gateVars
  BY <1>8 DEF gateVars
<1>9. QED
  BY <1>1, <1>2, <1>3, <1>4, <1>5, <1>6, <1>7, <1>8 DEF Next

\* A caller that joins or leaves changes the number of holders by one.
LEMMA HoldersCount ==
  ASSUME TypeOK, NEW h \in Holders
  PROVE  /\ IsFiniteSet(Holding)
         /\ Cardinality(Holding) \in Nat
         /\ Cardinality(Holding) = 0 <=> Holding = {}
         /\ h \notin Holding =>
              Cardinality(Holding \cup {h}) = Cardinality(Holding) + 1
         /\ h \in Holding =>
              Cardinality(Holding \ {h}) = Cardinality(Holding) - 1
<1>1. IsFiniteSet(Holding)
  BY HoldersFinite, FS_Subset DEF Holding
<1>2. QED
  BY <1>1, FS_CardinalityType, FS_EmptySet, FS_AddElement, FS_RemoveElement

\* The strengthened invariant holds at the start.
LEMMA InitIInv == Init => IInv
<1> SUFFICES ASSUME Init
             PROVE  IInv
  OBVIOUS
<1>1. TypeOK
  BY DeadlineRange DEF Init, TypeOK
<1>2. Holding = {}
  BY DEF Init, Holding
<1>3. HoldsCounted
  BY <1>2, FS_EmptySet DEF Init, HoldsCounted
<1>4. QED
  BY <1>1, <1>3 DEF Init, IInv, LiveHoldSuppresses, SuppressedForSomeone,
     Suppressed, ZeroTime, WindowHeld, CancelSomewhere

\* The count of holders follows every step.
LEMMA CountStep ==
  ASSUME TypeOK, HoldsCounted, [Next]_gateVars
  PROVE  HoldsCounted'
<1>1. ASSUME NEW h \in Holders, Preempt(h)
      PROVE  HoldsCounted'
  <2>1. h \notin Holding /\ Holding' = Holding \cup {h}
    BY <1>1 DEF Preempt, Holding, TypeOK
  <2>2. QED
    BY <1>1, <2>1, HoldersCount DEF Preempt, HoldsCounted
<1>2. ASSUME NEW h \in Holders, FireCancel(h)
      PROVE  HoldsCounted'
  <2>1. Holding' = Holding
    BY <1>2 DEF FireCancel, Holding, TypeOK
  <2>2. QED
    BY <1>2, <2>1 DEF FireCancel, HoldsCounted
<1>3. ASSUME NEW h \in Holders, Release(h)
      PROVE  HoldsCounted'
  <2>1. h \in Holding /\ Holding' = Holding \ {h}
    BY <1>3 DEF Release, Holding, TypeOK
  <2>2. Cardinality(Holding) \in Nat /\ Cardinality(Holding) # 0
    BY <2>1, HoldersCount
  <2>3. holds > 0
    BY <2>2 DEF HoldsCounted
  <2>4. QED
    BY <1>3, <2>1, <2>3, HoldersCount DEF Release, HoldsCounted
<1>4. ASSUME hpc' = hpc, holds' = holds
      PROVE  HoldsCounted'
  BY <1>4 DEF HoldsCounted, Holding
<1>5. QED
  BY <1>1, <1>2, <1>3, <1>4
     DEF Next, BeginCycle, CancelAtEnd, Deregister, Tick, gateVars

\* A live hold keeps reads suppressed across every step.
LEMMA WindowStep ==
  ASSUME IInv, [Next]_gateVars
  PROVE  LiveHoldSuppresses' /\ WindowHeld' /\ SuppressedForSomeone'
<1> USE TimeoutPositive
    DEF IInv, TypeOK, LiveHoldSuppresses, WindowHeld, SuppressedForSomeone,
        Suppressed, ZeroTime, Holding
<1>1. CASE BeginCycle
  BY <1>1 DEF BeginCycle
<1>2. CASE Tick
  BY <1>2 DEF Tick, Elapse
<1>3. ASSUME NEW h \in Holders, Preempt(h)
      PROVE  LiveHoldSuppresses' /\ WindowHeld' /\ SuppressedForSomeone'
  BY <1>3 DEF Preempt
<1>4. ASSUME NEW h \in Holders, FireCancel(h)
      PROVE  LiveHoldSuppresses' /\ WindowHeld' /\ SuppressedForSomeone'
  BY <1>4 DEF FireCancel
<1>5. ASSUME NEW h \in Holders, Release(h)
      PROVE  LiveHoldSuppresses' /\ WindowHeld' /\ SuppressedForSomeone'
  <2>1. TypeOK' /\ HoldsCounted'
    BY TypeStep, CountStep
  <2>2. holds' = 0 <=> Holding' = {}
    <3>1. IsFiniteSet(Holding')
      BY HoldersFinite, FS_Subset
    <3>2. QED
      BY <2>1, <3>1, FS_EmptySet DEF HoldsCounted
  <2>3. CASE holds' = 0
    BY <1>5, <2>2, <2>3 DEF Release
  <2>4. CASE holds' # 0
    BY <1>5, <2>2, <2>4 DEF Release
  <2>5. QED
    BY <2>3, <2>4
<1>6. CASE CancelAtEnd \/ Deregister \/ UNCHANGED gateVars
  BY <1>6 DEF CancelAtEnd, Deregister, gateVars
<1>7. QED
  BY <1>1, <1>2, <1>3, <1>4, <1>5, <1>6 DEF Next

\* The cycle's cancel function is never lost before it is called.
LEMMA CancelStep ==
  ASSUME IInv, [Next]_gateVars
  PROVE  CancelSomewhere'
<1> USE TimeoutPositive DEF IInv, TypeOK, CancelSomewhere
<1>1. CASE BeginCycle
  <2>1. \A h \in Holders : window[h] = 0
    BY <1>1 DEF BeginCycle, Suppressed, LiveHoldSuppresses
  <2>2. QED
    BY <1>1, <2>1 DEF BeginCycle
<1>2. CASE Tick
  BY <1>2 DEF Tick, Elapse
<1>3. ASSUME NEW h \in Holders, Preempt(h)
      PROVE  CancelSomewhere'
  BY <1>3 DEF Preempt
<1>4. ASSUME NEW h \in Holders, FireCancel(h)
      PROVE  CancelSomewhere'
  BY <1>4 DEF FireCancel
<1>5. ASSUME NEW h \in Holders, Release(h)
      PROVE  CancelSomewhere'
  BY <1>5 DEF Release
<1>6. CASE CancelAtEnd
  BY <1>6 DEF CancelAtEnd
<1>7. CASE Deregister
  BY <1>7 DEF Deregister
<1>8. CASE UNCHANGED gateVars
  BY <1>8 DEF gateVars
<1>9. QED
  BY <1>1, <1>2, <1>3, <1>4, <1>5, <1>6, <1>7, <1>8 DEF Next

\* The strengthened invariant is inductive.
LEMMA Invariance == Spec => []IInv
<1>1. IInv /\ [Next]_gateVars => IInv'
  BY TypeStep, CountStep, WindowStep, CancelStep DEF IInv
<1>2. QED
  BY InitIInv, <1>1, PTL DEF Spec
-----------------------------------------------------------------------------
(***************************************************************************)
(* Every variable of the gate (gate.go, ReadGate) stays in its type.       *)
(***************************************************************************)
THEOREM GateTypeCorrect == Spec => []TypeOK
BY Invariance, PTL DEF IInv

(***************************************************************************)
(* holds counts the callers between Preempt and Release (gate.go, holds),  *)
(* and a deadline is left behind only while there is one of them.          *)
(***************************************************************************)
THEOREM HoldsExact == Spec => [](HoldsCounted /\ SuppressedForSomeone)
BY Invariance, PTL DEF IInv

(***************************************************************************)
(* A live hold is never lifted by another caller's Release or by the sweep *)
(* of an expired deadline (Release and suppressedLocked).                  *)
(***************************************************************************)
THEOREM LiveHoldNeverStolen == Spec => []LiveHoldSuppresses
BY Invariance, PTL DEF IInv

(***************************************************************************)
(* A cycle next to a live hold is cancelled, or about to be by the caller  *)
(* that took its cancel function (TryBeginCycle and Preempt).              *)
(***************************************************************************)
THEOREM CycleAlwaysYields == Spec => []CycleYieldsToHold
<1>1. IInv => CycleYieldsToHold
  BY DEF IInv, TypeOK, CancelSomewhere, CycleYieldsToHold
<1>2. QED
  BY Invariance, <1>1, PTL

\* A step of the gate is a step of WritePriority, or leaves it unchanged.
LEMMA ContractStep ==
  ASSUME IInv, IInv', [Next]_gateVars
  PROVE  [Contract!Next]_(Contract!vars)
<1> USE TimeoutPositive DEF IInv, TypeOK, CancelSomewhere, cycleBar,
                            Contract!Next, Contract!vars
<1>1. CASE BeginCycle
  <2>1. \A h \in Holders : window[h] = 0
    BY <1>1 DEF BeginCycle, Suppressed, LiveHoldSuppresses
  <2>2. QED
    BY <1>1, <2>1 DEF BeginCycle, Contract!Begin
<1>2. CASE CancelAtEnd
  BY <1>2 DEF CancelAtEnd, Contract!End
<1>3. CASE Deregister
  BY <1>3 DEF Deregister
<1>4. CASE Tick
  <2>1. window' = [h \in Holders |-> IF window[h] > 0 THEN window[h] - 1 ELSE 0]
    BY <1>4 DEF Tick, Elapse
  <2>2. QED
    BY <1>4, <2>1 DEF Tick, Contract!Tick
<1>5. ASSUME NEW h \in Holders, Preempt(h)
      PROVE  Contract!Take(h)
  BY <1>5 DEF Preempt, Contract!Take
<1>6. ASSUME NEW h \in Holders, FireCancel(h)
      PROVE  UNCHANGED Contract!vars
  BY <1>6 DEF FireCancel
<1>7. ASSUME NEW h \in Holders, Release(h)
      PROVE  Contract!Drop(h)
  BY <1>7 DEF Release, Contract!Drop
<1>8. CASE UNCHANGED gateVars
  BY <1>8 DEF gateVars
<1>9. QED
  BY <1>1, <1>2, <1>3, <1>4, <1>5, <1>6, <1>7, <1>8 DEF Next

(***************************************************************************)
(* The gate implements WritePriority: no cycle starts while a caller's     *)
(* window is open, and a caller that takes priority stops the cycle that   *)
(* is under way (TryBeginCycle, Preempt, Release).                         *)
(***************************************************************************)
THEOREM GateImplementsContract == Spec => ImplementsWritePriority
<1>1. Init => Contract!Init
  BY DEF Init, Contract!Init, cycleBar
<1>2. IInv /\ IInv' /\ [Next]_gateVars => [Contract!Next]_(Contract!vars)
  BY ContractStep
<1>3. QED
  BY Invariance, <1>1, <1>2, PTL DEF Spec, ImplementsWritePriority, Contract!Spec
-----------------------------------------------------------------------------
(***************************************************************************)
(* The goroutines around it: GatewaySpec.                                  *)
(***************************************************************************)
WorkerPcs ==
  {"idle", "preempt", "cancel", "count", "send", "readBack", "publishReading",
   "publishState", "schedule", "release"}
SettlerPcs ==
  {"idle", "next", "preempt", "cancel", "check", "read", "publishReading",
   "recheck", "publishState", "release"}
PollerPcs == {"idle", "read", "readings", "states", "end", "deregister"}
Reported == Values \cup {NoValue}

(***************************************************************************)
(* The types, without the bounds of the model checker: sequence numbers    *)
(* and attempts are natural numbers.                                       *)
(***************************************************************************)
UnitTypes ==
  /\ told \in [Registers -> Values]
  /\ held \in [Registers -> Values]
  /\ everHeld \in [Registers -> SUBSET Values]
TopicTypes ==
  /\ state \in [Registers -> Reported]
  /\ reading \in [Registers -> Reported]
WriterTypes ==
  /\ queue \in Seq(Commands)
  /\ lastCommand \in [Registers -> Reported]
  /\ writeSeq \in [Registers -> Nat]
  /\ pending \in [Registers -> Nat]
  /\ reread \in [Registers -> Nat]
WorkerType ==
  worker \in [pc : WorkerPcs, reg : Registers \cup {NoRegister},
              val : Reported, attempt : Nat, seq : Nat, actual : Reported,
              err : BOOLEAN]
SettlerType ==
  settler \in [pc : SettlerPcs, reg : Registers \cup {NoRegister}, seq : Nat,
               actual : Reported, ready : SUBSET (Registers \X Nat)]
PollerType ==
  poller \in [pc : PollerPcs, todo : SUBSET Registers,
              flight : Registers \cup {NoRegister},
              snap : [Registers -> Reported]]

\* A goroutine past its first step has a register to work on.
RegistersInHand ==
  /\ worker.pc # "idle" => worker.reg \in Registers /\ worker.val \in Values
  /\ settler.pc \notin {"idle", "next"} => settler.reg \in Registers

Types ==
  /\ UnitTypes /\ TopicTypes /\ WriterTypes
  /\ WorkerType /\ SettlerType /\ PollerType
  /\ RegistersInHand

\* The three goroutines at rest have the type of their records.
LEMMA IdleTypes ==
  /\ IdleWorker \in [pc : WorkerPcs, reg : Registers \cup {NoRegister},
                     val : Reported, attempt : Nat, seq : Nat,
                     actual : Reported, err : BOOLEAN]
  /\ IdleSettler \in [pc : SettlerPcs, reg : Registers \cup {NoRegister},
                      seq : Nat, actual : Reported,
                      ready : SUBSET (Registers \X Nat)]
  /\ IdlePoller \in [pc : PollerPcs, todo : SUBSET Registers,
                     flight : Registers \cup {NoRegister},
                     snap : [Registers -> Reported]]
BY DEF IdleWorker, IdleSettler, IdlePoller, WorkerPcs, SettlerPcs, PollerPcs,
       Reported

\* The types hold at the start.
LEMMA TypesInit == GatewayInit => Types
<1> SUFFICES ASSUME GatewayInit
             PROVE  Types
  OBVIOUS
<1>1. UnitTypes
  BY DEF GatewayInit, UnitTypes
<1>2. TopicTypes /\ WriterTypes
  BY DEF GatewayInit, TopicTypes, WriterTypes, Reported
<1>3. WorkerType /\ SettlerType /\ PollerType
  BY IdleTypes DEF GatewayInit, WorkerType, SettlerType, PollerType
<1>4. RegistersInHand
  BY DEF GatewayInit, RegistersInHand, IdleWorker, IdleSettler
<1>5. QED
  BY <1>1, <1>2, <1>3, <1>4 DEF Types

\* Judging an attempt only moves the program counter and the count.
LEMMA JudgedType ==
  ASSUME NEW w \in [pc : WorkerPcs, reg : Registers \cup {NoRegister},
                    val : Reported, attempt : Nat, seq : Nat,
                    actual : Reported, err : BOOLEAN]
  PROVE  /\ Judged(w) \in [pc : WorkerPcs, reg : Registers \cup {NoRegister},
                           val : Reported, attempt : Nat, seq : Nat,
                           actual : Reported, err : BOOLEAN]
         /\ Judged(w).pc \in {"send", "publishState"}
         /\ Judged(w).reg = w.reg /\ Judged(w).val = w.val
         /\ Judged(w).seq = w.seq /\ Judged(w).actual = w.actual
<1>1. CASE w.err /\ w.attempt < WriteAttempts
  <2>1. Judged(w) = [w EXCEPT !.pc = "send", !.attempt = @ + 1]
    BY <1>1 DEF Judged
  <2>2. w.attempt + 1 \in Nat
    OBVIOUS
  <2> DEFINE n == w.attempt + 1
  <2>3. Judged(w) = [w EXCEPT !.pc = "send", !.attempt = n]
    BY <2>1
  <2> HIDE DEF n
  <2>4. n \in Nat
    BY <2>2 DEF n
  <2>5. QED
    BY <2>3, <2>4 DEF WorkerPcs
<1>2. CASE ~(w.err /\ w.attempt < WriteAttempts)
  <2>1. Judged(w) = [w EXCEPT !.pc = "publishState"]
    BY <1>2, Zenon DEF Judged
  <2>2. QED
    BY <2>1 DEF WorkerPcs
<1>3. QED
  BY <1>1, <1>2

\* Every step of the worker keeps the types.
LEMMA WorkerTypesStep ==
  ASSUME Types, Worker
  PROVE  Types'
<1> USE DEF Types, UnitTypes, TopicTypes, WriterTypes, WorkerType,
            SettlerType, PollerType, RegistersInHand, WorkerPcs, Reported,
            WorkerAt, gateVars, device, topics, commands, writes, settling
<1>1. CASE TakeCommand
  <2> DEFINE c == Head(queue)
  <2>1. c \in Commands /\ queue' \in Seq(Commands)
    BY <1>1 DEF TakeCommand
  <2>2. worker' \in {worker, [worker EXCEPT !.pc = "preempt", !.reg = c.reg,
                       !.val = c.val, !.attempt = 1, !.actual = NoValue,
                       !.err = FALSE]}
        /\ (worker' # worker => c.val \in Values)
    BY <1>1 DEF TakeCommand
  <2>3. QED
    BY <1>1, <2>1, <2>2 DEF TakeCommand, Commands
<1>2. CASE WorkerPreempts
  BY <1>2 DEF WorkerPreempts
<1>3. CASE WorkerCancels
  BY <1>3 DEF WorkerCancels
<1>4. CASE CountCommand
  <2>1. writeSeq' \in [Registers -> Nat] /\ writeSeq'[worker.reg] \in Nat
    BY <1>4 DEF CountCommand
  <2>2. WorkerType' /\ RegistersInHand'
    BY <1>4, <2>1 DEF CountCommand
  <2>3. QED
    BY <1>4, <2>1, <2>2 DEF CountCommand
<1>5. ASSUME NEW takes \in BOOLEAN, SendCommand(takes)
      PROVE  Types'
  BY <1>5 DEF SendCommand, UnitTold
<1>6. ASSUME NEW takes \in BOOLEAN, SendFails(takes)
      PROVE  Types'
  BY <1>6 DEF SendFails, UnitTold
<1>7. CASE ReadBack
  BY <1>7 DEF ReadBack
<1>8. ASSUME NEW confirmed \in BOOLEAN, ReadBackFails(confirmed)
      PROVE  Types'
  <2>1. WorkerType' /\ RegistersInHand'
    <3> DEFINE w == [worker EXCEPT !.actual = NoValue, !.err = ~confirmed]
    <3>1. /\ w \in [pc : WorkerPcs, reg : Registers \cup {NoRegister},
                    val : Reported, attempt : Nat, seq : Nat,
                    actual : Reported, err : BOOLEAN]
          /\ w.reg = worker.reg /\ w.val = worker.val
      OBVIOUS
    <3>2. worker' = Judged(w) /\ worker.pc = "readBack" /\ settler' = settler
      BY <1>8 DEF ReadBackFails
    <3> HIDE DEF w
    <3>3. QED
      BY <3>1, <3>2, JudgedType
  <2>2. QED
    BY <1>8, <2>1 DEF ReadBackFails
<1>9. ASSUME NEW ok \in BOOLEAN, WorkerPublishesReading(ok)
      PROVE  Types'
  <2>1. WorkerType' /\ RegistersInHand'
    BY <1>9, JudgedType DEF WorkerPublishesReading
  <2>2. reading' \in [Registers -> Reported]
    BY <1>9 DEF WorkerPublishesReading, Published
  <2>3. QED
    BY <1>9, <2>1, <2>2 DEF WorkerPublishesReading
<1>10. ASSUME NEW ok \in BOOLEAN, WorkerPublishesState(ok)
       PROVE  Types'
  BY <1>10 DEF WorkerPublishesState, Published
<1>11. CASE ScheduleReread
  BY <1>11 DEF ScheduleReread
<1>12. CASE WorkerReleases
  BY <1>12, IdleTypes DEF WorkerReleases, IdleWorker
<1>13. QED
  BY <1>1, <1>2, <1>3, <1>4, <1>5, <1>6, <1>7, <1>8, <1>9, <1>10, <1>11, <1>12
     DEF Worker

\* Every step of the settler keeps the types.
LEMMA SettlerTypesStep ==
  ASSUME Types, Settler
  PROVE  Types'
<1> USE DEF Types, UnitTypes, TopicTypes, WriterTypes, WorkerType,
            SettlerType, PollerType, RegistersInHand, SettlerPcs, Reported,
            SettlerAt, gateVars, device, topics, commands, writes, settling
<1>1. ASSUME NEW due \in SUBSET Registers, TakeDue(due)
      PROVE  Types'
  <2>1. pending' \in [Registers -> Nat]
    BY <1>1 DEF TakeDue
  <2>2. {<<r, pending[r]>> : r \in due} \in SUBSET (Registers \X Nat)
    OBVIOUS
  <2>3. SettlerType' /\ RegistersInHand'
    BY <1>1, <2>2 DEF TakeDue
  <2>4. QED
    BY <1>1, <2>1, <2>3 DEF TakeDue
<1>2. ASSUME NEW entry \in settler.ready, StartRefresh(entry)
      PROVE  Types'
  <2>1. entry[1] \in Registers /\ entry[2] \in Nat
    BY <1>2
  <2>2. QED
    BY <1>2, <2>1 DEF StartRefresh
<1>3. CASE AllRefreshed
  BY <1>3, IdleTypes DEF AllRefreshed, IdleSettler
<1>4. CASE SettlerPreempts \/ SettlerCancels \/ CheckBeforeRead \/ CheckBeforeState
  <2>1. CASE SettlerPreempts \/ SettlerCancels
    BY ZenonT(60), <2>1 DEF SettlerPreempts, SettlerCancels
  <2>2. CASE CheckBeforeRead \/ CheckBeforeState
    BY ZenonT(60), <2>2 DEF CheckBeforeRead, CheckBeforeState
  <2>3. QED
    BY <1>4, <2>1, <2>2
<1>5. ASSUME NEW ok \in BOOLEAN, Reread(ok)
      PROVE  Types'
  BY <1>5 DEF Reread
<1>6. ASSUME NEW ok \in BOOLEAN,
             SettlerPublishesReading(ok) \/ SettlerPublishesState(ok)
      PROVE  Types'
  <2>1. SettlerType' /\ RegistersInHand'
    BY <1>6 DEF SettlerPublishesReading, SettlerPublishesState
  <2>2. TopicTypes'
    BY <1>6 DEF SettlerPublishesReading, SettlerPublishesState, Published
  <2>3. QED
    BY <1>6, <2>1, <2>2 DEF SettlerPublishesReading, SettlerPublishesState
<1>7. CASE SettlerReleases
  BY <1>7 DEF SettlerReleases, IdleSettler
<1>8. QED
  BY <1>1, <1>2, <1>3, <1>4, <1>5, <1>6, <1>7 DEF Settler

\* Every step of the poll loop keeps the types.
LEMMA PollerTypesStep ==
  ASSUME Types, Poller
  PROVE  Types'
<1> USE DEF Types, UnitTypes, TopicTypes, WriterTypes, WorkerType,
            SettlerType, PollerType, RegistersInHand, PollerPcs, Reported,
            PollerAt, gateVars, device, topics, commands, writes, settling
<1>1. CASE PollBegins \/ PollPreempted \/ PollEnds
  <2>1. CASE PollBegins
    BY ZenonT(60), <2>1, SomeReadable DEF PollBegins
  <2>2. CASE PollPreempted \/ PollEnds
    BY ZenonT(60), <2>2 DEF PollPreempted, PollEnds
  <2>3. QED
    BY <1>1, <2>1, <2>2
<1>2. CASE PollProceeds
  <2>1. NextPhase[poller.pc] \in PollerPcs
    BY <1>2 DEF PollProceeds, NextPhase
  <2>2. QED
    BY <1>2, <2>1 DEF PollProceeds
<1>3. ASSUME NEW r \in Registers, NEW ok \in BOOLEAN, PollReads(r, ok)
      PROVE  Types'
  BY <1>3 DEF PollReads
<1>4. ASSUME NEW r \in Registers, PollStartsPublish(r)
      PROVE  Types'
  BY <1>4 DEF PollStartsPublish
<1>5. ASSUME NEW ok \in BOOLEAN, PollLands(ok)
      PROVE  Types'
  <2>1. PollerType'
    BY <1>5 DEF PollLands
  <2>2. poller.flight \in Registers /\ poller.snap[poller.flight] \in Reported
    BY <1>5 DEF PollLands
  <2>3. TopicTypes'
    BY <1>5, <2>2 DEF PollLands, Published
  <2>4. QED
    BY <1>5, <2>1, <2>3 DEF PollLands
<1>6. CASE PollDeregisters
  BY ZenonT(60), <1>6, IdleTypes DEF PollDeregisters
<1>7. ASSUME \E r \in Registers, ok \in BOOLEAN : PollReads(r, ok)
      PROVE  Types'
  <2>1. PICK r \in Registers, ok \in BOOLEAN : PollReads(r, ok)
    BY <1>7
  <2>2. QED
    BY <1>3, <2>1
<1>8. ASSUME \E ok \in BOOLEAN : PollLands(ok)
      PROVE  Types'
  BY <1>5, <1>8
<1>9. QED
  BY <1>1, <1>2, <1>4, <1>6, <1>7, <1>8 DEF Poller

\* Every step keeps the types.
LEMMA TypesStep ==
  ASSUME Types, [GatewayNext]_vars
  PROVE  Types'
<1> USE DEF Types, UnitTypes, TopicTypes, WriterTypes, WorkerType,
            SettlerType, PollerType, RegistersInHand, gateVars, device,
            topics, commands, writes, settling
<1>1. ASSUME NEW c \in Commands, Deliver(c)
      PROVE  Types'
  <2>1. queue' \in Seq(Commands)
    BY <1>1 DEF Deliver
  <2>2. QED
    BY <1>1, <2>1 DEF Deliver
<1>2. ASSUME NEW r \in Registers, UnitApplies(r)
      PROVE  Types'
  <2>1. UnitTypes'
    BY SMTT(30), <1>2 DEF UnitApplies, Shows
  <2>2. QED
    BY <1>2, <2>1 DEF UnitApplies
<1>3. ASSUME NEW r \in Registers, WindowCloses(r)
      PROVE  Types'
  BY <1>3 DEF WindowCloses, Reported
<1>4. ASSUME NEW r \in Registers, NEW v \in Values, UnitDrifts(r, v)
      PROVE  Types'
  BY <1>4 DEF UnitDrifts, Shows
<1>5. CASE GateClock
  BY <1>5 DEF GateClock
<1>6. CASE UNCHANGED vars
  BY <1>6 DEF vars
<1>7. QED
  BY <1>1, <1>2, <1>3, <1>4, <1>5, <1>6, WorkerTypesStep, SettlerTypesStep,
     PollerTypesStep DEF GatewayNext
-----------------------------------------------------------------------------
(***************************************************************************)
(* What each goroutine leaves alone, whatever it does.                     *)
(***************************************************************************)
\* The worker, and the cycle of the gate.
LEMMA WorkerApart ==
  ASSUME Worker
  PROVE  UNCHANGED <<cycle, held, everHeld, settler, poller>>
<1> USE DEF gateVars, device
<1>1. CASE WorkerPreempts \/ WorkerCancels \/ WorkerReleases
  BY <1>1 DEF WorkerPreempts, WorkerCancels, WorkerReleases, Preempt,
              FireCancel, Release
<1>2. CASE TakeCommand \/ CountCommand \/ ReadBack \/ ScheduleReread
  BY <1>2 DEF TakeCommand, CountCommand, ReadBack, ScheduleReread
<1>3. ASSUME NEW ok \in BOOLEAN,
             \/ SendCommand(ok) \/ SendFails(ok) \/ ReadBackFails(ok)
             \/ WorkerPublishesReading(ok) \/ WorkerPublishesState(ok)
      PROVE  UNCHANGED <<cycle, held, everHeld, settler, poller>>
  BY <1>3 DEF SendCommand, SendFails, UnitTold, ReadBackFails,
              WorkerPublishesReading, WorkerPublishesState
<1>4. QED
  BY <1>1, <1>2, <1>3 DEF Worker

\* The settler.
LEMMA SettlerApart ==
  ASSUME Settler
  PROVE  UNCHANGED <<cycle, device, commands, writes, worker, poller>>
<1>1. CASE SettlerPreempts \/ SettlerCancels \/ SettlerReleases
  BY <1>1 DEF SettlerPreempts, SettlerCancels, SettlerReleases, Preempt,
              FireCancel, Release
<1>2. CASE AllRefreshed \/ CheckBeforeRead \/ CheckBeforeState
  BY <1>2 DEF AllRefreshed, CheckBeforeRead, CheckBeforeState, gateVars
<1>3. ASSUME NEW due \in SUBSET Registers, TakeDue(due)
      PROVE  UNCHANGED <<cycle, device, commands, writes, worker, poller>>
  BY <1>3 DEF TakeDue, gateVars
<1>4. ASSUME NEW entry \in settler.ready, StartRefresh(entry)
      PROVE  UNCHANGED <<cycle, device, commands, writes, worker, poller>>
  BY <1>4 DEF StartRefresh, gateVars
<1>5. ASSUME NEW ok \in BOOLEAN,
             \/ Reread(ok)
             \/ SettlerPublishesReading(ok) \/ SettlerPublishesState(ok)
      PROVE  UNCHANGED <<cycle, device, commands, writes, worker, poller>>
  BY <1>5 DEF Reread, SettlerPublishesReading, SettlerPublishesState, gateVars
<1>6. QED
  BY <1>1, <1>2, <1>3, <1>4, <1>5 DEF Settler

\* The poll loop.
LEMMA PollerApart ==
  ASSUME Poller
  PROVE  UNCHANGED <<hpc, device, commands, writes, settling, worker, settler>>
<1> DEFINE Apart ==
      UNCHANGED <<hpc, device, commands, writes, settling, worker, settler>>
<1>1. CASE PollBegins \/ PollEnds \/ PollDeregisters
  BY <1>1 DEF PollBegins, PollEnds, PollDeregisters, BeginCycle, CancelAtEnd,
              Deregister
<1>2. CASE PollProceeds \/ PollPreempted
  BY <1>2 DEF PollProceeds, PollPreempted, gateVars
<1>3. ASSUME NEW r \in Registers, NEW ok \in BOOLEAN, PollReads(r, ok)
      PROVE  Apart
  BY <1>3 DEF PollReads, gateVars
<1>4. ASSUME NEW r \in Registers, PollStartsPublish(r)
      PROVE  Apart
  BY <1>4 DEF PollStartsPublish, gateVars
<1>5. ASSUME NEW ok \in BOOLEAN, PollLands(ok)
      PROVE  Apart
  BY <1>5 DEF PollLands, gateVars
<1>6. QED
  BY <1>1, <1>2, <1>3, <1>4, <1>5 DEF Poller

\* The unit, the broker's deliveries and the clocks.
LEMMA SurroundingsApart ==
  ASSUME [GatewayNext]_vars, ~Worker, ~Settler, ~Poller
  PROVE  UNCHANGED <<hpc, cycle, topics, writeSeq, outcome, settling, worker,
                     settler, poller>>
<1> USE DEF gateVars, writes
<1>1. CASE GateClock
  BY <1>1 DEF GateClock, Tick
<1>2. ASSUME NEW r \in Registers, UnitApplies(r) \/ WindowCloses(r)
      PROVE  UNCHANGED <<hpc, cycle, topics, writeSeq, outcome, settling,
                         worker, settler, poller>>
  BY <1>2 DEF UnitApplies, WindowCloses
<1>3. ASSUME NEW r \in Registers, NEW v \in Values, UnitDrifts(r, v)
      PROVE  UNCHANGED <<hpc, cycle, topics, writeSeq, outcome, settling,
                         worker, settler, poller>>
  BY <1>3 DEF UnitDrifts
<1>4. ASSUME NEW c \in Commands, Deliver(c)
      PROVE  UNCHANGED <<hpc, cycle, topics, writeSeq, outcome, settling,
                         worker, settler, poller>>
  BY <1>4 DEF Deliver
<1>5. CASE UNCHANGED vars
  BY <1>5 DEF vars
<1>6. QED
  BY <1>1, <1>2, <1>3, <1>4, <1>5 DEF GatewayNext

-----------------------------------------------------------------------------
\* The goroutines use the gate as ReadGate describes it.
LEMMA GateStep ==
  ASSUME [GatewayNext]_vars
  PROVE  [Next]_gateVars
<1>1. CASE Worker
  <2>1. CASE WorkerPreempts \/ WorkerCancels \/ WorkerReleases
    BY <2>1, TwoHolders
       DEF WorkerPreempts, WorkerCancels, WorkerReleases, Next
  <2>2. CASE TakeCommand \/ CountCommand \/ ReadBack \/ ScheduleReread
    BY <2>2 DEF TakeCommand, CountCommand, ReadBack, ScheduleReread
  <2>3. ASSUME NEW takes \in BOOLEAN, SendCommand(takes) \/ SendFails(takes)
        PROVE  UNCHANGED gateVars
    BY <2>3 DEF SendCommand, SendFails
  <2>4. ASSUME NEW ok \in BOOLEAN,
               \/ ReadBackFails(ok)
               \/ WorkerPublishesReading(ok) \/ WorkerPublishesState(ok)
        PROVE  UNCHANGED gateVars
    BY <2>4 DEF ReadBackFails, WorkerPublishesReading, WorkerPublishesState
  <2>5. QED
    BY <1>1, <2>1, <2>2, <2>3, <2>4 DEF Worker
<1>2. CASE Settler
  <2>1. CASE SettlerPreempts \/ SettlerCancels \/ SettlerReleases
    BY <2>1, TwoHolders
       DEF SettlerPreempts, SettlerCancels, SettlerReleases, Next
  <2>2. CASE AllRefreshed \/ CheckBeforeRead \/ CheckBeforeState
    BY <2>2 DEF AllRefreshed, CheckBeforeRead, CheckBeforeState
  <2>3. ASSUME NEW due \in SUBSET Registers, TakeDue(due)
        PROVE  UNCHANGED gateVars
    BY <2>3 DEF TakeDue
  <2>4. ASSUME NEW entry \in settler.ready, StartRefresh(entry)
        PROVE  UNCHANGED gateVars
    BY <2>4 DEF StartRefresh
  <2>5. ASSUME NEW ok \in BOOLEAN,
               \/ Reread(ok)
               \/ SettlerPublishesReading(ok) \/ SettlerPublishesState(ok)
        PROVE  UNCHANGED gateVars
    BY <2>5 DEF Reread, SettlerPublishesReading, SettlerPublishesState
  <2>6. QED
    BY <1>2, <2>1, <2>2, <2>3, <2>4, <2>5 DEF Settler
<1>3. CASE Poller
  <2>1. CASE PollBegins \/ PollEnds \/ PollDeregisters
    BY <2>1 DEF PollBegins, PollEnds, PollDeregisters, Next
  <2>2. CASE PollProceeds \/ PollPreempted
    BY <2>2 DEF PollProceeds, PollPreempted
  <2>3. ASSUME NEW r \in Registers, NEW ok \in BOOLEAN, PollReads(r, ok)
        PROVE  UNCHANGED gateVars
    BY <2>3 DEF PollReads
  <2>4. ASSUME NEW r \in Registers, PollStartsPublish(r)
        PROVE  UNCHANGED gateVars
    BY <2>4 DEF PollStartsPublish
  <2>5. ASSUME NEW ok \in BOOLEAN, PollLands(ok)
        PROVE  UNCHANGED gateVars
    BY <2>5 DEF PollLands
  <2>6. QED
    BY <1>3, <2>1, <2>2, <2>3, <2>4, <2>5 DEF Poller
<1>4. CASE GateClock
  BY <1>4 DEF GateClock, Next
<1>5. ASSUME NEW r \in Registers, UnitApplies(r) \/ WindowCloses(r)
      PROVE  UNCHANGED gateVars
  BY <1>5 DEF UnitApplies, WindowCloses
<1>6. ASSUME NEW r \in Registers, NEW v \in Values, UnitDrifts(r, v)
      PROVE  UNCHANGED gateVars
  BY <1>6 DEF UnitDrifts
<1>7. ASSUME NEW c \in Commands, Deliver(c)
      PROVE  UNCHANGED gateVars
  BY <1>7 DEF Deliver
<1>8. CASE UNCHANGED vars
  BY <1>8 DEF vars
<1>9. QED
  BY <1>1, <1>2, <1>3, <1>4, <1>5, <1>6, <1>7, <1>8 DEF GatewayNext

(***************************************************************************)
(* The gate keeps its promises among the goroutines that use it: what is   *)
(* proved of every behaviour of ReadGate holds in every behaviour of the   *)
(* gateway (Preempt, Release and TryBeginCycle have no other callers).     *)
(***************************************************************************)
THEOREM GatewayKeepsGate == GatewaySpec => Spec
<1>1. GatewayInit => Init
  BY DEF GatewayInit
<1>2. [GatewayNext]_vars => [Next]_gateVars
  BY GateStep
<1>3. QED
  BY <1>1, <1>2, PTL DEF GatewaySpec, Spec

\* The types and the gate's own invariant hold throughout.
LEMMA GatewayTypes == GatewaySpec => [](Types /\ IInv)
<1>1. GatewaySpec => []Types
  <2>1. Types /\ [GatewayNext]_vars => Types'
    BY TypesStep
  <2>2. QED
    BY TypesInit, <2>1, PTL DEF GatewaySpec
<1>2. QED
  BY <1>1, GatewayKeepsGate, Invariance, PTL
-----------------------------------------------------------------------------
\* Neither goroutine keeps the gate, and neither enters it twice.
LEMMA NoHoldLeaksStep ==
  ASSUME Types, TypeOK, NoHoldLeaks, [GatewayNext]_vars
  PROVE  NoHoldLeaks'
<1> USE TwoHolders
    DEF NoHoldLeaks, TypeOK, Types, WorkerType, SettlerType, WorkerPcs,
        SettlerPcs, WorkerAt, SettlerAt
<1>1. CASE Worker
  <2>1. CASE WorkerPreempts
    BY <2>1 DEF WorkerPreempts, Preempt
  <2>2. CASE WorkerCancels
    BY <2>2 DEF WorkerCancels, FireCancel
  <2>3. CASE WorkerReleases
    BY <2>3 DEF WorkerReleases, Release, IdleWorker
  <2>4. CASE TakeCommand
    BY <2>4 DEF TakeCommand, gateVars
  <2>5. CASE CountCommand \/ ReadBack \/ ScheduleReread
    BY <2>5 DEF CountCommand, ReadBack, ScheduleReread, gateVars
  <2>6. ASSUME NEW takes \in BOOLEAN, SendCommand(takes) \/ SendFails(takes)
        PROVE  NoHoldLeaks'
    BY <2>6 DEF SendCommand, SendFails, gateVars
  <2>7. ASSUME NEW ok \in BOOLEAN,
               \/ ReadBackFails(ok)
               \/ WorkerPublishesReading(ok) \/ WorkerPublishesState(ok)
        PROVE  NoHoldLeaks'
    BY ZenonT(60), <2>7
       DEF ReadBackFails, WorkerPublishesReading, WorkerPublishesState,
           Judged, gateVars
  <2>8. QED
    BY <1>1, <2>1, <2>2, <2>3, <2>4, <2>5, <2>6, <2>7 DEF Worker
<1>2. CASE Settler
  <2>1. CASE SettlerPreempts
    BY <2>1 DEF SettlerPreempts, Preempt
  <2>2. CASE SettlerCancels
    BY <2>2 DEF SettlerCancels, FireCancel
  <2>3. CASE SettlerReleases
    BY <2>3 DEF SettlerReleases, Release, IdleSettler
  <2>4. CASE AllRefreshed \/ CheckBeforeRead \/ CheckBeforeState
    BY <2>4 DEF AllRefreshed, CheckBeforeRead, CheckBeforeState, IdleSettler,
                gateVars
  <2>5. ASSUME NEW due \in SUBSET Registers, TakeDue(due)
        PROVE  NoHoldLeaks'
    BY <2>5 DEF TakeDue, gateVars
  <2>6. ASSUME NEW entry \in settler.ready, StartRefresh(entry)
        PROVE  NoHoldLeaks'
    BY <2>6 DEF StartRefresh, gateVars
  <2>7. ASSUME NEW ok \in BOOLEAN,
               \/ Reread(ok)
               \/ SettlerPublishesReading(ok) \/ SettlerPublishesState(ok)
        PROVE  NoHoldLeaks'
    BY <2>7 DEF Reread, SettlerPublishesReading, SettlerPublishesState, gateVars
  <2>8. QED
    BY <1>2, <2>1, <2>2, <2>3, <2>4, <2>5, <2>6, <2>7 DEF Settler
<1>3. ASSUME UNCHANGED <<worker, settler, hpc>>
      PROVE  NoHoldLeaks'
  BY <1>3
<1>4. QED
  BY <1>1, <1>2, <1>3, PollerApart, SurroundingsApart

(***************************************************************************)
(* "The gate is released on every exit path" of a command and of a         *)
(* re-read, in every behaviour (HandleMessage, refreshIfCurrent).          *)
(***************************************************************************)
THEOREM GateNeverLeaks == GatewaySpec => []NoHoldLeaks
<1>1. GatewayInit => NoHoldLeaks
  BY TwoHolders DEF GatewayInit, Init, NoHoldLeaks, IdleWorker, IdleSettler
<1>2. Types /\ IInv /\ NoHoldLeaks /\ [GatewayNext]_vars => NoHoldLeaks'
  BY NoHoldLeaksStep DEF IInv
<1>3. QED
  BY <1>1, <1>2, GatewayTypes, PTL DEF GatewaySpec
-----------------------------------------------------------------------------
(***************************************************************************)
(* Why no re-read is lost.  A command under way still carries the newest   *)
(* sequence number of its register; once it is done, somebody else does.   *)
(* The settler's entry is never newer than the register's last command nor *)
(* older than the register's last re-read.                                 *)
(***************************************************************************)
Underway == {"send", "readBack", "publishReading", "publishState", "schedule"}
AtWork(r) == worker.pc \in Underway /\ worker.reg = r

NewestCarried == worker.pc \in Underway => worker.seq = writeSeq[worker.reg]

Carried(r) ==
  \/ writeSeq[r] = 0
  \/ pending[r] = writeSeq[r]
  \/ <<r, writeSeq[r]>> \in settler.ready
  \/ settler.reg = r /\ settler.seq = writeSeq[r]
  \/ reread[r] = writeSeq[r]

SettlerEmpty ==
  /\ settler.pc = "idle" => settler.ready = {}
  /\ settler.pc \in {"idle", "next"} => settler.reg = NoRegister

RereadBehind ==
  /\ \A r \in Registers : reread[r] <= writeSeq[r]
  /\ settler.pc \notin {"idle", "next"} =>
       /\ reread[settler.reg] <= settler.seq
       /\ settler.seq <= writeSeq[settler.reg]

RereadInv ==
  /\ NewestCarried
  /\ \A r \in Registers : AtWork(r) \/ Carried(r)
  /\ SettlerEmpty
  /\ RereadBehind

\* A step of the worker costs no register its re-read.
LEMMA WorkerKeepsRereads ==
  ASSUME Types, RereadInv, Worker
  PROVE  RereadInv'
<1> USE DEF RereadInv, NewestCarried, AtWork, Carried, SettlerEmpty,
            RereadBehind, Types, WriterTypes, WorkerType, SettlerType,
            RegistersInHand, Underway, WorkerAt, writes, settling
<1>1. CASE CountCommand
  <2>1. /\ worker.reg \in Registers
        /\ writeSeq' = [writeSeq EXCEPT ![worker.reg] = @ + 1]
        /\ worker'.pc = "send" /\ worker'.reg = worker.reg
        /\ worker'.seq = writeSeq'[worker.reg]
        /\ worker.pc = "count"
        /\ UNCHANGED <<settler, pending, reread>>
    BY <1>1 DEF CountCommand
  <2>2. \A r \in Registers : writeSeq[r] <= writeSeq'[r]
    BY <2>1
  <2>3. \A r \in Registers : r # worker.reg => Carried(r)'
    BY <2>1
  <2>4. RereadBehind'
    BY <2>1, <2>2
  <2> QED
    BY <2>1, <2>3, <2>4
<1>2. CASE ScheduleReread
  BY <1>2 DEF ScheduleReread
<1>3. CASE WorkerReleases
  BY <1>3 DEF WorkerReleases, IdleWorker
<1>4. CASE TakeCommand
  BY <1>4 DEF TakeCommand
<1>5. CASE WorkerPreempts \/ WorkerCancels \/ ReadBack
  <2>1. CASE WorkerPreempts
    BY SMTT(30), <2>1 DEF WorkerPreempts
  <2>2. CASE WorkerCancels
    BY SMTT(30), <2>2 DEF WorkerCancels
  <2>3. CASE ReadBack
    BY SMTT(30), <2>3 DEF ReadBack
  <2>4. QED
    BY <1>5, <2>1, <2>2, <2>3
<1>6. ASSUME NEW takes \in BOOLEAN, SendCommand(takes) \/ SendFails(takes)
      PROVE  RereadInv'
  BY ZenonT(60), <1>6 DEF SendCommand, SendFails
<1>7. ASSUME NEW ok \in BOOLEAN,
             \/ ReadBackFails(ok)
             \/ WorkerPublishesReading(ok) \/ WorkerPublishesState(ok)
      PROVE  RereadInv'
  <2>1. /\ worker'.pc \in {"send", "publishState", "schedule"}
        /\ worker'.reg = worker.reg /\ worker'.seq = worker.seq
    BY ZenonT(60), <1>7
       DEF ReadBackFails, WorkerPublishesReading, WorkerPublishesState,
           Judged
  <2>2. /\ worker.pc \in Underway
        /\ UNCHANGED <<writeSeq, pending, reread, settler>>
    BY <1>7
       DEF ReadBackFails, WorkerPublishesReading, WorkerPublishesState
  <2>3. QED
    BY <2>1, <2>2
<1>8. QED
  BY <1>1, <1>2, <1>3, <1>4, <1>5, <1>6, <1>7 DEF Worker

\* A step of the settler costs no register its re-read.
LEMMA SettlerKeepsRereads ==
  ASSUME Types, RereadInv, Settler
  PROVE  RereadInv'
<1> USE NoRegisterIsNone
    DEF RereadInv, NewestCarried, AtWork, Carried, SettlerEmpty,
        RereadBehind, Types, WriterTypes, WorkerType, SettlerType,
        RegistersInHand, Underway, SettlerAt, writes, settling
<1>1. ASSUME NEW due \in SUBSET Registers, TakeDue(due)
      PROVE  RereadInv'
  <2>1. \A r \in Registers : Carried(r) => Carried(r)'
    BY <1>1 DEF TakeDue
  <2>2. NewestCarried' /\ SettlerEmpty' /\ RereadBehind'
    BY <1>1 DEF TakeDue
  <2>3. QED
    BY <1>1, <2>1, <2>2 DEF TakeDue
<1>2. ASSUME NEW entry \in settler.ready, StartRefresh(entry)
      PROVE  RereadInv'
  <2>1. /\ entry[1] \in Registers /\ entry[2] \in Nat
        /\ entry = <<entry[1], entry[2]>>
    BY <1>2
  <2>2. \A r \in Registers : Carried(r) => Carried(r)'
    BY <1>2, <2>1 DEF StartRefresh
  <2>3. NewestCarried' /\ SettlerEmpty' /\ RereadBehind'
    BY <1>2, <2>1 DEF StartRefresh
  <2>4. QED
    BY <1>2, <2>2, <2>3 DEF StartRefresh
<1>3. CASE AllRefreshed
  BY <1>3 DEF AllRefreshed, IdleSettler
<1>4. CASE SettlerReleases
  <2>1. \A r \in Registers : Carried(r) => Carried(r)'
    BY <1>4 DEF SettlerReleases, IdleSettler
  <2>2. NewestCarried' /\ SettlerEmpty' /\ RereadBehind'
    BY <1>4 DEF SettlerReleases, IdleSettler
  <2>3. QED
    BY <1>4, <2>1, <2>2 DEF SettlerReleases
<1>5. CASE SettlerPreempts \/ SettlerCancels \/ CheckBeforeRead \/ CheckBeforeState
  <2>1. CASE SettlerPreempts \/ SettlerCancels
    BY ZenonT(60), <2>1 DEF SettlerPreempts, SettlerCancels
  <2>2. CASE CheckBeforeRead \/ CheckBeforeState
    BY ZenonT(60), <2>2 DEF CheckBeforeRead, CheckBeforeState
  <2>3. QED
    BY <1>5, <2>1, <2>2
<1>6. ASSUME NEW ok \in BOOLEAN,
             \/ Reread(ok)
             \/ SettlerPublishesReading(ok) \/ SettlerPublishesState(ok)
      PROVE  RereadInv'
  <2>1. CASE Reread(ok)
    BY SMTT(30), <2>1 DEF Reread
  <2>2. CASE SettlerPublishesReading(ok) \/ SettlerPublishesState(ok)
    BY ZenonT(60), <2>2 DEF SettlerPublishesReading, SettlerPublishesState
  <2>3. QED
    BY <1>6, <2>1, <2>2
<1>7. QED
  BY <1>1, <1>2, <1>3, <1>4, <1>5, <1>6 DEF Settler

\* The invariant behind RereadOwed holds throughout.
LEMMA Rereads == GatewaySpec => []RereadInv
<1>1. GatewayInit => RereadInv
  BY DEF GatewayInit, RereadInv, NewestCarried, Carried, SettlerEmpty,
         RereadBehind, IdleWorker, IdleSettler, Underway
<1>2. Types /\ RereadInv /\ [GatewayNext]_vars => RereadInv'
  <2> SUFFICES ASSUME Types, RereadInv, [GatewayNext]_vars
               PROVE  RereadInv'
    OBVIOUS
  <2>1. ASSUME UNCHANGED <<worker, settler, writeSeq, pending, reread>>
        PROVE  RereadInv'
    BY <2>1 DEF RereadInv, NewestCarried, AtWork, Carried, SettlerEmpty,
                RereadBehind
  <2>2. QED
    BY <2>1, WorkerKeepsRereads, SettlerKeepsRereads, PollerApart,
       SurroundingsApart DEF writes, settling
<1>3. QED
  BY <1>1, <1>2, GatewayTypes, PTL DEF GatewaySpec

(***************************************************************************)
(* Whatever the outcome of a command, its register's newest sequence       *)
(* number is still to be re-read, or has been: a superseded re-read never  *)
(* costs the newest one its turn (HandleMessage, schedule, due).           *)
(***************************************************************************)
THEOREM NoRereadLost == GatewaySpec => []RereadOwed
<1>1. RereadInv => RereadOwed
  BY DEF RereadInv, AtWork, Carried, RereadOwed
<1>2. QED
  BY <1>1, Rereads, PTL
-----------------------------------------------------------------------------
(***************************************************************************)
(* Where a value on its way to a state topic comes from: whoever holds one *)
(* has read it from the unit.                                              *)
(***************************************************************************)
ReportedInv ==
  /\ \A r \in Registers : held[r] \in everHeld[r]
  /\ OnlyReportedState
  /\ worker.pc \in {"publishReading", "publishState"} =>
       worker.actual \in everHeld[worker.reg] \cup {NoValue}
  /\ settler.pc \in {"publishReading", "recheck", "publishState"} =>
       settler.actual \in everHeld[settler.reg]
  /\ \A r \in Registers : poller.snap[r] \in everHeld[r] \cup {NoValue}

\* The goroutines only pass on what they have read.
LEMMA ReportedStep ==
  ASSUME Types, ReportedInv, [GatewayNext]_vars
  PROVE  ReportedInv'
<1> USE SomeReadable
    DEF ReportedInv, OnlyReportedState, Types, UnitTypes, TopicTypes, WorkerType,
        SettlerType, PollerType, RegistersInHand, WorkerAt,
        SettlerAt, PollerAt, device, topics
<1>1. CASE Worker
  <2>1. CASE TakeCommand \/ ReadBack
    BY <2>1 DEF TakeCommand, ReadBack
  <2>2. CASE WorkerPreempts \/ WorkerCancels \/ CountCommand \/ ScheduleReread
    BY ZenonT(60), <2>2
       DEF WorkerPreempts, WorkerCancels, CountCommand, ScheduleReread
  <2>3. CASE WorkerReleases
    BY <2>3 DEF WorkerReleases, IdleWorker
  <2>4. ASSUME NEW takes \in BOOLEAN, SendCommand(takes) \/ SendFails(takes)
        PROVE  ReportedInv'
    BY <2>4 DEF SendCommand, SendFails, UnitTold
  <2>5. ASSUME NEW confirmed \in BOOLEAN, ReadBackFails(confirmed)
        PROVE  ReportedInv'
    <3>1. worker'.actual = NoValue
      BY <2>5 DEF ReadBackFails, Judged
    <3>2. QED
      BY <2>5, <3>1 DEF ReadBackFails
  <2>6. ASSUME NEW ok \in BOOLEAN, WorkerPublishesReading(ok)
        PROVE  ReportedInv'
    <3>1. worker'.actual = worker.actual /\ worker'.reg = worker.reg
      BY <2>6 DEF WorkerPublishesReading, Judged
    <3>2. QED
      BY <2>6, <3>1 DEF WorkerPublishesReading
  <2>7. ASSUME NEW ok \in BOOLEAN, WorkerPublishesState(ok)
        PROVE  ReportedInv'
    BY <2>7 DEF WorkerPublishesState, Published
  <2>8. QED
    BY <1>1, <2>1, <2>2, <2>3, <2>4, <2>5, <2>6, <2>7 DEF Worker
<1>2. CASE Settler
  <2>1. CASE AllRefreshed \/ SettlerReleases
    <3>1. AllRefreshed => settler'.pc = "idle"
      BY DEF AllRefreshed, IdleSettler
    <3>2. SettlerReleases => settler'.pc = "next"
      BY DEF SettlerReleases, IdleSettler
    <3>3. UNCHANGED <<device, topics, worker, poller>>
      BY <2>1 DEF AllRefreshed, SettlerReleases
    <3>4. QED
      BY <2>1, <3>1, <3>2, <3>3
  <2>2. CASE SettlerPreempts \/ SettlerCancels \/ CheckBeforeRead \/ CheckBeforeState
    BY <2>2 DEF SettlerPreempts, SettlerCancels, CheckBeforeRead, CheckBeforeState
  <2>3. ASSUME NEW due \in SUBSET Registers, TakeDue(due)
        PROVE  ReportedInv'
    BY <2>3 DEF TakeDue
  <2>4. ASSUME NEW entry \in settler.ready, StartRefresh(entry)
        PROVE  ReportedInv'
    BY <2>4 DEF StartRefresh
  <2>5. ASSUME NEW ok \in BOOLEAN, Reread(ok) \/ SettlerPublishesReading(ok)
        PROVE  ReportedInv'
    BY <2>5 DEF Reread, SettlerPublishesReading
  <2>6. ASSUME NEW ok \in BOOLEAN, SettlerPublishesState(ok)
        PROVE  ReportedInv'
    BY <2>6 DEF SettlerPublishesState, Published
  <2>7. QED
    BY <1>2, <2>1, <2>2, <2>3, <2>4, <2>5, <2>6 DEF Settler
<1>3. CASE Poller
  <2>1. CASE PollBegins \/ PollProceeds \/ PollPreempted \/ PollEnds
    BY <2>1 DEF PollBegins, PollProceeds, PollPreempted, PollEnds
  <2>2. CASE PollDeregisters
    BY <2>2 DEF PollDeregisters, IdlePoller
  <2>3. ASSUME NEW r \in Registers, NEW ok \in BOOLEAN, PollReads(r, ok)
        PROVE  ReportedInv'
    BY <2>3 DEF PollReads
  <2>4. ASSUME NEW r \in Registers, PollStartsPublish(r)
        PROVE  ReportedInv'
    BY <2>4 DEF PollStartsPublish
  <2>5. ASSUME NEW ok \in BOOLEAN, PollLands(ok)
        PROVE  ReportedInv'
    <3>1. poller.flight \in Registers /\ poller'.snap = poller.snap
      BY <2>5 DEF PollLands
    <3>2. OnlyReportedState'
      BY <2>5, <3>1 DEF PollLands, Published
    <3>3. QED
      BY <2>5, <3>1, <3>2 DEF PollLands
  <2>6. QED
    BY <1>3, <2>1, <2>2, <2>3, <2>4, <2>5 DEF Poller
<1>4. CASE GateClock
  BY <1>4 DEF GateClock
<1>5. ASSUME NEW r \in Registers, UnitApplies(r)
      PROVE  ReportedInv'
  <2>1. \A x \in Registers : everHeld[x] \subseteq everHeld'[x]
    BY <1>5 DEF UnitApplies, Shows
  <2>2. \A x \in Registers : held'[x] \in everHeld'[x]
    BY <1>5 DEF UnitApplies, Shows
  <2>3. QED
    BY <1>5, <2>1, <2>2 DEF UnitApplies
<1>6. ASSUME NEW r \in Registers, NEW v \in Values, UnitDrifts(r, v)
      PROVE  ReportedInv'
  <2>1. \A x \in Registers : everHeld[x] \subseteq everHeld'[x]
    BY <1>6 DEF UnitDrifts, Shows
  <2>2. \A x \in Registers : held'[x] \in everHeld'[x]
    BY <1>6 DEF UnitDrifts, Shows
  <2>3. QED
    BY <1>6, <2>1, <2>2 DEF UnitDrifts
<1>7. ASSUME NEW r \in Registers, WindowCloses(r)
      PROVE  ReportedInv'
  BY <1>7 DEF WindowCloses
<1>8. ASSUME NEW c \in Commands, Deliver(c)
      PROVE  ReportedInv'
  BY <1>8 DEF Deliver
<1>9. CASE UNCHANGED vars
  BY <1>9 DEF vars
<1>10. QED
  BY <1>1, <1>2, <1>3, <1>4, <1>5, <1>6, <1>7, <1>8, <1>9 DEF GatewayNext

(***************************************************************************)
(* No state topic ever shows a value the unit has not reported (verify,    *)
(* publishState, publishWriteRegisterState).                               *)
(***************************************************************************)
THEOREM StateAlwaysReported == GatewaySpec => []OnlyReportedState
<1>1. GatewayInit => ReportedInv
  BY SomeReadable
     DEF GatewayInit, ReportedInv, OnlyReportedState, IdleWorker, IdleSettler,
         IdlePoller
<1>2. Types /\ ReportedInv /\ [GatewayNext]_vars => ReportedInv'
  BY ReportedStep
<1>3. ReportedInv => OnlyReportedState
  BY DEF ReportedInv
<1>4. QED
  BY <1>1, <1>2, <1>3, GatewayTypes, PTL DEF GatewaySpec
-----------------------------------------------------------------------------
\* The poll loop is in a cycle of the gate's from TryBeginCycle to the
\* cancel at the head of the clean-up.
PollerInCycle ==
  poller.pc \in {"read", "readings", "states", "end"} => cycle = "running"

\* The poll loop begins and ends with the cycle of the gate.
LEMMA PollerInCycleStep ==
  ASSUME Types, PollerInCycle, [GatewayNext]_vars
  PROVE  PollerInCycle'
<1> USE DEF PollerInCycle, Types, PollerType, PollerPcs, PollerAt, gateVars
<1>1. CASE Poller
  <2>1. CASE PollBegins
    BY <2>1 DEF PollBegins, BeginCycle
  <2>2. CASE PollEnds
    BY <2>2 DEF PollEnds
  <2>3. CASE PollDeregisters
    BY <2>3 DEF PollDeregisters, IdlePoller
  <2>4. CASE PollProceeds \/ PollPreempted
    BY <2>4 DEF PollProceeds, PollPreempted, NextPhase
  <2>5. ASSUME NEW r \in Registers, NEW ok \in BOOLEAN, PollReads(r, ok)
        PROVE  PollerInCycle'
    BY <2>5 DEF PollReads
  <2>6. ASSUME NEW r \in Registers, PollStartsPublish(r)
        PROVE  PollerInCycle'
    BY <2>6 DEF PollStartsPublish
  <2>7. ASSUME NEW ok \in BOOLEAN, PollLands(ok)
        PROVE  PollerInCycle'
    BY <2>7 DEF PollLands
  <2>8. QED
    BY <1>1, <2>1, <2>2, <2>3, <2>4, <2>5, <2>6, <2>7 DEF Poller
<1>2. ASSUME UNCHANGED <<poller, cycle>>
      PROVE  PollerInCycle'
  BY <1>2
<1>3. QED
  BY <1>1, <1>2, WorkerApart, SettlerApart, SurroundingsApart

(***************************************************************************)
(* While a command's or re-read's window is open the poll cycle puts no    *)
(* exchange on the wire and starts no publish, unless the cycle's cancel   *)
(* function has been taken and is about to be called (RunCycle, ReadAll,   *)
(* PublishAll, Preempt).                                                   *)
(***************************************************************************)
THEOREM WritesHavePriority == GatewaySpec => WriteHasPriority
<1>1. GatewayInit => PollerInCycle
  BY DEF GatewayInit, PollerInCycle, IdlePoller
<1>2. Types /\ PollerInCycle /\ [GatewayNext]_vars => PollerInCycle'
  BY PollerInCycleStep
<1>3. ASSUME IInv, PollerInCycle, PollActs
      PROVE  \/ \A h \in Holders : hpc[h] = "in" => window[h] = 0
             \/ \E h \in Holders : hpc[h] = "preempting" /\ taken[h]
  <2>1. cycle = "running" /\ ~ctxDone
    BY <1>3 DEF PollActs, PollReads, PollStartsPublish, PollerAt, PollerInCycle
  <2>2. CycleYieldsToHold
    BY <1>3 DEF IInv, TypeOK, CancelSomewhere, CycleYieldsToHold
  <2>3. \A h \in Holders : window[h] > 0 \/ window[h] = 0
    BY <1>3 DEF IInv, TypeOK
  <2>4. QED
    BY <2>1, <2>2, <2>3 DEF CycleYieldsToHold
<1>4. QED
  BY <1>1, <1>2, <1>3, GatewayTypes, PTL DEF GatewaySpec, WriteHasPriority
-----------------------------------------------------------------------------
(***************************************************************************)
(* What is remembered against redeliveries.  While the worker is sending   *)
(* or verifying a command for a register, that register's entry is its own *)
(* business: it is the command's value, or the window has closed.          *)
(***************************************************************************)
Verifying == worker.pc \in {"readBack", "publishReading", "publishState"}
Deciding(r) == worker.reg = r /\ (worker.pc = "send" \/ Verifying)
Confirmed(v) == [val |-> v, verdict |-> "confirmed"]

OutcomeType == outcome \in [Registers -> [val : Reported, verdict : Verdicts]]
OwnEntry ==
  Verifying => lastCommand[worker.reg] \in {NoValue, worker.val}
EntryConfirmed(r) ==
  \/ lastCommand[r] = NoValue
  \/ outcome[r].verdict = "unsent"
  \/ outcome[r] = Confirmed(lastCommand[r])
Remembered ==
  /\ OutcomeType
  /\ OwnEntry
  /\ \A r \in Registers : Deciding(r) \/ EntryConfirmed(r)

LEMMA EndsWith ==
  ASSUME Types, OutcomeType, worker.pc # "idle", NEW verdict \in Verdicts,
         Ends(verdict)
  PROVE  /\ OutcomeType'
         /\ outcome'[worker.reg] = [val |-> worker.val, verdict |-> verdict]
         /\ \A r \in Registers \ {worker.reg} : outcome'[r] = outcome[r]
<1>1. worker.reg \in Registers /\ worker.val \in Reported
  BY DEF Types, RegistersInHand, WorkerType, Reported
<1>2. [val |-> worker.val, verdict |-> verdict]
        \in [val : Reported, verdict : Verdicts]
  BY <1>1
<1>3. QED
  BY <1>1, <1>2 DEF Ends, OutcomeType

\* A command that is not confirmed is forgotten, unless a send failed.
LEMMA RememberedByWorker ==
  ASSUME Types, Remembered, Worker
  PROVE  Remembered'
<1> USE DEF Remembered, OwnEntry, Verifying, Deciding, WorkerAt
<1>1. /\ lastCommand \in [Registers -> Reported] /\ OutcomeType
      /\ worker.pc # "idle" => worker.reg \in Registers /\ worker.val \in Values
      /\ WorkerType
  BY DEF Types, WriterTypes, RegistersInHand
<1>2. CASE TakeCommand \/ WorkerPreempts \/ WorkerCancels \/ CountCommand
  <2>1. /\ UNCHANGED <<lastCommand, outcome>>
        /\ \/ worker'.pc \in {"cancel", "count"}
           \/ worker'.pc = "preempt" \/ worker' = worker
           \/ worker'.pc = "send"
        /\ worker.pc \in {"idle", "preempt", "cancel", "count"}
    BY <1>1, <1>2 DEF TakeCommand, WorkerPreempts, WorkerCancels, CountCommand,
                      writes, WorkerType
  <2>2. \A r \in Registers : EntryConfirmed(r)
    BY <2>1
  <2>3. \A r \in Registers : EntryConfirmed(r)'
    BY <2>1, <2>2 DEF EntryConfirmed
  <2>4. QED
    BY <1>1, <2>1, <2>3 DEF OutcomeType
<1>3. ASSUME NEW takes \in BOOLEAN, SendCommand(takes)
      PROVE  Remembered'
  <2>1. /\ lastCommand' = [lastCommand EXCEPT ![worker.reg] = worker.val]
        /\ outcome' = outcome /\ worker.pc = "send"
        /\ worker'.pc = "readBack" /\ worker'.reg = worker.reg
        /\ worker'.val = worker.val
    BY <1>1, <1>3 DEF SendCommand, WorkerType
  <2>2. \A r \in Registers \ {worker.reg} : EntryConfirmed(r)'
    BY <1>1, <2>1 DEF EntryConfirmed
  <2>3. QED
    BY <1>1, <2>1, <2>2 DEF OutcomeType
<1>4. ASSUME NEW takes \in BOOLEAN, SendFails(takes)
      PROVE  Remembered'
  <2>1. /\ lastCommand' = lastCommand /\ worker.pc = "send"
        /\ worker'.pc = "schedule" /\ Ends("unsent")
    BY <1>1, <1>4 DEF SendFails, WorkerType
  <2>2. "unsent" \in Verdicts
    BY DEF Verdicts
  <2>3. /\ OutcomeType'
        /\ outcome'[worker.reg] = [val |-> worker.val, verdict |-> "unsent"]
        /\ \A r \in Registers \ {worker.reg} : outcome'[r] = outcome[r]
    BY <1>1, <2>1, <2>2, EndsWith
  <2>4. outcome'[worker.reg].verdict = "unsent"
    BY <2>3
  <2>5. \A r \in Registers : EntryConfirmed(r)'
    BY <2>1, <2>3, <2>4 DEF EntryConfirmed
  <2>6. QED
    BY <2>1, <2>3, <2>5
<1>5. ASSUME NEW ok \in BOOLEAN,
             ReadBack \/ ReadBackFails(ok) \/ WorkerPublishesReading(ok)
      PROVE  Remembered'
  <2>1. UNCHANGED <<lastCommand, outcome>> /\ Verifying
    BY <1>5 DEF ReadBack, ReadBackFails, WorkerPublishesReading, writes
  <2>2. /\ worker'.pc \in {"publishReading", "publishState", "send"}
        /\ worker'.reg = worker.reg /\ worker'.val = worker.val
    BY <1>1, <1>5
       DEF ReadBack, ReadBackFails, WorkerPublishesReading, Judged, WorkerType
  <2>3. \A r \in Registers : EntryConfirmed(r) => EntryConfirmed(r)'
    BY <2>1 DEF EntryConfirmed
  <2>4. QED
    BY <1>1, <2>1, <2>2, <2>3 DEF OutcomeType
<1>6. ASSUME NEW ok \in BOOLEAN, WorkerPublishesState(ok)
      PROVE  Remembered'
  <2>1. /\ worker.pc = "publishState" /\ Ends(Verdict)
        /\ worker'.pc = "schedule"
        /\ lastCommand' =
             IF worker.err /\ lastCommand[worker.reg] = worker.val
             THEN [lastCommand EXCEPT ![worker.reg] = NoValue]
             ELSE lastCommand
    BY <1>1, <1>6 DEF WorkerPublishesState, WorkerType
  <2>2. /\ Verdict \in Verdicts
        /\ Verdict = IF worker.err THEN "doubted" ELSE "confirmed"
    BY DEF Verdict, Verdicts
  <2>3. /\ OutcomeType'
        /\ outcome'[worker.reg] = [val |-> worker.val, verdict |-> Verdict]
        /\ \A r \in Registers \ {worker.reg} : outcome'[r] = outcome[r]
    BY <1>1, <2>1, <2>2, EndsWith
  <2>4. lastCommand[worker.reg] \in {NoValue, worker.val}
    BY <2>1
  <2>5. ASSUME NEW r \in Registers
        PROVE  EntryConfirmed(r)'
    <3>1. CASE r = worker.reg /\ worker.err
      <4>1. lastCommand'[r] = NoValue
        BY <1>1, <2>1, <2>4, <3>1
      <4>2. QED
        BY <4>1 DEF EntryConfirmed
    <3>2. CASE r = worker.reg /\ ~worker.err
      <4>1. /\ lastCommand' = lastCommand
            /\ outcome'[r] = Confirmed(worker.val)
        BY <2>1, <2>2, <2>3, <3>2 DEF Confirmed
      <4>2. QED
        BY <2>4, <3>2, <4>1 DEF EntryConfirmed
    <3>3. CASE r # worker.reg
      <4>1. lastCommand'[r] = lastCommand[r] /\ outcome'[r] = outcome[r]
        BY <1>1, <2>1, <2>3, <3>3
      <4>2. EntryConfirmed(r)
        BY <3>3
      <4>3. QED
        BY <4>1, <4>2 DEF EntryConfirmed
    <3>4. QED
      BY <3>1, <3>2, <3>3
  <2>6. QED
    BY <2>1, <2>3, <2>5
<1>7. CASE ScheduleReread \/ WorkerReleases
  <2>1. /\ UNCHANGED <<lastCommand, outcome>>
        /\ worker.pc \in {"schedule", "release"}
        /\ worker'.pc \in {"release", "idle"}
    BY <1>1, <1>7
       DEF ScheduleReread, WorkerReleases, IdleWorker, writes, WorkerType
  <2>2. \A r \in Registers : EntryConfirmed(r)'
    BY <2>1 DEF EntryConfirmed
  <2>3. QED
    BY <1>1, <2>1, <2>2 DEF OutcomeType
<1>8. QED
  BY <1>2, <1>3, <1>4, <1>5, <1>6, <1>7 DEF Worker

LEMMA RememberedStep ==
  ASSUME Types, Remembered, [GatewayNext]_vars
  PROVE  Remembered'
<1>1. CASE Worker
  BY <1>1, RememberedByWorker
<1>2. ASSUME ~Worker, NEW r \in Registers, WindowCloses(r)
      PROVE  Remembered'
  <2>1. /\ lastCommand' = [lastCommand EXCEPT ![r] = NoValue]
        /\ UNCHANGED <<outcome, worker>>
    BY <1>2 DEF WindowCloses
  <2>2. lastCommand \in [Registers -> Reported]
    BY DEF Types, WriterTypes
  <2>3. \A x \in Registers : EntryConfirmed(x) => EntryConfirmed(x)'
    BY <2>1, <2>2 DEF EntryConfirmed
  <2>4. Verifying => worker.reg \in Registers
    BY DEF Types, RegistersInHand, Verifying
  <2>5. OwnEntry'
    BY <2>1, <2>2, <2>4 DEF Remembered, OwnEntry, Verifying
  <2>6. QED
    BY <2>1, <2>3, <2>5 DEF Remembered, OutcomeType, Deciding, Verifying
<1>3. ASSUME UNCHANGED <<lastCommand, outcome, worker>>
      PROVE  Remembered'
  BY <1>3 DEF Remembered, OutcomeType, OwnEntry, EntryConfirmed, Deciding,
              Verifying
<1>4. CASE Settler \/ Poller
  BY <1>4, <1>3, SettlerApart, PollerApart DEF writes
<1>5. ASSUME NEW r \in Registers, UnitApplies(r)
      PROVE  Remembered'
  BY <1>5, <1>3 DEF UnitApplies, writes
<1>6. ASSUME NEW r \in Registers, NEW v \in Values, UnitDrifts(r, v)
      PROVE  Remembered'
  BY <1>6, <1>3 DEF UnitDrifts, writes
<1>7. ASSUME NEW c \in Commands, Deliver(c)
      PROVE  Remembered'
  BY <1>7, <1>3 DEF Deliver, writes
<1>8. CASE GateClock \/ UNCHANGED vars
  BY <1>8, <1>3 DEF GateClock, vars, writes
<1>9. QED
  BY <1>1, <1>2, <1>4, <1>5, <1>6, <1>7, <1>8 DEF GatewayNext

\* A queue is longer than its tail.
LEMMA TailShorter ==
  ASSUME NEW S, NEW q \in Seq(S), q # <<>>
  PROVE  Tail(q) # q /\ ~(Len(Tail(q)) > Len(q))
<1>1. \A n, m \in Nat : n = m - 1 => n # m /\ ~(n > m)
  OBVIOUS
<1>2. Len(Tail(q)) = Len(q) - 1 /\ Len(q) \in Nat /\ Len(Tail(q)) \in Nat
  OBVIOUS
<1>3. Len(Tail(q)) # Len(q) /\ ~(Len(Tail(q)) > Len(q))
  BY <1>1, <1>2
<1>4. QED
  BY <1>3, Zenon

\* Commands leave the queue only through the worker, which then is idle.
LEMMA OnlyTaken ==
  ASSUME Types, [GatewayNext]_vars, queue # <<>>, queue' = Tail(queue),
         worker.pc = "idle"
  PROVE  TakeCommand
<1> USE DEF Types, WriterTypes
<1>1. SUFFICES ASSUME queue' = queue \/ Len(queue') > Len(queue) \/ TakeCommand
               PROVE  TakeCommand
  <2>1. CASE Worker
    <3>1. ASSUME NEW ok \in BOOLEAN,
                 \/ SendCommand(ok) \/ SendFails(ok) \/ ReadBackFails(ok)
                 \/ WorkerPublishesReading(ok) \/ WorkerPublishesState(ok)
          PROVE  FALSE
      BY <3>1 DEF SendCommand, SendFails, ReadBackFails,
                  WorkerPublishesReading, WorkerPublishesState, WorkerAt
    <3>2. ASSUME \/ WorkerPreempts \/ WorkerCancels \/ CountCommand \/ ReadBack
                 \/ ScheduleReread \/ WorkerReleases
          PROVE  FALSE
      BY <3>2 DEF WorkerPreempts, WorkerCancels, CountCommand, ReadBack,
                  ScheduleReread, WorkerReleases, WorkerAt
    <3>3. QED
      BY <2>1, <3>1, <3>2 DEF Worker
  <2>2. CASE Settler \/ Poller
    BY <2>2, SettlerApart, PollerApart DEF commands
  <2>3. CASE GateClock \/ UNCHANGED vars
    BY <2>3 DEF GateClock, vars, commands
  <2>4. ASSUME NEW r \in Registers, UnitApplies(r) \/ WindowCloses(r)
        PROVE  queue' = queue
    BY <2>4 DEF UnitApplies, WindowCloses, commands
  <2>5. ASSUME NEW r \in Registers, NEW v \in Values, UnitDrifts(r, v)
        PROVE  queue' = queue
    BY <2>5 DEF UnitDrifts, commands
  <2>6. ASSUME NEW c \in Commands, Deliver(c)
        PROVE  queue' = queue \/ Len(queue') > Len(queue)
    BY <2>6 DEF Deliver
  <2>7. QED
    BY <2>1, <2>2, <2>3, <2>4, <2>5, <2>6 DEF GatewayNext
<1>2. queue' # queue /\ ~(Len(queue') > Len(queue))
  BY TailShorter
<1>3. QED
  BY <1>1, <1>2, Zenon

(***************************************************************************)
(* A command is only ever dropped as a redelivery when the last command    *)
(* carried out for its register had its value and was confirmed, or ended  *)
(* with a failed send, from which HandleMessage returns before it forgets  *)
(* (isDuplicate, rememberSent, forgetSent).                                *)
(***************************************************************************)
THEOREM OnlyConfirmedDropped == GatewaySpec => DropsOnlyConfirmed
<1>1. GatewayInit => Remembered
  <2>1. ASSUME GatewayInit
        PROVE  Remembered
    <3>1. /\ outcome = [r \in Registers |-> [val |-> NoValue, verdict |-> "none"]]
          /\ lastCommand = [r \in Registers |-> NoValue]
          /\ worker.pc = "idle"
      BY <2>1 DEF GatewayInit, IdleWorker
    <3>2. [val |-> NoValue, verdict |-> "none"]
            \in [val : Reported, verdict : Verdicts]
      BY DEF Reported, Verdicts
    <3>3. OutcomeType
      BY <3>1, <3>2 DEF OutcomeType
    <3>4. QED
      BY <3>1, <3>3 DEF Remembered, OwnEntry, EntryConfirmed, Verifying
  <2>2. QED
    BY <2>1
<1>2. Types /\ Remembered /\ [GatewayNext]_vars => Remembered'
  BY RememberedStep
<1>3. ASSUME Types, Remembered, [GatewayNext]_vars,
             NEW c \in Commands, DropsDuplicate(c)
      PROVE  \/ outcome[c.reg] = [val |-> c.val, verdict |-> "confirmed"]
             \/ outcome[c.reg].verdict = "unsent"
  <2>1. TakeCommand /\ c = Head(queue) /\ c.val \in Values
    BY <1>3, OnlyTaken DEF DropsDuplicate
  <2>2. ASSUME ~Duplicate(c)
        PROVE  FALSE
    <3>1. worker'.pc = "preempt"
      BY <1>3, <2>1, <2>2 DEF TakeCommand, Types, WorkerType
    <3>2. QED
      BY <1>3, <3>1 DEF DropsDuplicate
  <2>3. lastCommand[c.reg] = c.val /\ c.val # NoValue /\ c.reg \in Registers
    BY <2>1, <2>2, NoValueIsNone DEF Duplicate, Commands
  <2>4. ~Deciding(c.reg)
    BY <1>3 DEF DropsDuplicate, Deciding, Verifying
  <2>5. EntryConfirmed(c.reg)
    BY <1>3, <2>3, <2>4 DEF Remembered
  <2>6. QED
    BY <2>3, <2>5 DEF EntryConfirmed, Confirmed
<1>4. Types /\ Remembered /\ [GatewayNext]_vars =>
        \A c \in Commands : DropsDuplicate(c) =>
          \/ outcome[c.reg] = [val |-> c.val, verdict |-> "confirmed"]
          \/ outcome[c.reg].verdict = "unsent"
  BY <1>3
<1>5. QED
  BY <1>1, <1>2, <1>4, GatewayTypes, PTL DEF GatewaySpec, DropsOnlyConfirmed
=============================================================================
