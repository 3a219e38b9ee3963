---------------------------- MODULE SerialProofs ----------------------------
(***************************************************************************)
(* The safety of internal/serial: of the port's ownership and supervision, *)
(* for any set of clients and any backoff bounds, and of the exchanges on  *)
(* the bus, for any registers, limits and time-outs.                       *)
(***************************************************************************)
EXTENDS SerialPort, BusExchange, SequenceTheorems, WellFoundedInduction, TLAPS

(***************************************************************************)
(* The port.                                                               *)
(***************************************************************************)
\* txMu, the place in a transaction and the session held go together.
Ownership ==
  \A c \in Clients :
    /\ pc[c] \in OnWire <=> txMu = c
    /\ pc[c] \in OnWire => open
    /\ session[c] = IF pc[c] \in OnWire THEN "current" ELSE "none"

\* Who can be doing what before the first open and after the last close.
Phases ==
  /\ main = "opening" =>
       /\ ~open
       /\ sup = "off"
       /\ healthySince = Never
       /\ \A c \in Clients : pc[c] = "idle"
  /\ main = "closed" =>
       /\ ~open
       /\ sup \in {"off", "done"}
       /\ \A c \in Clients : pc[c] \in {"idle", "gone"}

\* The supervisor never believes in more health than there has been.
HealthKnown ==
  /\ sup \in {"reopen", "hold"} => healthySince = Never
  /\ open /\ healthy => healthySince <= upFor

\* What is left of a sleep after an attempt and what has passed since it add up.
Spaced ==
  /\ sup \in {"off", "check", "rest", "reopen"} => sinceReopen >= ReopenBackoff
  /\ sup = "hold" => sinceReopen + timer >= ReopenBackoff

SInv ==
  /\ TypeOK
  /\ Ownership
  /\ Phases
  /\ HealthKnown
  /\ Spaced
  /\ UnhealthyForCause
-----------------------------------------------------------------------------
\* The bounds as the provers want them.
LEMMA Bounds ==
  /\ ReopenBackoff \in Int /\ MaxReopenBackoff \in Int
  /\ ReopenBackoff >= 1 /\ ReopenBackoff <= MaxReopenBackoff
  /\ HealthCheckInterval \in Nat
  /\ Never = -1
BY BackoffOrder, IntervalPositive DEF Never

LEMMA Ranges ==
  /\ 0 \in 0..MaxReopenBackoff
  /\ MaxReopenBackoff \in 0..MaxReopenBackoff
  /\ Never \in Never..MaxReopenBackoff
  /\ 0 \in Never..MaxReopenBackoff
  /\ ReopenBackoff \in ReopenBackoff..MaxReopenBackoff
BY Bounds

LEMMA CountType ==
  ASSUME NEW n \in Int, n >= 0, n <= MaxReopenBackoff
  PROVE  Count(n) \in 0..MaxReopenBackoff /\ Count(n) >= n
BY Bounds DEF Count

\* The actions of the supervisor and of time, with what they all leave alone.
Supervising ==
  \/ SeeHealthy \/ SeeUnhealthy \/ HoldOver \/ RestOver \/ SupervisorEnds
  \/ Tick

\* Transactions are none of the supervisor's business.
LEMMA ClientKeeps ==
  ASSUME NEW c \in Clients, Client(c)
  PROVE  UNCHANGED supervision
<1>1. ASSUME NEW err \in Errors, Fails(c, err)
      PROVE  UNCHANGED supervision
  BY <1>1 DEF Fails, supervision
<1>2. QED
  BY <1>1 DEF Client, Request, Leave, Acquire, Refused, Advance, Succeed,
              ContextEnds, supervision

\* Every step keeps every variable in its type.
LEMMA TypeStep ==
  ASSUME TypeOK, [Next]_vars
  PROVE  TypeOK'
<1> USE Ranges DEF TypeOK, OnWire, port, supervision
<1>1. CASE FirstOpen
  BY <1>1 DEF FirstOpen, Opened
<1>2. CASE NeverOpened \/ Stop
  BY <1>2 DEF NeverOpened, Stop
<1>3. CASE Close
  BY <1>3 DEF Close, NotOpened, DropSessions
<1>4. ASSUME NEW c \in Clients, Client(c)
      PROVE  TypeOK'
  <2>1. CASE Request(c) \/ Leave(c) \/ Refused(c)
    BY <2>1 DEF Request, Leave, Refused
  <2>2. CASE Acquire(c)
    BY <2>2 DEF Acquire
  <2>3. CASE Advance(c)
    BY <2>3 DEF Advance
  <2>4. CASE Succeed(c) \/ ContextEnds(c)
    BY <2>4 DEF Succeed, ContextEnds, Return
  <2>5. ASSUME NEW err \in Errors, Fails(c, err)
        PROVE  TypeOK'
    BY <2>5 DEF Fails, Return
  <2>6. QED
    BY <1>4, <2>1, <2>2, <2>3, <2>4, <2>5 DEF Client
<1>5. CASE SeeHealthy
  BY <1>5, Bounds DEF SeeHealthy
<1>6. CASE SeeUnhealthy
  BY <1>6 DEF SeeUnhealthy
<1>7. CASE HoldOver
  BY <1>7, Bounds DEF HoldOver
<1>8. CASE RestOver \/ SupervisorEnds
  BY <1>8 DEF RestOver, SupervisorEnds
<1>9. ASSUME NEW opened \in BOOLEAN, Reopen(opened)
      PROVE  TypeOK'
  <2>1. timer' \in Nat /\ sinceReopen' \in 0..MaxReopenBackoff
    BY <1>9, Bounds DEF Reopen
  <2>2. session' \in [Clients -> {"none", "current", "stale"}]
    BY <1>9 DEF Reopen, DropSessions
  <2>3. /\ open' \in BOOLEAN /\ healthy' \in BOOLEAN /\ lost' \in BOOLEAN
        /\ upFor' \in 0..MaxReopenBackoff
    BY <1>9 DEF Reopen, Opened, NotOpened
  <2>4. QED
    BY <1>9, <2>1, <2>2, <2>3 DEF Reopen
<1>10. CASE Tick
  BY <1>10, Bounds, CountType DEF Tick
<1>11. CASE Unplugged \/ UNCHANGED vars
  BY <1>11 DEF Unplugged, vars
<1>12. QED
  BY <1>1, <1>2, <1>3, <1>4, <1>5, <1>6, <1>7, <1>8, <1>9, <1>10, <1>11
     DEF Next, Ended

\* Only the holder of txMu is on the wire, and only while nobody swaps ports.
LEMMA OwnershipStep ==
  ASSUME TypeOK, Ownership, Phases, [Next]_vars
  PROVE  Ownership'
<1> USE ClientNames DEF TypeOK, OnWire, Ownership, port, supervision
<1>1. CASE FirstOpen
  BY <1>1 DEF FirstOpen, Opened
<1>2. CASE NeverOpened \/ Stop
  BY <1>2 DEF NeverOpened, Stop
<1>3. CASE Close
  BY <1>3 DEF Close, NotOpened, DropSessions
<1>4. ASSUME NEW c \in Clients, Client(c)
      PROVE  Ownership'
  <2>1. CASE \/ Request(c) \/ Leave(c) \/ Acquire(c) \/ Refused(c)
             \/ Advance(c) \/ Succeed(c) \/ ContextEnds(c)
    BY <2>1 DEF Request, Leave, Acquire, Refused, Return, Advance, Succeed,
                ContextEnds
  <2>2. ASSUME NEW err \in Errors, Fails(c, err)
        PROVE  Ownership'
    BY <2>2 DEF Fails, Return
  <2>3. QED
    BY <1>4, <2>1, <2>2 DEF Client
<1>5. CASE Supervising
  BY <1>5 DEF Supervising, SeeHealthy, SeeUnhealthy, HoldOver, RestOver,
              SupervisorEnds, Tick
<1>6. ASSUME NEW opened \in BOOLEAN, Reopen(opened)
      PROVE  Ownership'
  BY <1>6 DEF Reopen, Opened, NotOpened, DropSessions
<1>7. CASE Unplugged \/ UNCHANGED vars
  BY <1>7 DEF Unplugged, vars
<1>8. QED
  BY <1>1, <1>2, <1>3, <1>4, <1>5, <1>6, <1>7 DEF Next, Ended, Supervising

\* Nothing happens before the first open or after the last close.
LEMMA PhasesStep ==
  ASSUME TypeOK, Ownership, Phases, [Next]_vars
  PROVE  Phases'
<1> USE DEF TypeOK, OnWire, Phases, port, supervision
<1>1. CASE FirstOpen
  BY <1>1 DEF FirstOpen, Opened
<1>2. CASE NeverOpened \/ Stop
  BY <1>2 DEF NeverOpened, Stop
<1>3. CASE Close
  BY <1>3 DEF Close, NotOpened, DropSessions
<1>4. ASSUME NEW c \in Clients, Client(c)
      PROVE  Phases'
  <2>1. CASE \/ Request(c) \/ Leave(c) \/ Acquire(c) \/ Refused(c)
             \/ Advance(c) \/ Succeed(c) \/ ContextEnds(c)
    BY <2>1 DEF Request, Leave, Acquire, Refused, Return, Advance, Succeed,
                ContextEnds
  <2>2. ASSUME NEW err \in Errors, Fails(c, err)
        PROVE  Phases'
    BY <2>2 DEF Fails, Return
  <2>3. QED
    BY <1>4, <2>1, <2>2 DEF Client
<1>5. CASE Supervising
  BY <1>5 DEF Supervising, SeeHealthy, SeeUnhealthy, HoldOver, RestOver,
              SupervisorEnds, Tick
<1>6. ASSUME NEW opened \in BOOLEAN, Reopen(opened)
      PROVE  Phases'
  BY <1>6 DEF Reopen, Opened, NotOpened, DropSessions
<1>7. CASE Unplugged \/ UNCHANGED vars
  BY <1>7 DEF Unplugged, vars
<1>8. QED
  BY <1>1, <1>2, <1>3, <1>4, <1>5, <1>6, <1>7 DEF Next, Ended, Supervising

\* What the supervisor has counted stays below what there was to count.
LEMMA HealthStep ==
  ASSUME TypeOK, Phases, HealthKnown, [Next]_vars
  PROVE  HealthKnown'
<1> USE Bounds DEF TypeOK, HealthKnown, port, supervision
<1>1. CASE FirstOpen
  BY <1>1 DEF FirstOpen, Opened, Phases
<1>2. CASE NeverOpened \/ Stop
  BY <1>2 DEF NeverOpened, Stop
<1>3. CASE Close
  BY <1>3 DEF Close, NotOpened
<1>4. ASSUME NEW c \in Clients, Client(c)
      PROVE  HealthKnown'
  <2>1. CASE \/ Request(c) \/ Leave(c) \/ Acquire(c) \/ Refused(c)
             \/ Advance(c) \/ Succeed(c) \/ ContextEnds(c)
    BY <2>1 DEF Request, Leave, Acquire, Refused, Return, Advance, Succeed,
                ContextEnds
  <2>2. ASSUME NEW err \in Errors, Fails(c, err)
        PROVE  HealthKnown'
    BY <2>2 DEF Fails, Return
  <2>3. QED
    BY <1>4, <2>1, <2>2 DEF Client
<1>5. CASE SeeHealthy \/ SeeUnhealthy \/ HoldOver \/ RestOver \/ SupervisorEnds
  BY <1>5 DEF SeeHealthy, SeeUnhealthy, HoldOver, RestOver, SupervisorEnds
<1>6. CASE Tick
  BY <1>6 DEF Tick, Count
<1>7. ASSUME NEW opened \in BOOLEAN, Reopen(opened)
      PROVE  HealthKnown'
  BY <1>7 DEF Reopen, Opened, NotOpened
<1>8. CASE Unplugged \/ UNCHANGED vars
  BY <1>8 DEF Unplugged, vars
<1>9. QED
  BY <1>1, <1>2, <1>3, <1>4, <1>5, <1>6, <1>7, <1>8 DEF Next, Ended

\* An error that condemns the port comes from a lost one: nobody on the wire
\* has a stale session, and only a lost port's errors say that it is gone.
LEMMA CauseStep ==
  ASSUME TypeOK, Ownership, UnhealthyForCause, [Next]_vars
  PROVE  UnhealthyForCause'
<1> USE DEF UnhealthyForCause, port
<1>1. ASSUME NEW c \in Clients, NEW err \in Errors, Fails(c, err)
      PROVE  UnhealthyForCause'
  <2>1. session[c] # "stale"
    BY <1>1 DEF Fails, Ownership
  <2>2. IsPortError(err) => lost
    BY <1>1, <2>1 DEF Fails, Plausible, IsPortError
  <2>3. QED
    BY <1>1, <2>2 DEF Fails
<1>2. CASE FirstOpen \/ Close \/ \E opened \in BOOLEAN : Reopen(opened)
  BY <1>2 DEF FirstOpen, Close, Reopen, Opened, NotOpened
<1>3. CASE Unplugged
  BY <1>3 DEF Unplugged
<1>4. ASSUME NEW c \in Clients, Client(c)
      PROVE  UnhealthyForCause'
  <2>1. CASE \/ Request(c) \/ Leave(c) \/ Acquire(c) \/ Refused(c)
             \/ Advance(c) \/ Succeed(c) \/ ContextEnds(c)
    BY <2>1 DEF Request, Leave, Acquire, Refused, Advance, Succeed, ContextEnds
  <2>2. QED
    BY <1>1, <1>4, <2>1 DEF Client
<1>5. CASE NeverOpened \/ Stop \/ Supervising \/ UNCHANGED vars
  BY <1>5 DEF NeverOpened, Stop, Supervising, SeeHealthy, SeeUnhealthy,
              HoldOver, RestOver, SupervisorEnds, Tick, vars
<1>6. QED
  BY <1>2, <1>3, <1>4, <1>5 DEF Next, Supervising, Ended

\* The supervisor never comes to an attempt before the sleep after the last one.
LEMMA SpacedStep ==
  ASSUME TypeOK, Phases, Spaced, [Next]_vars
  PROVE  Spaced'
<1> USE Bounds DEF TypeOK, Spaced, port, supervision
<1>1. CASE FirstOpen \/ NeverOpened \/ Stop \/ Close
  BY <1>1 DEF FirstOpen, NeverOpened, Stop, Close, Phases
<1>2. ASSUME NEW c \in Clients, Client(c)
      PROVE  Spaced'
  <2>1. UNCHANGED supervision
    BY <1>2, ClientKeeps
  <2>2. QED
    BY <2>1
<1>3. CASE SeeHealthy \/ SeeUnhealthy \/ RestOver \/ SupervisorEnds
  BY <1>3 DEF SeeHealthy, SeeUnhealthy, RestOver, SupervisorEnds
<1>4. CASE HoldOver
  BY <1>4 DEF HoldOver
<1>5. ASSUME NEW opened \in BOOLEAN, Reopen(opened)
      PROVE  Spaced'
  BY <1>5 DEF Reopen
<1>6. CASE Tick
  BY <1>6 DEF Tick, Count
<1>7. CASE Unplugged \/ UNCHANGED vars
  BY <1>7 DEF Unplugged, vars
<1>8. QED
  BY <1>1, <1>2, <1>3, <1>4, <1>5, <1>6, <1>7 DEF Next, Ended

\* The strengthened invariant is inductive.
LEMMA Invariance == Spec => []SInv
<1>1. Init => SInv
  <2> SUFFICES ASSUME Init
               PROVE  SInv
    OBVIOUS
  <2>1. TypeOK
    BY Ranges DEF Init, TypeOK
  <2>2. Ownership
    BY ClientNames DEF Init, Ownership, OnWire
  <2>3. QED
    BY <2>1, <2>2, Bounds
       DEF Init, SInv, Phases, HealthKnown, Spaced, UnhealthyForCause
<1>2. SInv /\ [Next]_vars => SInv'
  BY TypeStep, OwnershipStep, PhasesStep, HealthStep, CauseStep, SpacedStep
     DEF SInv
<1>3. QED
  BY <1>1, <1>2, PTL DEF Spec
-----------------------------------------------------------------------------
(***************************************************************************)
(* Whoever is on the wire is alone there, on the port that is open now:    *)
(* Close and reopen never swap it mid-transaction (serial.go, txMu).       *)
(***************************************************************************)
THEOREM NoSwapMidTransaction == Spec => []WireExclusive
<1>1. SInv => WireExclusive
  BY DEF SInv, Ownership, WireExclusive
<1>2. QED
  BY Invariance, <1>1, PTL

(***************************************************************************)
(* A port that works is never condemned: one that is open and marked       *)
(* unhealthy has lost its device, whichever errors the calls return and    *)
(* however they interleave with a reopen (markUnhealthy, IsPortError).     *)
(***************************************************************************)
THEOREM HealthLostForCause == Spec => []UnhealthyForCause
BY Invariance, PTL DEF SInv

(***************************************************************************)
(* Once the process has closed the port nobody opens or uses it again      *)
(* (cmd/main.go, run: the supervisor and the loops are joined first).      *)
(***************************************************************************)
THEOREM ClosedStaysClosed == Spec => []ClosedForGood
<1>1. SInv => ClosedForGood
  BY DEF SInv, Phases, ClosedForGood, OnWire
<1>2. QED
  BY Invariance, <1>1, PTL

(***************************************************************************)
(* The backoff shrinks only after the port has been healthy for the whole  *)
(* MaxReopenBackoff (Supervise, healthySince).                             *)
(***************************************************************************)
THEOREM BackoffOnlyEarned == Spec => BackoffEarned
<1>1. ASSUME SInv, [Next]_vars, backoff' < backoff
      PROVE  upFor >= MaxReopenBackoff
  <2> USE Bounds DEF SInv, TypeOK, port, supervision
  <2>1. CASE SeeHealthy
    BY <1>1, <2>1 DEF SeeHealthy, HealthKnown
  <2>2. CASE HoldOver
    BY <1>1, <2>2 DEF HoldOver
  <2>3. backoff' # backoff
    BY <1>1
  <2>4. ASSUME NEW c \in Clients, Client(c)
        PROVE  FALSE
    BY <2>3, <2>4, ClientKeeps
  <2>5. QED
    BY <1>1, <2>1, <2>2, <2>3, <2>4
       DEF Next, FirstOpen, NeverOpened, Stop, Close, SeeUnhealthy, RestOver,
           SupervisorEnds, Reopen, Unplugged, Tick, Ended, vars
<1>2. SInv /\ [Next]_vars => [backoff' < backoff => upFor >= MaxReopenBackoff]_vars
  BY <1>1
<1>3. QED
  BY Invariance, <1>2, PTL DEF Spec, BackoffEarned

(***************************************************************************)
(* Between two attempts to open the port, each of which resets the device, *)
(* at least the initial backoff passes, whatever the first came to, and    *)
(* however long a transaction kept the supervisor waiting for txMu         *)
(* (Supervise: "wait after every attempt, successful or not").             *)
(***************************************************************************)
THEOREM AttemptsSpaced == Spec => ReopensApart
<1>1. ASSUME SInv, [Next]_vars, sup = "reopen", sup' = "hold"
      PROVE  sinceReopen >= ReopenBackoff
  BY <1>1 DEF SInv, Spaced
<1>2. SInv /\ [Next]_vars =>
        [sup = "reopen" /\ sup' = "hold" => sinceReopen >= ReopenBackoff]_vars
  BY <1>1
<1>3. QED
  BY Invariance, <1>2, PTL DEF Spec, ReopensApart
-----------------------------------------------------------------------------
(***************************************************************************)
(* The bus.                                                                *)
(***************************************************************************)
\* No transaction has a result before it ends.
Undecided == phase # "idle" => outcome = "none"

\* After the flush nothing is left that was received before the exchange.
NoneLeft(s) == \A i \in 1..Len(s) : ~s[i].left

Fresh ==
  /\ NoneLeft(line)
  /\ phase = "flush" => buf = <<>>
  /\ phase \in {"write", "look", "await"} => NoneLeft(input) /\ NoneLeft(buf)

\* Every head is followed by its own tail.
Belong(h, t) == t.part = "tail" /\ t.reg = h.reg /\ t.to = h.to
Whole(s) ==
  \A i \in 1..Len(s) :
    s[i].part = "head" => i < Len(s) /\ Belong(s[i], s[i + 1])

\* What has not been taken apart yet, as it lies before us.
Unspliced ==
  losses = 0 =>
    /\ Whole(input \o line)
    /\ phase \in {"flush", "write", "look", "await"} =>
         Whole((buf \o input) \o line)

BInv == BusTypeOK /\ Undecided /\ Fresh /\ Unspliced
-----------------------------------------------------------------------------
(***************************************************************************)
(* Frames in a sequence of tokens.                                         *)
(***************************************************************************)
LEMMA LeastNatural ==
  ASSUME NEW S \in SUBSET Nat, S # {}
  PROVE  \E x \in S : \A y \in S : x <= y
<1> DEFINE R == {p \in Nat \X Nat : p[1] < p[2]}
<1>0. IsWellFoundedOn(R, Nat)
  BY NatLessThanWellFounded DEF OpToRel
<1>1. PICK x \in S : \A y \in S : ~ (<<y, x>> \in R)
  BY <1>0, WFMin
<1>2. \A y \in S : ~ (y < x)
  BY <1>1
<1> QED
  BY <1>2

LEMMA FrameEndRange ==
  ASSUME NEW s \in Seq(Tokens)
  PROVE  /\ FrameEnd(s) \in 0..Len(s)
         /\ FrameEnd(s) > 0 => s[FrameEnd(s)].part = "tail"
<1> DEFINE I == {i \in 1..Len(s) : s[i].part = "tail"}
<1>1. FrameEnd(s) = IF I # {} THEN Min(I) ELSE 0
  BY DEF FrameEnd, SelectInSeq
<1>2. I \in SUBSET Nat /\ Len(s) \in Nat
  OBVIOUS
<1>3. CASE I # {}
  <2>1. \E x \in I : \A y \in I : x <= y
    BY <1>2, <1>3, LeastNatural
  <2>2. Min(I) \in I
    BY <2>1 DEF Min
  <2> QED
    BY <1>1, <1>2, <1>3, <2>2
<1> QED
  BY <1>1, <1>2, <1>3

LEMMA FrameType ==
  ASSUME NEW to \in {"now", "earlier", "other"}, NEW r \in Registers
  PROVE  /\ Frame(to, r) \in Seq(Tokens) /\ Len(Frame(to, r)) = 2
         /\ Frame(to, r)[1].part = "head"
         /\ Belong(Frame(to, r)[1], Frame(to, r)[2])
         /\ NoneLeft(Frame(to, r))
<1> DEFINE h == [to |-> to, reg |-> r, part |-> "head", left |-> FALSE]
           t == [to |-> to, reg |-> r, part |-> "tail", left |-> FALSE]
<1>1. h \in Tokens /\ t \in Tokens
  BY DEF Tokens
<1>2. Frame(to, r) = <<h, t>>
  BY DEF Frame
<1>3. Belong(h, t) /\ ~h.left /\ ~t.left /\ h.part = "head"
  BY DEF Belong
<1> HIDE DEF h, t
<1>4. <<h, t>> \in Seq(Tokens) /\ Len(<<h, t>>) = 2
      /\ <<h, t>>[1] = h /\ <<h, t>>[2] = t
  BY <1>1
<1>5. \A i \in 1..2 : i = 1 \/ i = 2
  OBVIOUS
<1> QED
  BY <1>2, <1>3, <1>4, <1>5 DEF NoneLeft

LEMMA Ageing ==
  ASSUME NEW s \in Seq(Tokens), NEW b \in BOOLEAN
  PROVE  /\ AgedTokens(s, b) \in Seq(Tokens)
         /\ Len(AgedTokens(s, b)) = Len(s)
         /\ \A i \in 1..Len(s) :
              /\ AgedTokens(s, b)[i].part = s[i].part
              /\ AgedTokens(s, b)[i].reg = s[i].reg
              /\ AgedTokens(s, b)[i].to = Aged(s[i].to)
         /\ ~b /\ NoneLeft(s) => NoneLeft(AgedTokens(s, b))
<1> DEFINE g(t) == [t EXCEPT !.to = Aged(t.to), !.left = t.left \/ b]
<1>1. \A t \in Tokens : /\ g(t) \in Tokens
                        /\ g(t).part = t.part /\ g(t).reg = t.reg
                        /\ g(t).to = Aged(t.to) /\ g(t).left = (t.left \/ b)
  BY DEF Tokens, Aged
<1>2. AgedTokens(s, b) = [i \in 1..Len(s) |-> g(s[i])]
  BY DEF AgedTokens
<1>3. \A i \in 1..Len(s) : s[i] \in Tokens
  OBVIOUS
<1> HIDE DEF g
<1>4. /\ [i \in 1..Len(s) |-> g(s[i])] \in Seq(Tokens)
      /\ Len([i \in 1..Len(s) |-> g(s[i])]) = Len(s)
  <2>1. Len(s) \in Nat
    OBVIOUS
  <2> QED
    BY <1>1, <1>3, <2>1, IsASeq
<1>5. \A i \in 1..Len(s) : AgedTokens(s, b)[i] = g(s[i])
  BY <1>2
<1>6. ~b /\ NoneLeft(s) => NoneLeft(AgedTokens(s, b))
  BY <1>1, <1>2, <1>3, <1>4, <1>5 DEF NoneLeft
<1> QED
  BY <1>1, <1>2, <1>3, <1>4, <1>6

LEMMA Regrouped ==
  ASSUME NEW a \in Seq(Tokens), NEW b \in Seq(Tokens), NEW c \in Seq(Tokens)
  PROVE  (a \o b) \o c = a \o (b \o c)
BY ConcatAssociative

LEMMA Joined ==
  ASSUME NEW a \in Seq(Tokens), NEW b \in Seq(Tokens)
  PROVE  /\ a \o b \in Seq(Tokens) /\ Len(a) \in Nat /\ Len(b) \in Nat
         /\ Len(a \o b) = Len(a) + Len(b)
         /\ \A i \in 1..Len(a) : (a \o b)[i] = a[i]
         /\ \A i \in 1..Len(b) : (a \o b)[Len(a) + i] = b[i]
<1>1. a \o b \in Seq(Tokens) /\ Len(a) \in Nat /\ Len(b) \in Nat
      /\ Len(a \o b) = Len(a) + Len(b)
  OBVIOUS
<1>2. \A i \in 1..Len(a) : (a \o b)[i] = a[i]
  OBVIOUS
<1>3. ASSUME NEW i \in 1..Len(b)
      PROVE  (a \o b)[Len(a) + i] = b[i]
  <2>1. Len(a) + i \in (Len(a) + 1)..(Len(a) + Len(b))
    BY <1>1
  <2>2. (a \o b)[Len(a) + i] = b[(Len(a) + i) - Len(a)]
    BY <1>1, <2>1
  <2> QED
    BY <1>1, <2>2
<1> QED
  BY <1>1, <1>2, <1>3

\* Whole is about what comes after what: a suffix keeps it, a frame added at
\* the end, and whatever leaves part, register and owner's sameness alone.
LEMMA WholeSuffix ==
  ASSUME NEW p \in Seq(Tokens), NEW s \in Seq(Tokens), Whole(p \o s)
  PROVE  Whole(s)
<1>1. /\ Len(p) \in Nat /\ Len(s) \in Nat /\ Len(p \o s) = Len(p) + Len(s)
      /\ \A i \in 1..Len(s) : (p \o s)[Len(p) + i] = s[i]
  BY Joined
<1>2. ASSUME NEW i \in 1..Len(s), s[i].part = "head"
      PROVE  i < Len(s) /\ Belong(s[i], s[i + 1])
  <2>1. Len(p) + i \in 1..Len(p \o s) /\ (p \o s)[Len(p) + i].part = "head"
    BY <1>1, <1>2
  <2>2. /\ Len(p) + i < Len(p \o s)
        /\ Belong((p \o s)[Len(p) + i], (p \o s)[Len(p) + i + 1])
    BY <2>1 DEF Whole
  <2>3. i < Len(s) /\ i + 1 \in 1..Len(s)
        /\ Len(p) + i + 1 = Len(p) + (i + 1)
    BY <1>1, <2>2
  <2>4. (p \o s)[Len(p) + i + 1] = s[i + 1] /\ (p \o s)[Len(p) + i] = s[i]
    BY <1>1, <2>3
  <2> QED
    BY <2>2, <2>3, <2>4
<1> QED
  BY <1>2 DEF Whole

LEMMA WholeFrame ==
  ASSUME NEW s \in Seq(Tokens), Whole(s),
         NEW to \in {"now", "earlier", "other"}, NEW r \in Registers
  PROVE  Whole(s \o Frame(to, r))
<1> DEFINE f == Frame(to, r)
<1>1. /\ f \in Seq(Tokens) /\ Len(f) = 2 /\ f[1].part = "head"
      /\ Belong(f[1], f[2])
  BY FrameType
<1> HIDE DEF f
<1>2. /\ Len(s) \in Nat /\ Len(s \o f) = Len(s) + 2
      /\ \A i \in 1..Len(s) : (s \o f)[i] = s[i]
      /\ (s \o f)[Len(s) + 1] = f[1] /\ (s \o f)[Len(s) + 2] = f[2]
  <2>1. /\ Len(s) \in Nat /\ Len(s \o f) = Len(s) + 2
        /\ \A i \in 1..Len(s) : (s \o f)[i] = s[i]
    BY <1>1, Joined
  <2>2. \A i \in 1..2 : (s \o f)[Len(s) + i] = f[i]
    <3>1. \A i \in 1..Len(f) : (s \o f)[Len(s) + i] = f[i]
      BY <1>1, Joined
    <3> QED
      BY <1>1, <3>1
  <2>3. 1 \in 1..2 /\ 2 \in 1..2
    OBVIOUS
  <2> QED
    BY <2>1, <2>2, <2>3
<1>3. ASSUME NEW i \in 1..Len(s \o f), (s \o f)[i].part = "head"
      PROVE  i < Len(s \o f) /\ Belong((s \o f)[i], (s \o f)[i + 1])
  <2>1. CASE i \in 1..Len(s)
    <3>1. i < Len(s) /\ Belong(s[i], s[i + 1])
      BY <1>2, <1>3, <2>1 DEF Whole
    <3>2. i + 1 \in 1..Len(s)
      BY <1>2, <2>1, <3>1
    <3> QED
      BY <1>2, <2>1, <3>1, <3>2
  <2>2. CASE i = Len(s) + 1
    <3>1. i + 1 = Len(s) + 2
      BY <1>2, <2>2
    <3> QED
      BY <1>1, <1>2, <2>2, <3>1
  <2>3. CASE i = Len(s) + 2
    <3>1. (s \o f)[i] = f[2] /\ f[2].part = "tail"
      BY <1>1, <1>2, <2>3 DEF Belong
    <3> QED
      BY <1>3, <3>1
  <2> QED
    BY <1>2, <2>1, <2>2, <2>3
<1> QED
  BY <1>3 DEF Whole, f

LEMMA WholeAged ==
  ASSUME NEW a \in Seq(Tokens), NEW b \in Seq(Tokens), Whole(a \o b)
  PROVE  Whole(AgedTokens(a, TRUE) \o AgedTokens(b, FALSE))
<1> DEFINE x == AgedTokens(a, TRUE)
           y == AgedTokens(b, FALSE)
           s == a \o b
           u == x \o y
<1>1. /\ x \in Seq(Tokens) /\ y \in Seq(Tokens)
      /\ Len(x) = Len(a) /\ Len(y) = Len(b)
      /\ \A i \in 1..Len(a) : /\ x[i].part = a[i].part
                               /\ x[i].reg = a[i].reg
                               /\ x[i].to = Aged(a[i].to)
      /\ \A i \in 1..Len(b) : /\ y[i].part = b[i].part
                               /\ y[i].reg = b[i].reg
                               /\ y[i].to = Aged(b[i].to)
  BY Ageing
<1> HIDE DEF x, y
<1>2. /\ Len(a) \in Nat /\ Len(b) \in Nat /\ Len(s) = Len(a) + Len(b)
      /\ Len(u) = Len(s)
      /\ \A i \in 1..Len(a) : s[i] = a[i] /\ u[i] = x[i]
      /\ \A i \in 1..Len(b) : s[Len(a) + i] = b[i] /\ u[Len(a) + i] = y[i]
  <2>1. /\ Len(a) \in Nat /\ Len(b) \in Nat /\ Len(s) = Len(a) + Len(b)
        /\ \A i \in 1..Len(a) : s[i] = a[i]
        /\ \A i \in 1..Len(b) : s[Len(a) + i] = b[i]
    BY Joined
  <2>2. /\ Len(u) = Len(x) + Len(y)
        /\ \A i \in 1..Len(x) : u[i] = x[i]
        /\ \A i \in 1..Len(y) : u[Len(x) + i] = y[i]
    BY <1>1, Joined
  <2> HIDE DEF s, u
  <2> QED
    BY <1>1, <2>1, <2>2
<1>3. ASSUME NEW i \in 1..Len(s)
      PROVE  /\ u[i].part = s[i].part /\ u[i].reg = s[i].reg
             /\ u[i].to = Aged(s[i].to)
  <2>1. CASE i \in 1..Len(a)
    <3> HIDE DEF s, u
    <3> QED
      BY <1>1, <1>2, <2>1
  <2>2. CASE i \notin 1..Len(a)
    <3> DEFINE j == i - Len(a)
    <3> HIDE DEF s, u
    <3>1. j \in 1..Len(b) /\ i = Len(a) + j
      BY <1>2, <2>2
    <3> HIDE DEF j
    <3> QED
      BY <1>1, <1>2, <3>1
  <2> QED
    BY <2>1, <2>2
<1> HIDE DEF s, u
<1>4. ASSUME NEW i \in 1..Len(u), u[i].part = "head"
      PROVE  i < Len(u) /\ Belong(u[i], u[i + 1])
  <2>1. i < Len(s) /\ Belong(s[i], s[i + 1])
    BY <1>2, <1>3, <1>4 DEF Whole, s
  <2>2. i + 1 \in 1..Len(s) /\ i \in 1..Len(s)
    BY <1>2, <2>1
  <2> QED
    BY <1>2, <1>3, <2>1, <2>2 DEF Belong
<1> QED
  BY <1>4 DEF Whole, x, y, u
-----------------------------------------------------------------------------
(***************************************************************************)
(* How tokens move.                                                        *)
(***************************************************************************)
LEMMA HeadMoves ==
  ASSUME NEW s \in Seq(Tokens), NEW l \in Seq(Tokens), l # <<>>
  PROVE  /\ Append(s, Head(l)) \in Seq(Tokens) /\ Tail(l) \in Seq(Tokens)
         /\ Append(s, Head(l)) \o Tail(l) = s \o l
         /\ Len(Append(s, Head(l))) = Len(s) + 1
         /\ l = <<Head(l)>> \o Tail(l) /\ <<Head(l)>> \in Seq(Tokens)
         /\ NoneLeft(l) => NoneLeft(Tail(l))
         /\ NoneLeft(s) /\ NoneLeft(l) => NoneLeft(Append(s, Head(l)))
<1>1. /\ Head(l) \in Tokens /\ Tail(l) \in Seq(Tokens) /\ Len(l) \in Nat
      /\ Len(l) >= 1 /\ Head(l) = l[1] /\ Len(Tail(l)) = Len(l) - 1
      /\ \A i \in 1..Len(Tail(l)) : Tail(l)[i] = l[i + 1]
  BY HeadTailProperties, EmptySeq
<1>2. /\ Append(s, Head(l)) \in Seq(Tokens) /\ Len(s) \in Nat
      /\ Append(s, Head(l)) = s \o <<Head(l)>>
      /\ Len(Append(s, Head(l))) = Len(s) + 1
      /\ <<Head(l)>> \in Seq(Tokens)
  BY <1>1
<1>3. l = <<Head(l)>> \o Tail(l)
  BY <1>1, <1>2
<1>4. Append(s, Head(l)) \o Tail(l) = s \o l
  BY <1>1, <1>2, <1>3, ConcatAssociative
<1>5. NoneLeft(l) => NoneLeft(Tail(l))
  BY <1>1 DEF NoneLeft
<1>6. NoneLeft(s) /\ NoneLeft(l) => NoneLeft(Append(s, Head(l)))
  <2>1. \A i \in 1..(Len(s) + 1) :
          Append(s, Head(l))[i] = IF i = Len(s) + 1 THEN l[1] ELSE s[i]
    BY <1>1, <1>2
  <2>2. 1 \in 1..Len(l)
    BY <1>1
  <2>3. \A i \in 1..(Len(s) + 1) : i = Len(s) + 1 \/ i \in 1..Len(s)
    BY <1>2
  <2> QED
    BY <1>2, <2>1, <2>2, <2>3 DEF NoneLeft
<1> QED
  BY <1>1, <1>2, <1>3, <1>4, <1>5, <1>6

LEMMA FrameTaken ==
  ASSUME NEW s \in Seq(Tokens), FrameEnd(s) > 0
  PROVE  LET k == FrameEnd(s)
             rest == SubSeq(s, k + 1, Len(s))
         IN  /\ k \in 1..Len(s)
             /\ SubSeq(s, 1, k) \in Seq(Tokens) /\ rest \in Seq(Tokens)
             /\ Len(SubSeq(s, 1, k)) = k
             /\ \A i \in 1..k : SubSeq(s, 1, k)[i] = s[i]
             /\ s = SubSeq(s, 1, k) \o rest
             /\ Len(rest) <= Len(s)
             /\ NoneLeft(s) => NoneLeft(rest)
<1> DEFINE k == FrameEnd(s)
           rest == SubSeq(s, k + 1, Len(s))
<1>1. k \in 1..Len(s) /\ Len(s) \in Nat
  BY FrameEndRange
<1> HIDE DEF k
<1>2. /\ SubSeq(s, 1, k) \in Seq(Tokens) /\ Len(SubSeq(s, 1, k)) = k
      /\ \A i \in 1..k : SubSeq(s, 1, k)[i] = s[i]
  BY <1>1, SubSeqProperties
<1>3. /\ rest \in Seq(Tokens) /\ Len(rest) = Len(s) - k
      /\ \A i \in 1..Len(rest) : rest[i] = s[k + i]
  BY <1>1, SubSeqProperties
<1>4. s = SubSeq(s, 1, k) \o rest
  BY <1>1, <1>2, <1>3
<1>5. NoneLeft(s) => NoneLeft(rest)
  <2>1. \A i \in 1..Len(rest) : k + i \in 1..Len(s)
    BY <1>1, <1>3
  <2> QED
    BY <1>3, <2>1 DEF NoneLeft
<1>6. Len(rest) <= Len(s)
  <2> HIDE DEF rest
  <2> QED BY <1>1, <1>3
<1> HIDE DEF rest
<1> QED
  BY <1>1, <1>2, <1>3, <1>4, <1>5, <1>6 DEF k, rest
-----------------------------------------------------------------------------
(***************************************************************************)
(* The invariant, first of the control and then of the tokens.             *)
(***************************************************************************)
LEMMA BusBounds ==
  /\ MaxFrameLen \in Nat /\ InputSize \in Nat /\ ResponseTimeout \in Nat
  /\ BusQuietGap \in Nat /\ BusQuietMaxWait \in Nat /\ MaxLosses \in Nat
BY LimitsPositive

LEMMA BusInitial == ASSUME BusInit PROVE BInv
<1>1. <<>> \in Seq(Tokens) /\ Len(<<>>) = 0 /\ <<>> \o <<>> = <<>>
  OBVIOUS
<1>2. BusTypeOK
  <2>1. /\ line = <<>> /\ asked = {} /\ input = <<>> /\ buf = <<>>
        /\ phase = "idle" /\ silence = 0 /\ deadline = 0 /\ losses = 0
        /\ outcome = "none" /\ want \in Registers /\ answered = FALSE
    BY DEF BusInit
  <2>2. reading \in BOOLEAN
    BY DEF BusInit
  <2>3. 0 <= InputSize /\ 0 <= MaxFrameLen + InputSize /\ 0 \in 0..BusQuietGap
        /\ 0 \in 0..MaxLosses
    BY BusBounds
  <2> QED
    BY <1>1, <2>1, <2>2, <2>3 DEF BusTypeOK
<1>3. Fresh /\ Unspliced /\ Undecided
  BY <1>1 DEF BusInit, Fresh, NoneLeft, Unspliced, Whole, Undecided
<1> QED
  BY <1>2, <1>3 DEF BInv

\* What the control variables may become.
ControlType ==
  /\ phase \in {"idle", "quiet", "reset", "flush", "write", "look", "await"}
  /\ want \in Registers
  /\ reading \in BOOLEAN
  /\ silence \in 0..BusQuietGap
  /\ deadline \in Nat
  /\ outcome \in {"none", "reply", "sent", "timeout", "overflow", "cancelled"}
  /\ answered \in BOOLEAN

LEMMA Concluding ==
  ASSUME NEW result \in {"reply", "sent", "timeout", "overflow", "cancelled"},
         Conclude(result), want' \in Registers, answered' \in BOOLEAN
  PROVE  ControlType' /\ Undecided'
<1>1. 0 \in 0..BusQuietGap /\ 0 \in Nat
  BY BusBounds
<1>2. reading' \in BOOLEAN
  BY DEF Conclude
<1> QED
  BY <1>1, <1>2 DEF Conclude, ControlType, Undecided

LEMMA ControlStep ==
  ASSUME BInv, [BusNext]_busVars
  PROVE  ControlType' /\ Undecided'
<1> USE BusBounds DEF bus, exchange, ControlType, Undecided
<1>1. ControlType /\ Undecided
  BY DEF BInv, BusTypeOK
<1>2. CASE HearNoise \/ GoAhead \/ DiscardBuffered \/ FlushInput \/ LookOn
  BY <1>1, <1>2 DEF HearNoise, GoAhead, DiscardBuffered, FlushInput, LookOn
<1>3. ASSUME NEW heard \in BOOLEAN, WriteCommand(heard)
      PROVE  ControlType' /\ Undecided'
  <2>1. CASE reading
    <3>1. /\ phase' = "look" /\ deadline' = ResponseTimeout
          /\ phase = "write" /\ UNCHANGED <<reading, silence, outcome, want, answered>>
      BY <1>3, <2>1 DEF WriteCommand
    <3>2. reading' \in BOOLEAN
      BY <1>1, <3>1
    <3> QED
      BY <1>1, <3>1, <3>2
  <2>2. CASE ~reading
    <3>1. Conclude("sent") /\ want' = want /\ answered' = answered
      BY <1>3, <2>2 DEF WriteCommand
    <3> QED
      BY <1>1, <3>1, Concluding
  <2> QED
    BY <2>1, <2>2
<1>4. CASE TakeFrame
  <2>1. CASE Matches(NextFrame)
    <3>1. Conclude("reply") /\ want' = want /\ answered' = answered
      BY <1>4, <2>1 DEF TakeFrame
    <3> QED
      BY <1>1, <3>1, Concluding
  <2>2. CASE ~Matches(NextFrame)
    <3>1. /\ phase' = "look" /\ phase = "await"
          /\ UNCHANGED <<reading, silence, deadline, outcome, want,
                       answered>>
      BY <1>4, <2>2 DEF TakeFrame
    <3>2. reading' \in BOOLEAN
      BY <1>1, <3>1
    <3> QED
      BY <1>1, <3>1, <3>2
  <2> QED
    BY <2>1, <2>2
<1>5. CASE Overflow \/ TimeOut \/ Cancelled
  <2>1. /\ want' = want /\ answered' = answered
        /\ Conclude("overflow") \/ Conclude("timeout") \/ Conclude("cancelled")
    BY <1>5 DEF Overflow, TimeOut, Cancelled
  <2> QED
    BY <1>1, <2>1, Concluding
<1>6. CASE ReadMore \/ Arrives \/ GetsLost \/ UNCHANGED busVars
  BY <1>1, <1>6 DEF ReadMore, Arrives, GetsLost, busVars
<1>7. CASE TimePasses
  BY <1>1, <1>7 DEF TimePasses
<1>8. ASSUME NEW r \in Registers, NEW kind \in BOOLEAN, Begin(r, kind)
      PROVE  ControlType' /\ Undecided'
  <2>1. /\ phase' = "quiet" /\ want' = r /\ reading' = kind /\ silence' = 0
        /\ deadline' = BusQuietMaxWait /\ outcome' = "none"
        /\ answered' = FALSE
    BY <1>8 DEF Begin
  <2>2. reading' \in BOOLEAN /\ answered' \in BOOLEAN
    BY <2>1
  <2> QED
    BY <2>1, <2>2
<1>9. ASSUME NEW r \in Registers, PanelTalks(r)
      PROVE  ControlType' /\ Undecided'
  BY <1>1, <1>9 DEF PanelTalks
<1>10. ASSUME NEW a \in asked, UnitAnswers(a)
       PROVE  ControlType' /\ Undecided'
  BY <1>1, <1>10 DEF UnitAnswers
<1> QED
  BY <1>2, <1>3, <1>4, <1>5, <1>6, <1>7, <1>8, <1>9, <1>10
     DEF BusNext, Proceed

\* The tokens and what is invariant of them, as one.
Streams ==
  /\ line \in Seq(Tokens)
  /\ asked \in SUBSET [to : {"now", "earlier"}, reg : Registers]
  /\ input \in Seq(Tokens) /\ Len(input) <= InputSize
  /\ buf \in Seq(Tokens) /\ Len(buf) <= MaxFrameLen + InputSize
  /\ losses \in 0..MaxLosses
  /\ Fresh /\ Unspliced

LEMMA NothingInNone == NoneLeft(<<>>) /\ Whole(<<>>)
BY DEF NoneLeft, Whole

\* A frame begins only on a free line.
LEMMA FrameSent ==
  ASSUME BInv, line = <<>>, NEW to \in {"now", "earlier", "other"},
         NEW r \in Registers, line' = Frame(to, r),
         UNCHANGED <<losses, input, buf, exchange>>,
         asked' \in SUBSET [to : {"now", "earlier"}, reg : Registers]
  PROVE  Streams'
<1> DEFINE f == Frame(to, r)
<1>1. f \in Seq(Tokens) /\ NoneLeft(f)
  BY FrameType
<1>2. /\ input \in Seq(Tokens) /\ buf \in Seq(Tokens)
      /\ buf \o input \in Seq(Tokens)
      /\ input \o line = input /\ (buf \o input) \o line = buf \o input
  BY DEF BInv, BusTypeOK
<1>3. Whole(input) => Whole(input \o f)
  BY <1>2, WholeFrame
<1>4. Whole(buf \o input) => Whole((buf \o input) \o f)
  BY <1>2, WholeFrame
<1>5. line' = f /\ input' = input /\ buf' = buf /\ losses' = losses
      /\ phase' = phase
  BY DEF exchange
<1> HIDE DEF f
<1>6. Fresh'
  BY <1>1, <1>5 DEF BInv, Fresh, NoneLeft
<1>7. Unspliced'
  BY <1>2, <1>3, <1>4, <1>5 DEF BInv, Unspliced
<1> QED
  BY <1>1, <1>5, <1>6, <1>7 DEF Streams, BInv, BusTypeOK

LEMMA Arriving == ASSUME BInv, Arrives PROVE Streams'
<1>1. /\ line \in Seq(Tokens) /\ input \in Seq(Tokens) /\ buf \in Seq(Tokens)
      /\ line # <<>> /\ Len(input) < InputSize
      /\ line' = Tail(line) /\ input' = Append(input, Head(line))
      /\ UNCHANGED <<asked, losses, buf, phase>>
  BY DEF BInv, BusTypeOK, Arrives, exchange
<1>2. /\ input' \in Seq(Tokens) /\ line' \in Seq(Tokens)
      /\ input' \o line' = input \o line
      /\ Len(input') = Len(input) + 1
      /\ NoneLeft(line) => NoneLeft(line')
      /\ NoneLeft(input) /\ NoneLeft(line) => NoneLeft(input')
  BY <1>1, HeadMoves
<1>3. (buf \o input') \o line' = (buf \o input) \o line
  <2>1. (buf \o input') \o line' = buf \o (input' \o line')
    BY <1>1, <1>2, Regrouped
  <2>2. (buf \o input) \o line = buf \o (input \o line)
    BY <1>1, Regrouped
  <2> QED
    BY <1>2, <2>1, <2>2
<1>4. Len(input') <= InputSize
  BY <1>1, <1>2, BusBounds
<1>5. Fresh' /\ Unspliced'
  BY <1>1, <1>2, <1>3 DEF BInv, Fresh, Unspliced, NoneLeft
<1> QED
  BY <1>1, <1>2, <1>4, <1>5 DEF Streams, BInv, BusTypeOK

LEMMA Losing == ASSUME BInv, GetsLost PROVE Streams'
<1>1. /\ line \in Seq(Tokens) /\ line # <<>> /\ line' = Tail(line)
      /\ UNCHANGED <<asked, input, buf, phase>>
      /\ losses' = losses + 1 /\ losses < MaxLosses /\ losses \in 0..MaxLosses
  BY DEF BInv, BusTypeOK, GetsLost, exchange
<1>2. line' \in Seq(Tokens) /\ (NoneLeft(line) => NoneLeft(line'))
  BY <1>1, HeadMoves, EmptySeq
<1>3. losses' \in 0..MaxLosses /\ losses' # 0
  BY <1>1, BusBounds
<1>4. Fresh' /\ Unspliced'
  BY <1>1, <1>2, <1>3 DEF BInv, Fresh, Unspliced, NoneLeft
<1> QED
  BY <1>1, <1>2, <1>3, <1>4 DEF Streams, BInv, BusTypeOK

LEMMA Beginning ==
  ASSUME BInv, NEW r \in Registers, NEW kind \in BOOLEAN, Begin(r, kind)
  PROVE  Streams'
<1>1. /\ line \in Seq(Tokens) /\ input \in Seq(Tokens) /\ buf \in Seq(Tokens)
      /\ line' = AgedTokens(line, FALSE) /\ input' = AgedTokens(input, TRUE)
      /\ buf' = AgedTokens(buf, TRUE) /\ phase' = "quiet" /\ losses' = losses
      /\ Len(input) <= InputSize /\ Len(buf) <= MaxFrameLen + InputSize
      /\ NoneLeft(line)
  BY DEF BInv, BusTypeOK, Begin, Fresh
<1>2. /\ line' \in Seq(Tokens) /\ input' \in Seq(Tokens) /\ buf' \in Seq(Tokens)
      /\ Len(line') = Len(line) /\ Len(input') = Len(input)
      /\ Len(buf') = Len(buf)
      /\ NoneLeft(line')
  <2>1. TRUE \in BOOLEAN /\ FALSE \in BOOLEAN
    OBVIOUS
  <2>2. /\ AgedTokens(line, FALSE) \in Seq(Tokens)
        /\ Len(AgedTokens(line, FALSE)) = Len(line)
        /\ NoneLeft(AgedTokens(line, FALSE))
    BY <1>1, <2>1, Ageing
  <2>3. /\ AgedTokens(input, TRUE) \in Seq(Tokens)
        /\ Len(AgedTokens(input, TRUE)) = Len(input)
    BY <1>1, <2>1, Ageing
  <2>4. /\ AgedTokens(buf, TRUE) \in Seq(Tokens)
        /\ Len(AgedTokens(buf, TRUE)) = Len(buf)
    BY <1>1, <2>1, Ageing
  <2> QED
    BY <1>1, <2>2, <2>3, <2>4
<1>3. NoneLeft(line')
  BY <1>2
<1>4. Whole(input \o line) => Whole(input' \o line')
  BY <1>1, WholeAged
<1>5. asked' \in SUBSET [to : {"now", "earlier"}, reg : Registers]
  <2>1. asked' = {[a EXCEPT !.to = "earlier"] : a \in asked}
    BY DEF Begin
  <2>2. asked \in SUBSET [to : {"now", "earlier"}, reg : Registers]
    BY DEF BInv, BusTypeOK
  <2> QED
    BY <2>1, <2>2
<1>6. Fresh' /\ Unspliced'
  BY <1>1, <1>3, <1>4 DEF BInv, Fresh, Unspliced, NoneLeft
<1>7. losses' \in 0..MaxLosses
  BY <1>1 DEF BInv, BusTypeOK
<1> QED
  BY <1>1, <1>2, <1>5, <1>6, <1>7 DEF Streams

\* Dropping all that has been received, or nothing, in the phases before the
\* command is written.
LEMMA Quieting ==
  ASSUME BInv, HearNoise \/ GoAhead \/ DiscardBuffered \/ FlushInput
  PROVE  Streams'
<1>1. /\ line \in Seq(Tokens) /\ input \in Seq(Tokens) /\ buf \in Seq(Tokens)
      /\ UNCHANGED <<line, asked, losses>>
      /\ input' = input \/ input' = <<>>
      /\ buf' = buf \/ buf' = <<>>
      /\ Len(input) <= InputSize /\ Len(buf) <= MaxFrameLen + InputSize
      /\ NoneLeft(line)
  BY DEF BInv, BusTypeOK, Fresh, HearNoise, GoAhead, DiscardBuffered,
         FlushInput, bus
<1>2. /\ <<>> \in Seq(Tokens) /\ Len(<<>>) = 0 /\ <<>> \o line = line
      /\ <<>> \o input = input /\ <<>> \o <<>> = <<>>
  BY <1>1
<1>3. /\ input' \in Seq(Tokens) /\ Len(input') <= InputSize
      /\ buf' \in Seq(Tokens) /\ Len(buf') <= MaxFrameLen + InputSize
  <2>1. 0 <= InputSize /\ 0 <= MaxFrameLen + InputSize
    BY BusBounds
  <2>2. input' \in Seq(Tokens) /\ Len(input') <= InputSize
    BY <1>1, <1>2, <2>1
  <2>3. buf' \in Seq(Tokens) /\ Len(buf') <= MaxFrameLen + InputSize
    BY <1>1, <1>2, <2>1
  <2> QED
    BY <2>2, <2>3
<1>4. \/ phase' \in {"quiet", "reset"}
      \/ phase' = "flush" /\ buf' = <<>>
      \/ phase' = "write" /\ buf' = <<>> /\ input' = <<>>
  <2>1. HearNoise => phase' = "quiet"
    BY DEF HearNoise
  <2>2. GoAhead => phase' = "reset"
    BY DEF GoAhead
  <2>3. DiscardBuffered => phase' = "flush" /\ buf' = <<>>
    BY DEF DiscardBuffered
  <2>4. FlushInput => phase' = "write" /\ buf' = <<>> /\ input' = <<>>
    BY DEF FlushInput, BInv, Fresh
  <2> QED
    BY <2>1, <2>2, <2>3, <2>4
<1>5. Fresh'
  BY <1>1, <1>4, NothingInNone DEF Fresh, NoneLeft
<1>6. Whole(input \o line) => Whole(input' \o line')
  <2>1. Whole(input \o line) => Whole(line)
    BY <1>1, WholeSuffix
  <2> QED
    BY <1>1, <1>2, <2>1
<1>7. Unspliced'
  BY <1>1, <1>2, <1>4, <1>6 DEF BInv, Unspliced
<1> QED
  BY <1>1, <1>3, <1>5, <1>7 DEF Streams, BInv, BusTypeOK

\* Back to the caller, or on with the wait: the tokens stay where they are.
LEMMA Staying ==
  ASSUME BInv, UNCHANGED <<line, losses, input, buf>>,
         asked' \in SUBSET [to : {"now", "earlier"}, reg : Registers],
         \/ phase' = "idle" \/ phase' = phase
         \/ phase \in {"write", "look", "await"}
              /\ phase' \in {"look", "await"}
  PROVE  Streams'
<1>1. Fresh'
  BY DEF BInv, Fresh, NoneLeft
<1>2. Unspliced'
  BY DEF BInv, Unspliced
<1> QED
  BY <1>1, <1>2 DEF Streams, BInv, BusTypeOK

LEMMA Writing ==
  ASSUME BInv, NEW heard \in BOOLEAN, WriteCommand(heard)
  PROVE  Streams'
<1>1. asked' \in SUBSET [to : {"now", "earlier"}, reg : Registers]
  <2>1. asked \in SUBSET [to : {"now", "earlier"}, reg : Registers]
        /\ want \in Registers
    BY DEF BInv, BusTypeOK
  <2>2. [to |-> "now", reg |-> want] \in [to : {"now", "earlier"}, reg : Registers]
    BY <2>1
  <2>3. asked' = asked \/ asked' = asked \cup {[to |-> "now", reg |-> want]}
    BY DEF WriteCommand
  <2> QED
    BY <2>1, <2>2, <2>3
<1>2. UNCHANGED <<line, losses, input, buf>> /\ phase = "write"
      /\ phase' \in {"idle", "look"}
  BY DEF WriteCommand, Conclude
<1> QED
  BY <1>1, <1>2, Staying

\* Frames and rubbish leave the stream at its front.
LEMMA Taking == ASSUME BInv, TakeFrame \/ Overflow PROVE Streams'
<1>1. /\ line \in Seq(Tokens) /\ input \in Seq(Tokens) /\ buf \in Seq(Tokens)
      /\ UNCHANGED <<line, asked, losses, input>>
      /\ phase = "await" /\ phase' \in {"idle", "look"}
      /\ Len(buf) <= MaxFrameLen + InputSize
      /\ NoneLeft(line) /\ NoneLeft(input) /\ NoneLeft(buf)
  BY DEF BInv, BusTypeOK, Fresh, TakeFrame, Overflow, Conclude, bus
<1>2. \E p \in Seq(Tokens) :
        /\ buf' \in Seq(Tokens) /\ buf = p \o buf'
        /\ Len(buf') <= MaxFrameLen + InputSize /\ NoneLeft(buf')
  <2>1. CASE TakeFrame
    <3>1. FrameEnd(buf) > 0 /\ buf' = SubSeq(buf, FrameEnd(buf) + 1, Len(buf))
      BY <2>1 DEF TakeFrame, HasFrame
    <3>2. /\ SubSeq(buf, 1, FrameEnd(buf)) \in Seq(Tokens)
          /\ buf' \in Seq(Tokens) /\ Len(buf') <= Len(buf) /\ NoneLeft(buf')
          /\ buf = SubSeq(buf, 1, FrameEnd(buf)) \o buf'
      BY <1>1, <3>1, FrameTaken
    <3>3. Len(buf) \in Nat /\ Len(buf') \in Nat
      BY <1>1, <3>2
    <3>4. Len(buf') <= MaxFrameLen + InputSize
      BY <1>1, <3>2, <3>3, BusBounds
    <3> QED
      BY <3>2, <3>4
  <2>2. CASE Overflow
    <3>1. buf' = <<>> /\ <<>> \in Seq(Tokens) /\ Len(<<>>) = 0
          /\ buf = buf \o <<>>
      BY <1>1, <2>2 DEF Overflow
    <3> QED
      BY <1>1, <3>1, BusBounds, NothingInNone
  <2> QED
    BY <2>1, <2>2
<1>3. PICK p \in Seq(Tokens) :
        /\ buf' \in Seq(Tokens) /\ buf = p \o buf'
        /\ Len(buf') <= MaxFrameLen + InputSize /\ NoneLeft(buf')
  BY <1>2
<1>4. Whole((buf \o input) \o line) => Whole((buf' \o input) \o line)
  <2>0. /\ p \in Seq(Tokens) /\ buf' \in Seq(Tokens)
        /\ input \in Seq(Tokens) /\ line \in Seq(Tokens)
    BY <1>1, <1>3
  <2>1. /\ buf' \o input \in Seq(Tokens)
        /\ (buf' \o input) \o line \in Seq(Tokens)
    BY <2>0, Joined
  <2>2. (p \o buf') \o input = p \o (buf' \o input)
    BY Zenon, <2>0, Regrouped
  <2>3. (p \o (buf' \o input)) \o line = p \o ((buf' \o input) \o line)
    BY Zenon, <2>0, <2>1, Regrouped
  <2>4. (buf \o input) \o line = ((p \o buf') \o input) \o line
    BY <1>3
  <2>5. ((p \o buf') \o input) \o line = p \o ((buf' \o input) \o line)
    BY Zenon, <2>2, <2>3
  <2>6. ASSUME Whole(p \o ((buf' \o input) \o line))
        PROVE  Whole((buf' \o input) \o line)
    BY <1>3, <2>1, <2>6, WholeSuffix
  <2> QED
    BY Zenon, <2>4, <2>5, <2>6
<1>5. Fresh'
  BY <1>1, <1>3 DEF Fresh, NoneLeft
<1>6. Unspliced'
  BY <1>1, <1>4 DEF BInv, Unspliced
<1> QED
  BY <1>1, <1>3, <1>5, <1>6 DEF Streams, BInv, BusTypeOK

LEMMA ReadingMore == ASSUME BInv, ReadMore PROVE Streams'
<1>1. /\ line \in Seq(Tokens) /\ input \in Seq(Tokens) /\ buf \in Seq(Tokens)
      /\ UNCHANGED <<line, asked, losses, phase>>
      /\ phase = "await" /\ buf' = buf \o input /\ input' = <<>>
      /\ Len(buf) <= MaxFrameLen /\ Len(input) <= InputSize
      /\ NoneLeft(line) /\ NoneLeft(input) /\ NoneLeft(buf)
  BY DEF BInv, BusTypeOK, Fresh, ReadMore, bus, exchange
<1>2. /\ buf' \in Seq(Tokens) /\ Len(buf') = Len(buf) + Len(input)
      /\ Len(buf) \in Nat /\ Len(input) \in Nat
      /\ \A i \in 1..Len(buf) : buf'[i] = buf[i]
      /\ \A i \in 1..Len(input) : buf'[Len(buf) + i] = input[i]
  BY <1>1, Joined
<1>3. <<>> \in Seq(Tokens) /\ Len(<<>>) = 0 /\ buf' \o <<>> = buf'
      /\ <<>> \o line = line
  BY <1>1, <1>2
<1>4. NoneLeft(buf')
  <2>1. ASSUME NEW i \in 1..Len(buf')
        PROVE  ~buf'[i].left
    <3>1. CASE i \in 1..Len(buf)
      BY <1>1, <1>2, <3>1 DEF NoneLeft
    <3>2. CASE i \notin 1..Len(buf)
      <4>1. i - Len(buf) \in 1..Len(input) /\ i = Len(buf) + (i - Len(buf))
        BY <1>2, <2>1, <3>2
      <4>2. buf'[i] = input[i - Len(buf)]
        BY <1>2, <4>1
      <4> QED
        BY <1>1, <4>1, <4>2 DEF NoneLeft
    <3> QED
      BY <3>1, <3>2
  <2> QED
    BY <2>1 DEF NoneLeft
<1>5. Whole(input \o line) => Whole(line)
  BY <1>1, WholeSuffix
<1>6. Fresh'
  BY <1>1, <1>4, NothingInNone DEF Fresh, NoneLeft
<1>7. (buf' \o input') \o line' = (buf \o input) \o line
      /\ input' \o line' = line
  BY <1>1, <1>3
<1>8. Unspliced'
  BY <1>1, <1>5, <1>7 DEF BInv, Unspliced
<1>9. Len(buf') <= MaxFrameLen + InputSize /\ Len(input') <= InputSize
  BY <1>1, <1>2, <1>3, BusBounds
<1> QED
  BY <1>1, <1>2, <1>3, <1>6, <1>8, <1>9 DEF Streams, BInv, BusTypeOK

LEMMA BusStep == ASSUME BInv, [BusNext]_busVars PROVE BInv'
<1>0. SUFFICES Streams'
  BY ControlStep DEF BInv, BusTypeOK, ControlType, Streams
<1>1. asked \in SUBSET [to : {"now", "earlier"}, reg : Registers]
  BY DEF BInv, BusTypeOK
<1>2. CASE HearNoise \/ GoAhead \/ DiscardBuffered \/ FlushInput
  BY <1>2, Quieting
<1>3. ASSUME NEW heard \in BOOLEAN, WriteCommand(heard)
      PROVE  Streams'
  BY <1>3, Writing
<1>4. CASE TakeFrame \/ Overflow
  BY <1>4, Taking
<1>5. CASE ReadMore
  BY <1>5, ReadingMore
<1>6. CASE TimeOut \/ Cancelled \/ LookOn \/ TimePasses \/ UNCHANGED busVars
  <2>1. /\ UNCHANGED <<line, losses, input, buf, asked>>
        /\ \/ phase' = "idle" \/ phase' = phase
           \/ phase = "look" /\ phase' = "await"
    BY <1>6 DEF TimeOut, Cancelled, LookOn, TimePasses, Conclude, bus, exchange,
                busVars
  <2> QED
    BY <1>1, <2>1, Staying
<1>7. CASE Arrives
  BY <1>7, Arriving
<1>8. CASE GetsLost
  BY <1>8, Losing
<1>9. ASSUME NEW r \in Registers, NEW kind \in BOOLEAN, Begin(r, kind)
      PROVE  Streams'
  BY <1>9, Beginning
<1>10. ASSUME NEW r \in Registers, PanelTalks(r)
       PROVE  Streams'
  <2>1. /\ line = <<>> /\ line' = Frame("other", r)
        /\ UNCHANGED <<losses, input, buf, exchange>> /\ asked' = asked
    BY <1>10 DEF PanelTalks
  <2> QED
    BY <1>1, <2>1, FrameSent
<1>11. ASSUME NEW a \in asked, UnitAnswers(a)
       PROVE  Streams'
  <2>1. /\ line = <<>> /\ line' = Frame(a.to, a.reg)
        /\ UNCHANGED <<losses, input, buf, exchange>> /\ asked' = asked \ {a}
    BY <1>11 DEF UnitAnswers
  <2>2. a.to \in {"now", "earlier", "other"} /\ a.reg \in Registers
    BY <1>1, <1>11
  <2>3. asked' \in SUBSET [to : {"now", "earlier"}, reg : Registers]
    BY <1>1, <2>1
  <2> QED
    BY <2>1, <2>2, <2>3, FrameSent
<1> QED
  BY <1>2, <1>3, <1>4, <1>5, <1>6, <1>7, <1>8, <1>9, <1>10, <1>11
     DEF BusNext, Proceed

LEMMA BusInvariant == BusSpec => []BInv
<1>1. BusInit => BInv
  BY BusInitial
<1>2. BInv /\ [BusNext]_busVars => BInv'
  BY BusStep
<1> QED
  BY <1>1, <1>2, PTL DEF BusSpec
-----------------------------------------------------------------------------
(***************************************************************************)
(* The reply to the exchange under way: where its two tokens may be.       *)
(***************************************************************************)
StartsReply(t, r) == t.to = "now" /\ t.part = "head" /\ t.reg = r
NoneNow(s) == \A i \in 1..Len(s) : s[i].to # "now"

\* No end of a reply comes without its beginning.
OwnReplies(s, r) ==
  \A j \in 1..Len(s) : EndsReply(s[j]) => j > 1 /\ StartsReply(s[j - 1], r)
HasReply(s, r) ==
  \E j \in 2..Len(s) : EndsReply(s[j]) /\ StartsReply(s[j - 1], r)

(***************************************************************************)
(* Before the command is written nobody has answered it; then what the     *)
(* line has not lost is whole, and an answer that was read is in buf.      *)
(***************************************************************************)
Unanswered ==
  /\ NoneNow(line) /\ NoneNow(input) /\ NoneNow(buf)
  /\ \A a \in asked : a.to # "now"
  /\ ~answered
Answerable ==
  /\ \A a \in asked : a.to = "now" => a.reg = want
  /\ losses = 0 => /\ OwnReplies((buf \o input) \o line, want)
                   /\ answered => HasReply(buf, want)
Answering ==
  /\ phase \in {"quiet", "reset", "flush", "write"} => Unanswered
  /\ phase \in {"look", "await"} => Answerable

LEMMA FirstFrameEnd ==
  ASSUME NEW s \in Seq(Tokens), NEW j \in 1..Len(s), s[j].part = "tail"
  PROVE  FrameEnd(s) > 0 /\ FrameEnd(s) <= j
<1> DEFINE I == {i \in 1..Len(s) : s[i].part = "tail"}
<1>1. j \in I /\ I \in SUBSET Nat /\ \A i \in I : i > 0
  OBVIOUS
<1>2. FrameEnd(s) = Min(I)
  BY <1>1 DEF FrameEnd, SelectInSeq
<1>3. \E x \in I : \A y \in I : x <= y
  BY <1>1, LeastNatural
<1>4. Min(I) \in I /\ \A y \in I : Min(I) <= y
  BY <1>3 DEF Min
<1> QED
  BY <1>1, <1>2, <1>4

LEMMA NoneNowJoined ==
  ASSUME NEW a \in Seq(Tokens), NEW b \in Seq(Tokens), NoneNow(a), NoneNow(b)
  PROVE  NoneNow(a \o b)
<1>1. /\ Len(a) \in Nat /\ Len(b) \in Nat /\ Len(a \o b) = Len(a) + Len(b)
      /\ \A i \in 1..Len(a) : (a \o b)[i] = a[i]
      /\ \A i \in 1..Len(b) : (a \o b)[Len(a) + i] = b[i]
  BY Joined
<1>2. ASSUME NEW i \in 1..Len(a \o b)
      PROVE  (a \o b)[i].to # "now"
  <2>1. CASE i \in 1..Len(a)
    BY <1>1, <2>1 DEF NoneNow
  <2>2. CASE i \notin 1..Len(a)
    <3>1. i - Len(a) \in 1..Len(b) /\ i = Len(a) + (i - Len(a))
      BY <1>1, <1>2, <2>2
    <3>2. (a \o b)[i] = b[i - Len(a)]
      BY <1>1, <3>1
    <3> QED
      BY <3>1, <3>2 DEF NoneNow
  <2> QED
    BY <2>1, <2>2
<1> QED
  BY <1>2 DEF NoneNow

LEMMA NoneNowMoves ==
  ASSUME NEW s \in Seq(Tokens), NEW l \in Seq(Tokens), l # <<>>,
         NoneNow(s), NoneNow(l)
  PROVE  NoneNow(Append(s, Head(l))) /\ NoneNow(Tail(l))
<1>1. /\ Tail(l) \in Seq(Tokens) /\ <<Head(l)>> \in Seq(Tokens)
      /\ Len(Tail(l)) = Len(l) - 1 /\ Len(l) \in Nat /\ Len(l) >= 1
      /\ Head(l) = l[1]
      /\ \A i \in 1..Len(Tail(l)) : Tail(l)[i] = l[i + 1]
  BY HeadTailProperties, EmptySeq
<1>2. NoneNow(Tail(l))
  BY <1>1 DEF NoneNow
<1>3. NoneNow(<<Head(l)>>)
  <2>1. 1 \in 1..Len(l) /\ l[1].to # "now"
    BY <1>1 DEF NoneNow
  <2>2. Len(<<Head(l)>>) = 1 /\ <<Head(l)>>[1] = l[1]
    BY <1>1
  <2> QED
    BY <2>1, <2>2 DEF NoneNow
<1>4. Append(s, Head(l)) = s \o <<Head(l)>>
  BY <1>1
<1> QED
  BY <1>1, <1>2, <1>3, <1>4, NoneNowJoined

LEMMA FrameReplies ==
  ASSUME NEW s \in Seq(Tokens), NEW r, OwnReplies(s, r),
         NEW to \in {"now", "earlier", "other"}, NEW q \in Registers,
         to = "now" => q = r
  PROVE  OwnReplies(s \o Frame(to, q), r)
<1> DEFINE f == Frame(to, q)
<1>1. f \in Seq(Tokens) /\ Len(f) = 2
  BY FrameType
<1>2. /\ f[1].part = "head" /\ f[1].to = to /\ f[1].reg = q
      /\ f[2].to = to
  BY DEF Frame
<1> HIDE DEF f
<1>3. /\ Len(s) \in Nat /\ Len(s \o f) = Len(s) + 2
      /\ \A i \in 1..Len(s) : (s \o f)[i] = s[i]
      /\ (s \o f)[Len(s) + 1] = f[1] /\ (s \o f)[Len(s) + 2] = f[2]
  <2>1. /\ Len(s) \in Nat /\ Len(s \o f) = Len(s) + 2
        /\ \A i \in 1..Len(s) : (s \o f)[i] = s[i]
        /\ \A i \in 1..2 : (s \o f)[Len(s) + i] = f[i]
    <3>1. /\ Len(s) \in Nat /\ Len(s \o f) = Len(s) + Len(f)
          /\ \A i \in 1..Len(s) : (s \o f)[i] = s[i]
          /\ \A i \in 1..Len(f) : (s \o f)[Len(s) + i] = f[i]
      BY <1>1, Joined
    <3> QED
      BY <1>1, <3>1
  <2>2. 1 \in 1..2 /\ 2 \in 1..2
    OBVIOUS
  <2> QED
    BY <2>1, <2>2
<1>4. ASSUME NEW j \in 1..Len(s \o f), EndsReply((s \o f)[j])
      PROVE  j > 1 /\ StartsReply((s \o f)[j - 1], r)
  <2>1. CASE j \in 1..Len(s)
    <3>1. j > 1 /\ StartsReply(s[j - 1], r)
      BY <1>3, <1>4, <2>1 DEF OwnReplies
    <3>2. j - 1 \in 1..Len(s)
      BY <1>3, <2>1, <3>1
    <3> QED
      BY <1>3, <3>1, <3>2
  <2>2. CASE j = Len(s) + 1
    <3>1. (s \o f)[j].part = "head"
      BY <1>2, <1>3, <2>2
    <3> QED
      BY <1>4, <3>1 DEF EndsReply
  <2>3. CASE j = Len(s) + 2
    <3>1. j > 1 /\ j - 1 = Len(s) + 1
      BY <1>3, <2>3
    <3>2. to = "now"
      BY <1>2, <1>3, <1>4, <2>3 DEF EndsReply
    <3>3. (s \o f)[j - 1] = f[1]
      BY <1>3, <3>1
    <3> QED
      BY <1>2, <3>1, <3>2, <3>3 DEF StartsReply
  <2> QED
    BY <1>3, <2>1, <2>2, <2>3
<1> QED
  BY <1>4 DEF OwnReplies, f

\* Behind the end of a frame no reply has lost its beginning.
LEMMA SuffixReplies ==
  ASSUME NEW p \in Seq(Tokens), NEW s \in Seq(Tokens), NEW r,
         Len(p) > 0, p[Len(p)].part = "tail", OwnReplies(p \o s, r)
  PROVE  OwnReplies(s, r)
<1>1. /\ Len(p) \in Nat /\ Len(s) \in Nat /\ Len(p \o s) = Len(p) + Len(s)
      /\ \A i \in 1..Len(p) : (p \o s)[i] = p[i]
      /\ \A i \in 1..Len(s) : (p \o s)[Len(p) + i] = s[i]
  BY Joined
<1>2. ASSUME NEW j \in 1..Len(s), EndsReply(s[j])
      PROVE  j > 1 /\ StartsReply(s[j - 1], r)
  <2>1. Len(p) + j \in 1..Len(p \o s) /\ (p \o s)[Len(p) + j] = s[j]
    BY <1>1, <1>2
  <2>2. StartsReply((p \o s)[(Len(p) + j) - 1], r)
    BY <1>2, <2>1 DEF OwnReplies
  <2>3. CASE j = 1
    <3>1. (Len(p) + j) - 1 = Len(p) /\ Len(p) \in 1..Len(p)
      BY <1>1, <2>3
    <3>2. (p \o s)[(Len(p) + j) - 1].part = "tail"
      BY <1>1, <3>1
    <3> QED
      BY <2>2, <3>2 DEF StartsReply
  <2>4. CASE j > 1
    <3>1. (Len(p) + j) - 1 = Len(p) + (j - 1) /\ j - 1 \in 1..Len(s)
      BY <1>1, <2>4
    <3>2. (p \o s)[(Len(p) + j) - 1] = s[j - 1]
      BY <1>1, <3>1
    <3> QED
      BY <2>2, <2>4, <3>2
  <2> QED
    BY <1>1, <2>3, <2>4
<1> QED
  BY <1>2 DEF OwnReplies

\* A frame that is not the reply does not take the reply, or a part of it,
\* along.
LEMMA ReplySurvives ==
  ASSUME NEW s \in Seq(Tokens), NEW t \in Seq(Tokens), NEW r,
         Whole(s \o t), HasReply(s, r), FrameEnd(s) > 0,
         LET f == SubSeq(s, 1, FrameEnd(s))
         IN  ~(Len(f) = 2 /\ f[1].part = "head" /\ f[1].reg = r)
  PROVE  HasReply(SubSeq(s, FrameEnd(s) + 1, Len(s)), r)
<1> DEFINE k == FrameEnd(s)
           f == SubSeq(s, 1, k)
           rest == SubSeq(s, k + 1, Len(s))
<1>1. /\ k \in 1..Len(s) /\ Len(s) \in Nat /\ Len(f) = k
      /\ \A i \in 1..k : f[i] = s[i]
      /\ s[k].part = "tail"
  BY FrameTaken, FrameEndRange
<1>2. \A i \in 1..Len(s) : s[i].part = "tail" => k <= i
  BY FirstFrameEnd
<1>3. ~(Len(f) = 2 /\ f[1].part = "head" /\ f[1].reg = r)
  OBVIOUS
<1> HIDE DEF k, f
<1>4. /\ Len(rest) = Len(s) - k
      /\ \A i \in 1..Len(rest) : rest[i] = s[k + i]
  BY <1>1, SubSeqProperties
<1> HIDE DEF rest
<1>5. PICK j \in 2..Len(s) : EndsReply(s[j]) /\ StartsReply(s[j - 1], r)
  BY DEF HasReply
<1>6. j \in 1..Len(s) /\ j - 1 \in 1..Len(s) /\ k <= j /\ k # j - 1
  <2>1. j \in 1..Len(s) /\ j - 1 \in 1..Len(s)
    BY <1>1, <1>5
  <2>2. s[j].part = "tail" /\ s[j - 1].part = "head"
    BY <1>5 DEF EndsReply, StartsReply
  <2> QED
    BY <1>1, <1>2, <2>1, <2>2
<1>7. \A i \in 1..Len(s) : s[i].part = "head" /\ i < Len(s)
                             => s[i + 1].part = "tail"
  <2>1. /\ Len(t) \in Nat /\ Len(s \o t) = Len(s) + Len(t)
        /\ \A i \in 1..Len(s) : (s \o t)[i] = s[i]
    BY Joined
  <2>2. ASSUME NEW i \in 1..Len(s), s[i].part = "head", i < Len(s)
        PROVE  s[i + 1].part = "tail"
    <3>1. i \in 1..Len(s \o t) /\ i + 1 \in 1..Len(s)
      BY <1>1, <2>1, <2>2
    <3>2. (s \o t)[i] = s[i] /\ (s \o t)[i + 1] = s[i + 1]
      BY <2>1, <3>1
    <3>3. Belong((s \o t)[i], (s \o t)[i + 1])
      BY <2>2, <3>1, <3>2 DEF Whole
    <3> QED
      BY <3>2, <3>3 DEF Belong
  <2> QED
    BY <2>2
<1>8. k # j
  <2>1. SUFFICES ASSUME k = j PROVE FALSE
    OBVIOUS
  <2>2. CASE j = 2
    <3>1. Len(f) = 2 /\ f[1] = s[1] /\ j - 1 = 1
      BY <1>1, <2>1, <2>2
    <3> QED
      BY <1>3, <1>5, <3>1 DEF StartsReply
  <2>3. CASE j > 2
    <3>1. j - 2 \in 1..Len(s) /\ j - 2 < Len(s) /\ (j - 2) + 1 = j - 1
      BY <1>1, <1>5, <2>3
    <3>2. s[j - 2].part # "tail"
      BY <1>1, <1>2, <2>1, <3>1
    <3>3. s[j - 2].part = "head"
      <4>1. s[j - 2] \in Tokens
        BY <3>1
      <4> QED
        BY <3>2, <4>1 DEF Tokens
    <3>4. s[j - 1].part = "tail"
      BY <1>7, <3>1, <3>3
    <3> QED
      BY <1>5, <3>4 DEF StartsReply
  <2> QED
    BY <1>5, <2>2, <2>3
<1>9. /\ j - k \in 2..Len(rest) /\ j - k \in 1..Len(rest)
      /\ (j - k) - 1 \in 1..Len(rest)
      /\ k + (j - k) = j /\ k + ((j - k) - 1) = j - 1
  BY <1>1, <1>4, <1>5, <1>6, <1>8
<1>10. rest[j - k] = s[j] /\ rest[(j - k) - 1] = s[j - 1]
  BY <1>4, <1>9
<1>11. HasReply(rest, r)
  BY <1>5, <1>9, <1>10 DEF HasReply
<1> QED
  BY <1>11 DEF k, rest

LEMMA StreamTypes ==
  ASSUME BInv
  PROVE  /\ line \in Seq(Tokens) /\ input \in Seq(Tokens)
         /\ buf \in Seq(Tokens) /\ buf \o input \in Seq(Tokens)
         /\ input \o line \in Seq(Tokens)
         /\ (buf \o input) \o line = buf \o (input \o line)
<1>1. line \in Seq(Tokens) /\ input \in Seq(Tokens) /\ buf \in Seq(Tokens)
  BY DEF BInv, BusTypeOK
<1> QED
  BY <1>1, Joined, Regrouped

LEMMA NobodyAnswers ==
  ASSUME NEW s \in Seq(Tokens), NEW r, NoneNow(s)
  PROVE  OwnReplies(s, r)
BY DEF NoneNow, OwnReplies, EndsReply

LEMMA FrameAnswers ==
  ASSUME BInv, Answering, line = <<>>, NEW to \in {"now", "earlier", "other"},
         NEW q \in Registers, line' = Frame(to, q), asked' \subseteq asked,
         UNCHANGED <<losses, input, buf, exchange, answered>>,
         to = "now" => \E a \in asked : a.to = "now" /\ a.reg = q
  PROVE  Answering'
<1>1. /\ input' = input /\ buf' = buf /\ losses' = losses /\ phase' = phase
      /\ want' = want /\ answered' = answered
  BY DEF exchange
<1>2. CASE phase \in {"quiet", "reset", "flush", "write"}
  <2>1. Unanswered
    BY <1>2 DEF Answering
  <2>2. to # "now"
    BY <2>1 DEF Unanswered
  <2>3. NoneNow(Frame(to, q))
    <3>1. /\ Len(Frame(to, q)) = 2
          /\ Frame(to, q)[1].to = to /\ Frame(to, q)[2].to = to
      BY FrameType DEF Frame
    <3>2. \A i \in 1..2 : i = 1 \/ i = 2
      OBVIOUS
    <3> QED
      BY <2>2, <3>1, <3>2 DEF NoneNow
  <2> QED
    BY <1>1, <1>2, <2>1, <2>3 DEF Answering, Unanswered, NoneNow
<1>3. CASE phase \in {"look", "await"}
  <2>1. Answerable
    BY <1>3 DEF Answering
  <2>2. to = "now" => q = want
    BY <2>1 DEF Answerable
  <2>3. (buf \o input) \o line = buf \o input
    BY StreamTypes
  <2>4. OwnReplies(buf \o input, want)
        => OwnReplies((buf \o input) \o Frame(to, q), want)
    BY <2>2, StreamTypes, FrameReplies
  <2>5. Answerable'
    BY <1>1, <2>1, <2>3, <2>4 DEF Answerable
  <2> QED
    BY <1>1, <1>3, <2>5 DEF Answering
<1>4. CASE phase = "idle"
  BY <1>1, <1>4 DEF Answering
<1> QED
  BY <1>2, <1>3, <1>4 DEF BInv, BusTypeOK

LEMMA ArrivingAnswers == ASSUME BInv, Answering, Arrives PROVE Answering'
<1>1. /\ line # <<>> /\ line' = Tail(line) /\ input' = Append(input, Head(line))
      /\ UNCHANGED <<asked, losses, buf, phase, want, answered>>
  BY DEF Arrives, exchange
<1>2. (buf' \o input') \o line' = (buf \o input) \o line
  <2>1. /\ input' \in Seq(Tokens) /\ line' \in Seq(Tokens)
        /\ input' \o line' = input \o line
    <3>1. line \in Seq(Tokens) /\ input \in Seq(Tokens)
      BY StreamTypes
    <3>2. /\ Append(input, Head(line)) \in Seq(Tokens)
          /\ Tail(line) \in Seq(Tokens)
          /\ Append(input, Head(line)) \o Tail(line) = input \o line
      BY <1>1, <3>1, HeadMoves
    <3> QED
      BY <1>1, <3>2
  <2>2. (buf \o input') \o line' = buf \o (input' \o line')
    <3>1. buf \in Seq(Tokens)
      BY StreamTypes
    <3> QED
      BY <2>1, <3>1, Regrouped
  <2> QED
    BY <1>1, <2>1, <2>2, StreamTypes
<1>3. Unanswered => Unanswered'
  <2>1. NoneNow(input) /\ NoneNow(line) => NoneNow(input') /\ NoneNow(line')
    BY <1>1, StreamTypes, NoneNowMoves
  <2> QED
    BY <1>1, <2>1 DEF Unanswered, NoneNow
<1>4. Answerable => Answerable'
  BY <1>1, <1>2 DEF Answerable
<1> QED
  BY <1>1, <1>3, <1>4 DEF Answering

LEMMA LosingAnswers == ASSUME BInv, Answering, GetsLost PROVE Answering'
<1>1. /\ line # <<>> /\ line' = Tail(line)
      /\ UNCHANGED <<asked, input, buf, phase, want, answered>>
      /\ losses' = losses + 1 /\ losses \in 0..MaxLosses
  BY DEF GetsLost, exchange, BInv, BusTypeOK
<1>2. losses' # 0
  BY <1>1, BusBounds
<1>3. Unanswered => Unanswered'
  <2>1. NoneNow(line) => NoneNow(line')
    BY <1>1, StreamTypes, NoneNowMoves
  <2> QED
    BY <1>1, <2>1 DEF Unanswered, NoneNow
<1>4. Answerable => Answerable'
  BY <1>1, <1>2 DEF Answerable
<1> QED
  BY <1>1, <1>3, <1>4 DEF Answering

\* Whatever was on its way answers an earlier exchange from now on.
LEMMA BeginningAnswers ==
  ASSUME BInv, NEW r \in Registers, NEW kind \in BOOLEAN, Begin(r, kind)
  PROVE  Answering'
<1>1. /\ line' = AgedTokens(line, FALSE) /\ input' = AgedTokens(input, TRUE)
      /\ buf' = AgedTokens(buf, TRUE) /\ phase' = "quiet" /\ answered' = FALSE
      /\ asked' = {[a EXCEPT !.to = "earlier"] : a \in asked}
  BY DEF Begin
<1>2. ASSUME NEW s \in Seq(Tokens), NEW b \in BOOLEAN
      PROVE  NoneNow(AgedTokens(s, b))
  <2>1. /\ Len(AgedTokens(s, b)) = Len(s)
        /\ \A i \in 1..Len(s) : AgedTokens(s, b)[i].to = Aged(s[i].to)
    BY Ageing
  <2>2. \A to : Aged(to) # "now"
    BY DEF Aged
  <2> QED
    BY <2>1, <2>2 DEF NoneNow
<1>3. \A a \in asked' : a.to # "now"
  <2>1. asked \in SUBSET [to : {"now", "earlier"}, reg : Registers]
    BY DEF BInv, BusTypeOK
  <2>2. \A a \in asked : [a EXCEPT !.to = "earlier"].to = "earlier"
    BY <2>1
  <2> QED
    BY <1>1, <2>2
<1>4. TRUE \in BOOLEAN /\ FALSE \in BOOLEAN
  OBVIOUS
<1>5. NoneNow(line') /\ NoneNow(input') /\ NoneNow(buf')
  BY <1>1, <1>2, <1>4, StreamTypes
<1>6. Unanswered'
  BY <1>1, <1>3, <1>5 DEF Unanswered, NoneNow
<1> QED
  BY <1>1, <1>6 DEF Answering

LEMMA QuietingAnswers ==
  ASSUME BInv, Answering, HearNoise \/ GoAhead \/ DiscardBuffered \/ FlushInput
  PROVE  Answering'
<1>1. /\ UNCHANGED <<line, asked, answered>>
      /\ input' = input \/ input' = <<>>
      /\ buf' = buf \/ buf' = <<>>
      /\ phase \in {"quiet", "reset", "flush", "write"}
      /\ phase' \in {"quiet", "reset", "flush", "write"}
  BY DEF HearNoise, GoAhead, DiscardBuffered, FlushInput, bus
<1>2. NoneNow(<<>>)
  BY DEF NoneNow
<1>3. Unanswered'
  BY <1>1, <1>2 DEF Answering, Unanswered, NoneNow
<1> QED
  BY <1>1, <1>3 DEF Answering

LEMMA WritingAnswers ==
  ASSUME BInv, Answering, NEW heard \in BOOLEAN, WriteCommand(heard)
  PROVE  Answering'
<1>1. /\ phase = "write" /\ phase' \in {"idle", "look"} /\ want' = want
      /\ UNCHANGED <<line, losses, input, buf, answered>>
      /\ asked' = asked \/ asked' = asked \cup {[to |-> "now", reg |-> want]}
  BY DEF WriteCommand, Conclude
<1>2. Unanswered
  BY <1>1 DEF Answering
<1>3. OwnReplies((buf \o input) \o line, want)
  <2>1. NoneNow(buf \o input)
    BY <1>2, StreamTypes, NoneNowJoined DEF Unanswered
  <2>2. NoneNow((buf \o input) \o line)
    BY <1>2, <2>1, StreamTypes, NoneNowJoined DEF Unanswered
  <2>3. (buf \o input) \o line \in Seq(Tokens)
    BY StreamTypes, Joined
  <2> QED
    BY <2>2, <2>3, NobodyAnswers
<1>4. Answerable'
  BY <1>1, <1>2, <1>3 DEF Answerable, Unanswered
<1> QED
  BY <1>1, <1>4 DEF Answering

\* The end of the reply that was read is in buf, and behind its beginning.
LEMMA ReadingAnswers == ASSUME BInv, Answering, ReadMore PROVE Answering'
<1>1. /\ phase = "await" /\ buf' = buf \o input /\ input' = <<>>
      /\ UNCHANGED <<line, asked, losses, phase, want>> /\ ~HasFrame
      /\ answered' = (answered \/ \E i \in DOMAIN input : EndsReply(input[i]))
  BY DEF ReadMore, bus, exchange
<1>2. Answerable
  BY <1>1 DEF Answering
<1>3. /\ buf' \in Seq(Tokens)
      /\ (buf' \o input') \o line' = (buf \o input) \o line
      /\ Len(buf) \in Nat /\ Len(input) \in Nat
      /\ Len(buf') = Len(buf) + Len(input)
      /\ \A i \in 1..Len(input) : buf'[Len(buf) + i] = input[i]
  <2>1. buf' \o <<>> = buf'
    BY <1>1, StreamTypes
  <2> QED
    BY <1>1, <2>1, StreamTypes, Joined
<1>4. ASSUME losses = 0, HasReply(buf, want)
      PROVE  FALSE
  <2>1. PICK j \in 2..Len(buf) : EndsReply(buf[j])
    BY <1>4 DEF HasReply
  <2>2. j \in 1..Len(buf) /\ buf[j].part = "tail"
    BY <1>3, <2>1 DEF EndsReply
  <2> QED
    BY <1>1, <2>2, StreamTypes, FirstFrameEnd DEF HasFrame
<1>5. ASSUME losses = 0, NEW i \in DOMAIN input, EndsReply(input[i])
      PROVE  HasReply(buf', want)
  <2>1. i \in 1..Len(input)
    BY <1>5, StreamTypes
  <2> DEFINE j == Len(buf) + i
             u == buf' \o line
  <2>2. j \in 1..Len(buf') /\ buf'[j] = input[i]
    BY <1>3, <2>1
  <2>3. /\ Len(u) = Len(buf') + Len(line) /\ Len(line) \in Nat
        /\ Len(buf') \in Nat
        /\ \A n \in 1..Len(buf') : u[n] = buf'[n]
    BY <1>3, StreamTypes, Joined
  <2>4. OwnReplies(u, want)
    BY <1>1, <1>2, <1>5 DEF Answerable
  <2> HIDE DEF j, u
  <2>5. j \in 1..Len(u) /\ EndsReply(u[j])
    BY <1>5, <2>2, <2>3
  <2>6. j > 1 /\ StartsReply(u[j - 1], want)
    BY <2>4, <2>5 DEF OwnReplies
  <2>7. j \in 2..Len(buf') /\ j - 1 \in 1..Len(buf')
    BY <2>2, <2>3, <2>6
  <2>8. EndsReply(buf'[j]) /\ StartsReply(buf'[j - 1], want)
    BY <2>3, <2>5, <2>6, <2>7, <2>2
  <2> QED
    BY <2>7, <2>8 DEF HasReply
<1>6. losses = 0 /\ answered' => HasReply(buf', want)
  BY <1>1, <1>2, <1>4, <1>5 DEF Answerable
<1>7. Answerable'
  BY <1>1, <1>2, <1>3, <1>6 DEF Answerable
<1> QED
  BY <1>1, <1>7 DEF Answering

LEMMA TakingAnswers == ASSUME BInv, Answering, TakeFrame PROVE Answering'
<1>1. /\ phase = "await" /\ HasFrame /\ want' = want
      /\ buf' = SubSeq(buf, FrameEnd(buf) + 1, Len(buf))
      /\ UNCHANGED <<line, asked, losses, input, answered>>
  BY DEF TakeFrame, bus
<1>2. Answerable
  BY <1>1 DEF Answering
<1>3. CASE Matches(NextFrame)
  <2>1. phase' = "idle"
    BY <1>3 DEF TakeFrame, Conclude
  <2> QED
    BY <2>1 DEF Answering
<1>4. CASE ~Matches(NextFrame)
  <2>1. phase' = "look"
    BY <1>4 DEF TakeFrame
  <2>2. ASSUME losses = 0, HasReply(buf, want)
        PROVE  HasReply(buf', want)
    <3>1. Whole(buf \o (input \o line))
      BY <1>1, <2>2, StreamTypes DEF BInv, Unspliced
    <3>2. ~(/\ Len(SubSeq(buf, 1, FrameEnd(buf))) = 2
            /\ SubSeq(buf, 1, FrameEnd(buf))[1].part = "head"
            /\ SubSeq(buf, 1, FrameEnd(buf))[1].reg = want)
      BY <1>4 DEF Matches, NextFrame
    <3> QED
      BY <1>1, <2>2, <3>1, <3>2, StreamTypes, ReplySurvives DEF HasFrame
  <2>3. ASSUME losses = 0, OwnReplies((buf \o input) \o line, want)
        PROVE  OwnReplies((buf' \o input) \o line, want)
    <3> DEFINE p == SubSeq(buf, 1, FrameEnd(buf))
    <3>1. /\ p \in Seq(Tokens) /\ buf' \in Seq(Tokens) /\ buf = p \o buf'
          /\ Len(p) = FrameEnd(buf) /\ Len(p) > 0
          /\ p[Len(p)] = buf[FrameEnd(buf)]
      <4>1. /\ FrameEnd(buf) \in 1..Len(buf) /\ FrameEnd(buf) > 0
            /\ p \in Seq(Tokens) /\ buf' \in Seq(Tokens) /\ buf = p \o buf'
            /\ Len(p) = FrameEnd(buf)
            /\ \A i \in 1..FrameEnd(buf) : p[i] = buf[i]
        BY <1>1, StreamTypes, FrameTaken DEF HasFrame
      <4>2. FrameEnd(buf) \in 1..FrameEnd(buf)
        BY <4>1
      <4> QED
        BY <4>1, <4>2
    <3>2. p[Len(p)].part = "tail"
      BY <1>1, <3>1, StreamTypes, FrameEndRange DEF HasFrame
    <3> HIDE DEF p
    <3>3. /\ buf' \o input \in Seq(Tokens)
          /\ (buf' \o input) \o line \in Seq(Tokens)
          /\ line \in Seq(Tokens) /\ input \in Seq(Tokens)
      <4>1. line \in Seq(Tokens) /\ input \in Seq(Tokens)
        BY StreamTypes
      <4>2. buf' \o input \in Seq(Tokens)
        BY <3>1, <4>1, Joined
      <4> QED
        BY <4>1, <4>2, Joined
    <3>4. (p \o buf') \o input = p \o (buf' \o input)
      <4>1. /\ p \in Seq(Tokens) /\ buf' \in Seq(Tokens)
            /\ input \in Seq(Tokens)
        BY <3>1, <3>3
      <4> QED
        BY Zenon, <4>1, Regrouped
    <3>5. (p \o (buf' \o input)) \o line = p \o ((buf' \o input) \o line)
      <4>1. /\ p \in Seq(Tokens) /\ line \in Seq(Tokens)
            /\ buf' \o input \in Seq(Tokens)
        BY <3>1, <3>3
      <4> QED
        BY Zenon, <4>1, Regrouped
    <3>6. OwnReplies(p \o ((buf' \o input) \o line), want)
      BY Zenon, <2>3, <3>1, <3>4, <3>5
    <3> QED
      BY <3>1, <3>2, <3>3, <3>6, SuffixReplies
  <2>4. Answerable'
    BY <1>1, <1>2, <2>2, <2>3 DEF Answerable
  <2> QED
    BY <2>1, <2>4 DEF Answering
<1> QED
  BY <1>3, <1>4

LEMMA AnsweringStep ==
  ASSUME BInv, Answering, [BusNext]_busVars
  PROVE  Answering'
<1>1. CASE HearNoise \/ GoAhead \/ DiscardBuffered \/ FlushInput
  BY <1>1, QuietingAnswers
<1>2. ASSUME NEW heard \in BOOLEAN, WriteCommand(heard)
      PROVE  Answering'
  BY <1>2, WritingAnswers
<1>3. CASE TakeFrame
  BY <1>3, TakingAnswers
<1>4. CASE ReadMore
  BY <1>4, ReadingAnswers
<1>5. CASE Overflow \/ TimeOut \/ Cancelled
  <2>1. phase' = "idle"
    BY <1>5 DEF Overflow, TimeOut, Cancelled, Conclude
  <2> QED
    BY <2>1 DEF Answering
<1>6. CASE LookOn \/ TimePasses \/ UNCHANGED busVars
  <2>1. /\ UNCHANGED <<line, asked, losses, input, buf, want, answered>>
        /\ \/ phase' = phase
           \/ phase = "look" /\ phase' = "await"
    <3>1. CASE LookOn
      BY <3>1 DEF LookOn, bus
    <3>2. CASE TimePasses
      BY <3>2 DEF TimePasses, bus
    <3>3. CASE UNCHANGED busVars
      BY <3>3 DEF busVars, bus, exchange
    <3> QED
      BY <1>6, <3>1, <3>2, <3>3
  <2>2. Unanswered => Unanswered'
    BY <2>1 DEF Unanswered, NoneNow
  <2>3. Answerable => Answerable'
    BY <2>1 DEF Answerable
  <2> QED
    BY <2>1, <2>2, <2>3 DEF Answering
<1>7. CASE Arrives
  BY <1>7, ArrivingAnswers
<1>8. CASE GetsLost
  BY <1>8, LosingAnswers
<1>9. ASSUME NEW r \in Registers, NEW kind \in BOOLEAN, Begin(r, kind)
      PROVE  Answering'
  BY <1>9, BeginningAnswers
<1>10. ASSUME NEW r \in Registers, PanelTalks(r)
       PROVE  Answering'
  BY <1>10, FrameAnswers DEF PanelTalks
<1>11. ASSUME NEW a \in asked, UnitAnswers(a)
       PROVE  Answering'
  <2>1. a.to \in {"now", "earlier"} /\ a.reg \in Registers
    BY DEF BInv, BusTypeOK
  <2>2. /\ line = <<>> /\ line' = Frame(a.to, a.reg) /\ asked' \subseteq asked
        /\ UNCHANGED <<losses, input, buf, exchange, answered>>
    BY <1>11 DEF UnitAnswers
  <2> QED
    BY <2>1, <2>2, FrameAnswers
<1> QED
  BY <1>1, <1>2, <1>3, <1>4, <1>5, <1>6, <1>7, <1>8, <1>9, <1>10, <1>11
     DEF BusNext, Proceed
-----------------------------------------------------------------------------
\* A transaction that waits for a reply gets a result in these steps only.
LEMMA ResultOf ==
  ASSUME BInv, [BusNext]_busVars, phase = "await"
  PROVE  /\ outcome' = "reply" => TakeFrame /\ Matches(NextFrame)
         /\ outcome' \in {"timeout", "overflow"} => ~HasFrame
<1> USE DEF bus, exchange, Conclude
<1>1. outcome = "none"
  BY DEF BInv, Undecided
<1>2. /\ ~HearNoise /\ ~GoAhead /\ ~DiscardBuffered /\ ~FlushInput
      /\ ~LookOn /\ ~Cancelled
      /\ \A heard \in BOOLEAN : ~WriteCommand(heard)
      /\ \A r \in Registers, kind \in BOOLEAN : ~Begin(r, kind)
  BY DEF HearNoise, GoAhead, DiscardBuffered, FlushInput, LookOn,
         WriteCommand, Begin, Cancelled
<1>3. CASE TakeFrame
  <2>1. HasFrame
    BY <1>3 DEF TakeFrame
  <2>2. CASE Matches(NextFrame)
    <3>1. outcome' = "reply"
      BY <1>3, <2>2 DEF TakeFrame
    <3> QED
      BY <1>3, <2>2, <3>1
  <2>3. CASE ~Matches(NextFrame)
    <3>1. outcome' = outcome
      BY <1>3, <2>3 DEF TakeFrame
    <3> QED
      BY <1>1, <3>1
  <2> QED
    BY <2>2, <2>3
<1>4. CASE Overflow
  <2>1. outcome' = "overflow" /\ ~HasFrame
    BY <1>4 DEF Overflow
  <2> QED
    BY <2>1
<1>5. CASE TimeOut
  <2>1. outcome' = "timeout" /\ ~HasFrame
    BY <1>5 DEF TimeOut
  <2> QED
    BY <2>1
<1>6. \/ TakeFrame \/ Overflow \/ TimeOut
      \/ ReadMore \/ Arrives \/ GetsLost \/ TimePasses
      \/ \E r \in Registers : PanelTalks(r)
      \/ \E a \in asked : UnitAnswers(a)
      \/ UNCHANGED busVars
  BY <1>2 DEF BusNext, Proceed
<1>7. TakeFrame \/ Overflow \/ TimeOut \/ outcome' = outcome
  BY <1>6 DEF ReadMore, Arrives, GetsLost, TimePasses, PanelTalks, UnitAnswers,
              busVars
<1>8. CASE outcome' = outcome
  BY <1>1, <1>8
<1> QED
  BY <1>3, <1>4, <1>5, <1>7, <1>8

\* The reply is a part of the buffer, and the stream begins with it.
LEMMA ReplyFromStream ==
  ASSUME BInv, phase = "await", HasFrame, Matches(NextFrame)
  PROVE  /\ NextFrame \in Seq(Tokens) /\ Len(NextFrame) = 2
         /\ NoneLeft(NextFrame)
         /\ losses = 0 => Belong(NextFrame[1], NextFrame[2])
<1> DEFINE k == FrameEnd(buf)
           f == SubSeq(buf, 1, k)
           r == SubSeq(buf, k + 1, Len(buf))
           s == (buf \o input) \o line
<1>1. /\ line \in Seq(Tokens) /\ input \in Seq(Tokens) /\ buf \in Seq(Tokens)
      /\ NoneLeft(buf) /\ (losses = 0 => Whole(s))
  BY DEF BInv, BusTypeOK, Fresh, Unspliced
<1>2. f = NextFrame /\ Len(f) = 2 /\ f[1].part = "head"
  BY DEF NextFrame, Matches
<1>3. /\ k \in 1..Len(buf) /\ f \in Seq(Tokens) /\ Len(f) = k
      /\ \A i \in 1..k : f[i] = buf[i]
  BY <1>1, FrameTaken DEF HasFrame
<1> HIDE DEF k, f, r
<1>4. k = 2 /\ Len(buf) \in Nat /\ Len(buf) >= 2
      /\ 1 \in 1..k /\ 2 \in 1..k /\ 1 \in 1..Len(buf) /\ 2 \in 1..Len(buf)
  <2>1. k = 2
    BY <1>2, <1>3
  <2>2. Len(buf) \in Nat
    BY <1>1
  <2> QED
    BY <1>3, <2>1, <2>2
<1>5. f[1] = buf[1] /\ f[2] = buf[2]
  BY <1>3, <1>4
<1>6. /\ buf \o input \in Seq(Tokens) /\ Len(s) \in Nat /\ Len(s) >= 2
      /\ s[1] = buf[1] /\ s[2] = buf[2]
  <2>1. /\ buf \o input \in Seq(Tokens) /\ Len(input) \in Nat
        /\ Len(buf \o input) = Len(buf) + Len(input)
        /\ (buf \o input)[1] = buf[1] /\ (buf \o input)[2] = buf[2]
    BY <1>1, <1>4, Joined
  <2>2. 1 \in 1..Len(buf \o input) /\ 2 \in 1..Len(buf \o input)
    BY <1>4, <2>1
  <2>3. /\ Len(line) \in Nat /\ Len(s) = Len(buf \o input) + Len(line)
        /\ s[1] = (buf \o input)[1] /\ s[2] = (buf \o input)[2]
    BY <1>1, <2>1, <2>2, Joined
  <2> QED
    BY <1>4, <2>1, <2>3
<1>7. losses = 0 => Belong(f[1], f[2])
  <2> HIDE DEF s
  <2>1. 1 \in 1..Len(s) /\ 1 + 1 = 2
    BY <1>6
  <2> QED
    BY <1>1, <1>2, <1>5, <1>6, <2>1 DEF Whole
<1>8. NoneLeft(f)
  <2>1. \A i \in 1..Len(f) : i \in 1..k /\ i \in 1..Len(buf)
    BY <1>3, <1>4
  <2> QED
    BY <1>1, <1>3, <2>1 DEF NoneLeft
<1> QED
  BY <1>2, <1>3, <1>7, <1>8

(***************************************************************************)
(* No byte received before an exchange began becomes part of its reply,    *)
(* whatever the bus carries and loses.                                     *)
(***************************************************************************)
THEOREM ReplyIsFresh == BusSpec => NothingLeftOver
<1>1. BInv /\ [BusNext]_busVars
      => [Accepts => \A i \in DOMAIN NextFrame : ~NextFrame[i].left]_busVars
  <2>1. ASSUME BInv, [BusNext]_busVars, Accepts
        PROVE  \A i \in DOMAIN NextFrame : ~NextFrame[i].left
    <3>1. phase = "await" /\ HasFrame /\ Matches(NextFrame)
      BY <2>1, ResultOf DEF Accepts, TakeFrame
    <3>2. NextFrame \in Seq(Tokens) /\ NoneLeft(NextFrame)
      BY <2>1, <3>1, ReplyFromStream
    <3>3. DOMAIN NextFrame = 1..Len(NextFrame)
      BY <3>2
    <3> QED
      BY <3>2, <3>3 DEF NoneLeft
  <2> QED
    BY <2>1
<1> QED
  BY <1>1, BusInvariant, PTL DEF BusSpec, NothingLeftOver

(***************************************************************************)
(* As long as the line has lost nothing, the prefix and the value of a     *)
(* reply come from the same frame, wherever time-outs, discards and        *)
(* overflows have cut the stream.                                          *)
(***************************************************************************)
THEOREM ReplyIsOneFrame == BusSpec => SplicedOnlyByLoss
<1>1. BInv /\ [BusNext]_busVars
      => [Accepts => \/ losses > 0
                     \/ /\ NextFrame[1].reg = NextFrame[2].reg
                        /\ NextFrame[1].to = NextFrame[2].to]_busVars
  <2>1. ASSUME BInv, [BusNext]_busVars, Accepts, losses = 0
        PROVE  /\ NextFrame[1].reg = NextFrame[2].reg
               /\ NextFrame[1].to = NextFrame[2].to
    <3>1. phase = "await" /\ HasFrame /\ Matches(NextFrame)
      BY <2>1, ResultOf DEF Accepts, TakeFrame
    <3> QED
      BY <2>1, <3>1, ReplyFromStream DEF Belong
  <2>2. BInv => losses \in Nat
    BY BusBounds DEF BInv, BusTypeOK
  <2>3. losses \in Nat => losses = 0 \/ losses > 0
    OBVIOUS
  <2> QED
    BY <2>1, <2>2, <2>3
<1> QED
  BY <1>1, BusInvariant, PTL DEF BusSpec, SplicedOnlyByLoss

(***************************************************************************)
(* As long as the line has lost nothing, an exchange whose reply has been  *)
(* read does not end without it: the reply stays in the buffer, whole and  *)
(* ahead of the time-out, whatever foreign frames and late answers are     *)
(* taken out before it.                                                    *)
(***************************************************************************)
THEOREM ReplyIsTaken == BusSpec => NoReplyOverlooked
<1>1. BusInit => Answering
  BY DEF BusInit, Answering
<1>2. BInv /\ Answering /\ [BusNext]_busVars => Answering'
  BY AnsweringStep
<1>3. BInv /\ Answering /\ [BusNext]_busVars
      => [phase = "await" /\ outcome' \in {"timeout", "overflow"}
          => ~answered \/ losses > 0]_busVars
  <2>1. ASSUME BInv, Answering, [BusNext]_busVars, phase = "await",
               outcome' \in {"timeout", "overflow"}, answered, losses = 0
        PROVE  FALSE
    <3>1. PICK j \in 2..Len(buf) : EndsReply(buf[j])
      BY <2>1 DEF Answering, Answerable, HasReply
    <3>2. j \in 1..Len(buf) /\ buf[j].part = "tail"
      BY <3>1, StreamTypes DEF EndsReply
    <3> QED
      BY <2>1, <3>2, ResultOf, StreamTypes, FirstFrameEnd DEF HasFrame
  <2>2. BInv => answered \in BOOLEAN /\ losses \in Nat
    BY BusBounds DEF BInv, BusTypeOK
  <2>3. losses \in Nat => losses = 0 \/ losses > 0
    OBVIOUS
  <2> QED
    BY <2>1, <2>2, <2>3
<1> QED
  BY <1>1, <1>2, <1>3, BusInvariant, PTL DEF BusSpec, NoReplyOverlooked

(***************************************************************************)
(* The bus and the exchanges on it keep their type.                        *)
(***************************************************************************)
THEOREM BusTypeCorrect == BusSpec => []BusTypeOK
<1>1. BInv => BusTypeOK
  BY DEF BInv
<1> QED
  BY <1>1, BusInvariant, PTL
=============================================================================
