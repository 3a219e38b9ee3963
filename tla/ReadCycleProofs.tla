-------------------------- MODULE ReadCycleProofs --------------------------
(***************************************************************************)
(* The budget of a read cycle, for any set of configurations and whatever  *)
(* the attempts take.                                                      *)
(***************************************************************************)
EXTENDS ReadCycle, TLAPS

\* What one attempt takes at most.
AttemptTime(c) == LongestExchange(c) + 3 * c.backoff

\* What all attempts at a register take at most, and the first n - 1 of them.
RegisterTime(c) ==
  LongestExchange(c) + (ReaderAttempts(c) - 1) * AttemptTime(c)
Used(c, n) ==
  IF n = 1 THEN 0 ELSE LongestExchange(c) + (n - 2) * AttemptTime(c)

\* The position in ReadAll bounds the time it has used.
Charged ==
  /\ attempt <= ReaderAttempts(config)
  /\ register <= config.registers + 1
  /\ register > config.registers => attempt = 1
  /\ elapsed <= (register - 1) * RegisterTime(config) + Used(config, attempt)

\* How old the followed value gets: between two publications lie one wait
\* and one cycle, and once more of both when the readout between them fails.
Wait == config.interval * Second
Bound(n) == IF n = 0 THEN Wait ELSE 2 * Wait + LongestCycle(config)

Paced ==
  /\ pc # "reading" => elapsed = 0
  /\ ~disturbed =>
       /\ pc = "returned" /\ ~done => err = "nil"
       /\ pc = "returned" /\ ~done => \A n \in 0..1 :
            failures = n => age + Wait <= Bound(n)
       /\ pc \in {"begin", "reading"} => \A n \in 0..1 :
            failures = n => age <= Bound(n) + elapsed
       /\ \A n \in 0..1 : failures = n => age <= Bound(n) + LongestCycle(config)

IInv == TypeOK /\ config.registers >= 1 /\ Charged
PInv == IInv /\ Paced
-----------------------------------------------------------------------------
LEMMA ConfigType ==
  ASSUME NEW c \in Accepted
  PROVE  /\ c \in [Fields -> Int]
         /\ c.gap >= 0 /\ c.maxWait >= 0 /\ c.readTimeout >= 0
         /\ c.responseTimeout >= 0 /\ c.backoff >= 0
         /\ c.interval > 0 /\ c.retries >= 1
         /\ WithinBudget(c)
<1>1. PICK file \in Configs : c = Loaded(file)
  BY DEF Accepted
<1>2. file \in [Fields -> Int]
  BY <1>1, ConfigsTyped
<1>3. \A k \in Fields : Defaults[k] \in Int
  BY DEF Defaults, Fields
<1>4. c \in [Fields -> Int]
  BY <1>1, <1>2, <1>3 DEF Loaded, OrDefault
<1> QED
  BY <1>4 DEF Accepted, Valid

LEMMA FieldTypes ==
  ASSUME NEW c \in Accepted
  PROVE  /\ c.gap \in Nat /\ c.maxWait \in Nat /\ c.readTimeout \in Nat
         /\ c.responseTimeout \in Nat /\ c.backoff \in Nat
         /\ c.interval \in Nat /\ c.retries \in Nat /\ c.registers \in Int
BY ConfigType DEF Fields

LEMMA Times ==
  ASSUME NEW c \in Accepted
  PROVE  /\ ReaderAttempts(c) \in Nat /\ ReaderAttempts(c) >= 2
         /\ ReaderAttempts(c) = EffectiveAttempts(c)
         /\ LongestExchange(c) \in Nat
         /\ AttemptTime(c) \in Nat
         /\ PerAttemptMs(c) \in Nat
         /\ Uncharged \in Nat
         /\ AttemptTime(c) <= 2 * PerAttemptMs(c) + Uncharged
         /\ \A n \in Nat : /\ Longest(c, n) \in Nat
                           /\ Longest(c, n) <= AttemptTime(c)
BY FieldTypes, LimitsNat
   DEF ReaderAttempts, EffectiveAttempts, LongestExchange, AttemptTime,
       PerAttemptMs, Uncharged, Longest, Larger, PortMaxWait,
       PortResponseTimeout, EffectiveBusQuietMaxWait,
       EffectiveResponseTimeout, IdlePoll, Ms
-----------------------------------------------------------------------------
(***************************************************************************)
(* Arithmetic of products.                                                 *)
(***************************************************************************)
LEMMA TimesMonotone ==
  ASSUME NEW a \in Nat, NEW b \in Nat, NEW t \in Nat, a <= b
  PROVE  a * t <= b * t
<1>1. PICK k \in Nat : b = a + k
  <2>1. b - a \in Nat /\ b = a + (b - a)
    OBVIOUS
  <2> QED
    BY <2>1
<1>2. b * t = a * t + k * t /\ k * t >= 0
  BY <1>1
<1> QED
  BY <1>2

LEMMA OneMore ==
  ASSUME NEW a \in Nat, NEW t \in Nat
  PROVE  (a + 1) * t = a * t + t
OBVIOUS

LEMMA Rearranged ==
  ASSUME NEW a \in Nat, NEW p \in Nat, NEW r \in Nat, NEW u \in Nat
  PROVE  (r * a) * (2 * p + u) = 2 * (a * p * r) + r * a * u
OBVIOUS

\* A full readout, every attempt at its longest, against the interval.
LEMMA FullReadout ==
  ASSUME NEW c \in Accepted, c.registers >= 1
  PROVE  (c.registers * ReaderAttempts(c)) * AttemptTime(c)
           <= c.interval * Second
                + c.registers * ReaderAttempts(c) * Uncharged
<1> DEFINE R == c.registers
           A == ReaderAttempts(c)
           T == AttemptTime(c)
           P == PerAttemptMs(c)
           U == Uncharged
<1>1. R \in Nat /\ A \in Nat /\ T \in Nat /\ P \in Nat /\ U \in Nat
      /\ T <= 2 * P + U /\ c.interval \in Nat
  BY FieldTypes, Times
<1>2. A * P * R <= c.interval * 1000
  BY ConfigType, FieldTypes, Times DEF WithinBudget
<1>3. R * A \in Nat /\ 2 * P + U \in Nat
  BY <1>1
<1>4. (R * A) * T <= (R * A) * (2 * P + U)
  <2> HIDE DEF R, A, T, P, U
  <2>1. T * (R * A) <= (2 * P + U) * (R * A)
    BY <1>1, <1>3, TimesMonotone
  <2> QED
    BY <2>1, <1>1, <1>3
<1>5. (R * A) * (2 * P + U) = 2 * (A * P * R) + R * A * U
  <2> HIDE DEF R, A, P, U
  <2> QED
    BY <1>1, Rearranged
<1>6. 2 * (A * P * R) <= c.interval * Second
  <2> HIDE DEF R, A, P
  <2>1. A * P * R \in Nat
    BY <1>1
  <2> QED
    BY <2>1, <1>1, <1>2 DEF Second, Ms
<1>7. R * A * U \in Nat /\ (R * A) * T \in Nat /\ A * P * R \in Nat
      /\ c.interval * Second \in Nat
  <2> HIDE DEF R, A, P, T, U
  <2> QED
    BY <1>1 DEF Second, Ms
<1> HIDE DEF R, A, P, T, U
<1>8. (R * A) * T <= c.interval * Second + R * A * U
  BY <1>3, <1>4, <1>5, <1>6, <1>7
<1> QED
  BY <1>8 DEF R, A, T, U
LEMMA RegisterTimes ==
  ASSUME NEW c \in Accepted
  PROVE  /\ RegisterTime(c) \in Nat
         /\ RegisterTime(c) <= ReaderAttempts(c) * AttemptTime(c)
         /\ \A n \in Nat \ {0} :
              /\ Used(c, n) \in Nat
              /\ Used(c, n) + Longest(c, n) <= Used(c, n + 1)
              /\ n <= ReaderAttempts(c) =>
                   Used(c, n + 1) <= RegisterTime(c)
<1> DEFINE A == ReaderAttempts(c)
           T == AttemptTime(c)
           E == LongestExchange(c)
<1>1. A \in Nat /\ A >= 2 /\ T \in Nat /\ E \in Nat /\ E <= T
      /\ A - 1 \in Nat
  BY Times, FieldTypes DEF AttemptTime
<1>2. (A - 1) * T \in Nat /\ A * T = (A - 1) * T + T
  <2> HIDE DEF A, T, E
  <2>1. A = (A - 1) + 1
    BY <1>1
  <2> QED
    BY <1>1, <2>1, OneMore
<1>3. RegisterTime(c) \in Nat /\ RegisterTime(c) <= A * T
  <2>1. RegisterTime(c) = E + (A - 1) * T
    BY DEF RegisterTime
  <2> HIDE DEF A, T, E
  <2> QED
    BY <1>1, <1>2, <2>1
<1>4. ASSUME NEW n \in Nat \ {0}
      PROVE  /\ Used(c, n) \in Nat
             /\ Used(c, n) + Longest(c, n) <= Used(c, n + 1)
             /\ n <= A => Used(c, n + 1) <= RegisterTime(c)
  <2>1. Used(c, n + 1) = E + (n - 1) * T
    BY DEF Used
  <2>2. Longest(c, n) = IF n > 1 THEN T ELSE E
    BY <1>1, FieldTypes DEF Longest, AttemptTime
  <2>3. Used(c, n) = IF n = 1 THEN 0 ELSE E + (n - 2) * T
    BY DEF Used
  <2>4. RegisterTime(c) = E + (A - 1) * T
    BY DEF RegisterTime
  <2> HIDE DEF A, T, E
  <2>5. CASE n = 1
    <3>1. (n - 1) * T = 0
      BY <1>1, <2>5
    <3> QED
      BY <1>1, <1>2, <2>1, <2>2, <2>3, <2>4, <2>5, <3>1
  <2>6. CASE n > 1
    <3>1. n - 2 \in Nat /\ n - 1 \in Nat /\ n - 1 = (n - 2) + 1
      BY <2>6
    <3>2. (n - 2) * T \in Nat /\ (n - 1) * T = (n - 2) * T + T
      BY <1>1, <3>1, OneMore
    <3>3. n <= A => (n - 1) * T <= (A - 1) * T
      BY <1>1, <3>1, TimesMonotone
    <3> QED
      BY <1>1, <1>2, <2>1, <2>2, <2>3, <2>4, <2>6, <3>2, <3>3
  <2> QED
    BY <2>5, <2>6
<1> QED
  BY <1>3, <1>4

\* ReadAll on a bus and a unit at their worst, against the interval.
LEMMA CycleTime ==
  ASSUME NEW c \in Accepted, c.registers >= 1
  PROVE  /\ LongestCycle(c) \in Nat
         /\ LongestCycle(c) = c.registers * RegisterTime(c)
         /\ LongestCycle(c) <= c.interval * Second
                + c.registers * ReaderAttempts(c) * Uncharged
<1> DEFINE R == c.registers
           A == ReaderAttempts(c)
           T == AttemptTime(c)
           X == RegisterTime(c)
           W == c.interval * Second + R * A * Uncharged
<1>1. R \in Nat /\ A \in Nat /\ T \in Nat /\ X \in Nat /\ X <= A * T
      /\ Uncharged \in Nat /\ c.interval \in Nat
  BY FieldTypes, Times, RegisterTimes
<1>2. LongestCycle(c) = R * X
  BY DEF LongestCycle, RegisterTime, AttemptTime
<1>3. (R * A) * T <= W
  BY FullReadout
<1> HIDE DEF R, A, T, X
<1>4. A * T \in Nat /\ R * X \in Nat /\ (R * A) * T \in Nat
      /\ R * A * Uncharged \in Nat /\ c.interval * Second \in Nat
  BY <1>1 DEF Second, Ms
<1>5. X * R <= (A * T) * R
  BY <1>1, <1>4, TimesMonotone
<1>6. R * X <= (R * A) * T
  BY <1>1, <1>5
<1>7. R * X <= W
  BY <1>3, <1>4, <1>6
<1> QED
  BY <1>2, <1>4, <1>7 DEF R, A, X
-----------------------------------------------------------------------------
(***************************************************************************)
(* The invariant.                                                          *)
(***************************************************************************)
\* What Charged becomes when an attempt is over and another one follows.
LEMMA NextAttempt ==
  ASSUME IInv, NEW d \in Nat, Attempt(d), attempt' = attempt + 1,
         register' = register, attempt < ReaderAttempts(config)
  PROVE  Charged'
<1> DEFINE X == RegisterTime(config)
           base == (register - 1) * X
<1>1. /\ config \in Accepted /\ config' = config
      /\ register \in Nat /\ register >= 1 /\ attempt \in Nat \ {0}
      /\ register <= config.registers /\ config.registers \in Int
      /\ d <= Longest(config, attempt) /\ elapsed \in Nat
      /\ elapsed' = elapsed + d /\ elapsed <= base + Used(config, attempt)
      /\ ReaderAttempts(config) \in Nat
  BY FieldTypes, Times DEF IInv, TypeOK, Charged, Attempt
<1>2. /\ X \in Nat /\ Used(config, attempt) \in Nat
      /\ Longest(config, attempt) \in Nat
      /\ Used(config, attempt + 1) \in Nat
      /\ Used(config, attempt) + Longest(config, attempt)
           <= Used(config, attempt + 1)
  <2>1. attempt + 1 \in Nat \ {0}
    BY <1>1
  <2> QED
    BY <1>1, <2>1, RegisterTimes, Times
<1>3. base \in Nat
  <2> HIDE DEF X
  <2> QED BY <1>1, <1>2
<1>4. elapsed' <= base + Used(config, attempt + 1)
  <2> HIDE DEF base
  <2> QED BY <1>1, <1>2, <1>3
<1>5. attempt + 1 <= ReaderAttempts(config)
  BY <1>1
<1> QED
  BY <1>1, <1>4, <1>5 DEF Charged

LEMMA NextRegister ==
  ASSUME IInv, NEW d \in Nat, Attempt(d), attempt' = 1,
         register' = register + 1
  PROVE  Charged'
<1> DEFINE X == RegisterTime(config)
           base == (register - 1) * X
<1>1. /\ config \in Accepted /\ config' = config
      /\ register \in Nat /\ register >= 1 /\ attempt \in Nat \ {0}
      /\ register <= config.registers /\ config.registers \in Int
      /\ d <= Longest(config, attempt) /\ elapsed \in Nat
      /\ elapsed' = elapsed + d /\ elapsed <= base + Used(config, attempt)
      /\ ReaderAttempts(config) \in Nat /\ ReaderAttempts(config) >= 2
      /\ attempt <= ReaderAttempts(config)
  BY FieldTypes, Times DEF IInv, TypeOK, Charged, Attempt
<1>2. /\ X \in Nat /\ Used(config, attempt) \in Nat
      /\ Longest(config, attempt) \in Nat
      /\ Used(config, attempt + 1) \in Nat
      /\ Used(config, attempt) + Longest(config, attempt)
           <= Used(config, attempt + 1)
      /\ Used(config, attempt + 1) <= X
  <2>1. attempt + 1 \in Nat \ {0}
    BY <1>1
  <2> QED
    BY <1>1, <2>1, RegisterTimes, Times
<1>3. base \in Nat /\ register * X = base + X
  <2> HIDE DEF X
  <2>1. register - 1 \in Nat /\ register = (register - 1) + 1
    BY <1>1
  <2> QED BY <1>2, <2>1, OneMore
<1>4. elapsed' <= register * X
  <2> HIDE DEF base, X
  <2> QED BY <1>1, <1>2, <1>3
<1>5. (register' - 1) * X + Used(config, 1) = register * X
  <2>1. Used(config, 1) = 0
    BY DEF Used
  <2>2. register' - 1 = register
    BY <1>1
  <2> HIDE DEF base, X
  <2> QED BY <1>2, <1>3, <1>1, <2>1, <2>2
<1>6. elapsed' <= (register' - 1) * RegisterTime(config') + Used(config', attempt')
  <2> HIDE DEF base
  <2> QED BY <1>1, <1>4, <1>5
<1> QED
  BY <1>1, <1>6 DEF Charged

\* A cycle that is over, or that has not begun, has used no time.
LEMMA ChargedAtRest ==
  ASSUME config \in Accepted, config.registers >= 1,
         config' = config, register' = 1, attempt' = 1, elapsed' = 0
  PROVE  Charged'
<1>1. ReaderAttempts(config) \in Nat /\ ReaderAttempts(config) >= 2
      /\ RegisterTime(config) \in Nat /\ config.registers \in Int
  BY Times, FieldTypes, RegisterTimes
<1>2. (1 - 1) * RegisterTime(config) + Used(config, 1) = 0
  BY <1>1 DEF Used
<1> QED
  BY <1>1, <1>2 DEF Charged

\* No cycle takes longer than LongestCycle.
LEMMA ElapsedBound ==
  ASSUME IInv
  PROVE  /\ elapsed <= LongestCycle(config)
         /\ elapsed \in Nat /\ LongestCycle(config) \in Nat
<1> DEFINE X == RegisterTime(config)
           R == config.registers
<1>1. /\ config \in Accepted /\ R \in Nat /\ R >= 1
      /\ register \in Nat /\ register >= 1 /\ attempt \in Nat \ {0}
      /\ attempt <= ReaderAttempts(config) /\ register <= R + 1
      /\ register > R => attempt = 1
      /\ elapsed \in Nat
      /\ elapsed <= (register - 1) * X + Used(config, attempt)
  BY FieldTypes DEF IInv, TypeOK, Charged
<1>2. LongestCycle(config) = R * X /\ LongestCycle(config) \in Nat
  BY <1>1, CycleTime
<1>3. /\ X \in Nat /\ Used(config, attempt) \in Nat
      /\ Used(config, attempt) <= X
  <2>1. attempt + 1 \in Nat \ {0}
    BY <1>1
  <2>2. /\ X \in Nat /\ Used(config, attempt) \in Nat
        /\ Longest(config, attempt) \in Nat
        /\ Used(config, attempt + 1) \in Nat
        /\ Used(config, attempt) + Longest(config, attempt)
             <= Used(config, attempt + 1)
        /\ Used(config, attempt + 1) <= X
    BY <1>1, <2>1, RegisterTimes, Times
  <2> HIDE DEF X
  <2> QED BY <2>2
<1>4. register - 1 \in Nat /\ (register - 1) * X \in Nat
      /\ register * X = (register - 1) * X + X
  <2> HIDE DEF X
  <2>1. register - 1 \in Nat /\ register = (register - 1) + 1
    BY <1>1
  <2> QED BY <1>3, <2>1, OneMore
<1>5. CASE register > R
  <2>1. attempt = 1 /\ register - 1 = R
    BY <1>1, <1>5
  <2>2. Used(config, attempt) = 0
    BY <2>1 DEF Used
  <2> HIDE DEF X, R
  <2> QED BY <1>1, <1>2, <1>4, <2>1, <2>2
<1>6. CASE register <= R
  <2> HIDE DEF X, R
  <2>1. register * X <= R * X
    BY <1>1, <1>3, <1>6, TimesMonotone
  <2> QED BY <1>1, <1>2, <1>3, <1>4, <2>1
<1> QED
  BY <1>1, <1>2, <1>5, <1>6

LEMMA WaitTypes ==
  ASSUME NEW c \in Accepted
  PROVE  c.interval * Second \in Nat /\ SkipDelay(c) \in Nat
<1>1. c.interval \in Nat /\ Second = 2000
  BY FieldTypes DEF Second, Ms
<1> QED
  BY <1>1 DEF SkipDelay

LEMMA DurationType ==
  ASSUME IInv, NEW d \in Durations(config, attempt)
  PROVE  d \in Nat
<1>1. attempt \in 1..ReaderAttempts(config)
  BY Times DEF IInv, TypeOK, Charged
<1> QED
  BY <1>1, DurationsTyped DEF IInv, TypeOK

\* What an attempt leaves alone and what it counts.
LEMMA AttemptType ==
  ASSUME IInv, NEW d \in Nat, Attempt(d), attempt' \in Nat \ {0},
         register' \in Nat \ {0}, read' \in BOOLEAN
  PROVE  TypeOK' /\ config'.registers >= 1
BY DEF IInv, TypeOK, Attempt, Older

LEMMA Attempting ==
  ASSUME IInv, NEW d \in Durations(config, attempt),
         ReadSucceeds(d) \/ AttemptFails(d) \/ PortFails(d)
  PROVE  IInv'
<1>1. d \in Nat
  BY DurationType
<1>2. register \in Nat \ {0} /\ attempt \in Nat \ {0} /\ read \in BOOLEAN
  BY DEF IInv, TypeOK
<1>3. Attempt(d)
  BY DEF ReadSucceeds, AttemptFails, PortFails
<1>4. read' \in BOOLEAN
  BY <1>2 DEF ReadSucceeds, AttemptFails, PortFails
<1>5. \/ register' = register + 1 /\ attempt' = 1
      \/ /\ register' = register /\ attempt' = attempt + 1
         /\ attempt < ReaderAttempts(config)
  BY DEF ReadSucceeds, AttemptFails, PortFails
<1>6. TypeOK' /\ config'.registers >= 1
  BY <1>1, <1>2, <1>3, <1>4, <1>5, AttemptType
<1>7. Charged'
  BY <1>1, <1>3, <1>5, NextAttempt, NextRegister
<1> QED
  BY <1>6, <1>7 DEF IInv

\* RunCycle returns; what it leaves behind for the entity's clock.
LEMMA Returning ==
  ASSUME IInv, NEW e \in {"nil", "canceled", "skipped"}, Return(e),
         age' \in Nat, failures' \in 0..2, disturbed' \in BOOLEAN,
         disturbances' \in 0..MaxDisturbances
  PROVE  IInv'
<1>1. TypeOK'
  <2>1. config' \in Accepted /\ watched' \in Int /\ done' \in BOOLEAN
    BY DEF IInv, TypeOK, Return
  <2>2. /\ pc' = "returned" /\ err' \in {"nil", "canceled", "skipped"}
        /\ register' = 1 /\ attempt' = 1 /\ elapsed' = 0
    BY DEF Return
  <2>3. read' \in BOOLEAN
    BY DEF Return
  <2> QED
    BY <2>1, <2>2, <2>3 DEF TypeOK
<1>2. Charged'
  BY ChargedAtRest DEF IInv, TypeOK, Return
<1> QED
  BY <1>1, <1>2 DEF IInv, Return

LEMMA Disturbing ==
  ASSUME TypeOK, Disturb
  PROVE  /\ age' \in Nat /\ failures' \in 0..2 /\ disturbed' \in BOOLEAN
         /\ disturbances' \in 0..MaxDisturbances
BY LimitsNat DEF TypeOK, Disturb

\* Steps that leave the position and its time alone.
LEMMA Unmoved ==
  ASSUME IInv, UNCHANGED <<config, register, attempt, elapsed>>, TypeOK'
  PROVE  IInv'
BY DEF IInv, Charged

LEMMA Inductive == Spec => []IInv
<1>1. ASSUME Init
      PROVE  IInv
  <2>1. config \in Accepted /\ config.registers \in Int
        /\ config.registers >= 1 /\ watched \in Int
    BY <1>1, FieldTypes DEF Init
  <2>2. TypeOK
    <3>1. /\ pc = "begin" /\ err = "nil" /\ register = 1 /\ attempt = 1
          /\ elapsed = 0 /\ age = 0 /\ failures = 0 /\ disturbances = 0
      BY <1>1 DEF Init
    <3>2. read \in BOOLEAN /\ done \in BOOLEAN /\ disturbed \in BOOLEAN
      BY <1>1 DEF Init
    <3>3. 0 \in 0..MaxDisturbances
      BY LimitsNat
    <3> QED
      BY <2>1, <3>1, <3>2, <3>3 DEF TypeOK
  <2>3. ReaderAttempts(config) \in Nat /\ RegisterTime(config) \in Nat
        /\ ReaderAttempts(config) >= 2
    BY <2>1, Times, RegisterTimes
  <2>4. (1 - 1) * RegisterTime(config) + Used(config, 1) = 0
    BY <2>3 DEF Used
  <2>5. Charged
    BY <1>1, <2>1, <2>3, <2>4 DEF Init, Charged
  <2> QED
    BY <2>1, <2>2, <2>5 DEF IInv
<1>2. ASSUME IInv, [Next]_vars
      PROVE  IInv'
  <2> USE DEF cycle, history
  <2>1. ASSUME NEW d \in Durations(config, attempt),
               ReadSucceeds(d) \/ AttemptFails(d) \/ PortFails(d)
        PROVE  IInv'
    BY <1>2, <2>1, Attempting
  <2>2. CASE Skip \/ Preempted
    BY <1>2, <2>2, Returning, Disturbing DEF IInv, Skip, Preempted
  <2>3. CASE Canceled
    BY <1>2, <2>3, Returning DEF IInv, TypeOK, Canceled
  <2>4. CASE Publish
    <3>1. age' \in Nat /\ failures' \in 0..2 /\ disturbed' \in BOOLEAN
          /\ disturbances' \in 0..MaxDisturbances
      <4>1. /\ age \in Nat /\ failures \in 0..2 /\ disturbed \in BOOLEAN
            /\ disturbances \in 0..MaxDisturbances
        BY <1>2 DEF IInv, TypeOK
      <4>2. CASE read
        <5>1. age' = 0 /\ failures' = 0 /\ UNCHANGED disturbances
          BY <2>4, <4>2 DEF Publish
        <5>2. disturbed' \in BOOLEAN
          BY <2>4, <4>2 DEF Publish
        <5> QED
          BY <4>1, <5>1, <5>2
      <4>3. CASE ~read
        BY <2>4, <4>1, <4>3 DEF Publish
      <4> QED
        BY <4>2, <4>3
    <3> QED
      BY <1>2, <2>4, <3>1, Returning DEF Publish
  <2>5. CASE BeginCycle \/ PollEnds \/ Shutdown
    <3>1. TypeOK' /\ UNCHANGED <<config, register, attempt, elapsed>>
      BY <1>2, <2>5 DEF IInv, TypeOK, BeginCycle, PollEnds, Shutdown
    <3> QED
      BY <1>2, <3>1, Unmoved
  <2>6. CASE PollAgain
    <3>1. age' \in Nat
      BY <1>2, <2>6, WaitTypes DEF IInv, TypeOK, PollAgain, Older
    <3>2. TypeOK' /\ UNCHANGED <<config, register, attempt, elapsed>>
      BY <1>2, <2>6, <3>1 DEF IInv, TypeOK, PollAgain
    <3> QED
      BY <1>2, <3>2, Unmoved
  <2>7. CASE UNCHANGED vars
    BY <1>2, <2>7, Unmoved DEF IInv, TypeOK, vars
  <2> QED
    BY <1>2, <2>1, <2>2, <2>3, <2>4, <2>5, <2>6, <2>7
       DEF Next, PollLoop, RunCycle
<1> QED
  BY <1>1, <1>2, PTL DEF Spec
-----------------------------------------------------------------------------
(***************************************************************************)
(* The poll loop keeps its type.                                           *)
(***************************************************************************)
THEOREM TypeCorrect == Spec => []TypeOK
<1>1. IInv => TypeOK
  BY DEF IInv
<1> QED
  BY <1>1, Inductive, PTL

(***************************************************************************)
(* Whatever configuration ValidateCycleBudget lets pass and however the    *)
(* bus and the unit behave, reading all registers ends within the read     *)
(* interval, but for what the budget does not charge.                      *)
(***************************************************************************)
THEOREM BudgetKept == Spec => []CycleWithinBudget
<1>1. ASSUME IInv
      PROVE  CycleWithinBudget
  <2>1. /\ config \in Accepted /\ config.registers >= 1
        /\ config.registers \in Int
    BY <1>1, FieldTypes DEF IInv, TypeOK
  <2>2. elapsed <= LongestCycle(config) /\ elapsed \in Nat
        /\ LongestCycle(config) \in Nat
    BY <1>1, ElapsedBound
  <2>3. config.interval * Second
          + config.registers * ReaderAttempts(config) * Uncharged \in Int
    <3>1. Uncharged \in Nat /\ config.interval * Second \in Nat
          /\ ReaderAttempts(config) \in Nat
      BY <2>1, Times, WaitTypes
    <3> QED
      BY <2>1, <3>1
  <2>4. LongestCycle(config) <= config.interval * Second
          + config.registers * ReaderAttempts(config) * Uncharged
    BY <2>1, CycleTime
  <2> QED
    BY <2>2, <2>3, <2>4 DEF CycleWithinBudget
<1> QED
  BY <1>1, Inductive, PTL
-----------------------------------------------------------------------------
(***************************************************************************)
(* The age of the followed value.                                          *)
(***************************************************************************)
LEMMA PacedTypes ==
  ASSUME IInv
  PROVE  /\ Wait \in Nat /\ LongestCycle(config) \in Nat
         /\ Bound(0) = Wait /\ Bound(1) = 2 * Wait + LongestCycle(config)
         /\ age \in Nat /\ failures \in 0..2 /\ elapsed \in Nat
         /\ elapsed <= LongestCycle(config)
BY ElapsedBound, WaitTypes DEF IInv, TypeOK, Wait, Bound

\* Paced, with its bounds spelt out.
LEMMA PacedMeans ==
  ASSUME IInv
  PROVE  Paced <=>
           /\ pc # "reading" => elapsed = 0
           /\ ~disturbed =>
                /\ pc = "returned" /\ ~done => err = "nil"
                /\ pc = "returned" /\ ~done =>
                     /\ failures = 0 => age + Wait <= Wait
                     /\ failures = 1 =>
                          age + Wait <= 2 * Wait + LongestCycle(config)
                /\ pc \in {"begin", "reading"} =>
                     /\ failures = 0 => age <= Wait + elapsed
                     /\ failures = 1 =>
                          age <= 2 * Wait + LongestCycle(config) + elapsed
                /\ failures = 0 => age <= Wait + LongestCycle(config)
                /\ failures = 1 =>
                     age <= 2 * Wait + LongestCycle(config)
                              + LongestCycle(config)
<1>1. 0..1 = {0, 1}
  OBVIOUS
<1> QED
  BY <1>1, PacedTypes DEF Paced

LEMMA WithinSum ==
  ASSUME NEW a \in Nat, NEW w \in Nat, NEW l \in Nat, NEW e \in Nat, e <= l
  PROVE  /\ a <= w + e => a <= w + l
         /\ a <= 2 * w + l + e => a <= 2 * w + l + l
OBVIOUS

LEMMA PacedStep ==
  ASSUME PInv, [Next]_vars, IInv', elapsed' <= LongestCycle(config')
  PROVE  Paced'
<1> DEFINE L == LongestCycle(config)
           W == Wait
<1> USE DEF cycle, history
<1>1. /\ W \in Nat /\ L \in Nat /\ age \in Nat /\ failures \in 0..2
      /\ elapsed \in Nat /\ elapsed <= L
      /\ age' \in Nat /\ failures' \in 0..2
      /\ elapsed' \in Nat /\ disturbed \in BOOLEAN
  BY PacedTypes DEF PInv, IInv, TypeOK
<1>2. config' = config /\ W' = W /\ L' = L
  <2>1. config' = config
    BY DEF PInv, Next, PollLoop, RunCycle, Skip, BeginCycle, Preempted,
           Canceled, Publish, ReadSucceeds, AttemptFails, PortFails, Attempt,
           PollAgain, PollEnds, Shutdown, Return, vars
  <2> QED
    BY <2>1 DEF Wait, LongestCycle
<1>3. elapsed' <= L
  BY <1>2
<1>4. /\ pc # "reading" => elapsed = 0
      /\ ~disturbed =>
           /\ pc = "returned" /\ ~done => err = "nil"
           /\ pc = "returned" /\ ~done =>
                /\ failures = 0 => age + W <= W
                /\ failures = 1 => age + W <= 2 * W + L
           /\ pc \in {"begin", "reading"} =>
                /\ failures = 0 => age <= W + elapsed
                /\ failures = 1 => age <= 2 * W + L + elapsed
           /\ failures = 0 => age <= W + L
           /\ failures = 1 => age <= 2 * W + L + L
  BY PacedMeans DEF PInv
<1> SUFFICES
      /\ pc' # "reading" => elapsed' = 0
      /\ ~disturbed' =>
           /\ pc' = "returned" /\ ~done' => err' = "nil"
           /\ pc' = "returned" /\ ~done' =>
                /\ failures' = 0 => age' + W <= W
                /\ failures' = 1 => age' + W <= 2 * W + L
           /\ pc' \in {"begin", "reading"} =>
                /\ failures' = 0 => age' <= W + elapsed'
                /\ failures' = 1 => age' <= 2 * W + L + elapsed'
           /\ failures' = 0 => age' <= W + L
           /\ failures' = 1 => age' <= 2 * W + L + L
  <2>1. 0..1 = {0, 1}
    OBVIOUS
  <2>2. Bound(0)' = W /\ Bound(1)' = 2 * W + L
    BY <1>2 DEF Bound
  <2>3. \A n \in 0..1 :
          Bound(n)' = IF n = 0 THEN W ELSE 2 * W + L
    BY <1>2 DEF Bound
  <2>4. Wait' = W /\ LongestCycle(config)' = L
    BY <1>2
  <2> HIDE DEF W, L
  <2> QED
    BY <2>1, <2>3, <2>4 DEF Paced
<1> HIDE DEF L, W
\* A reading in progress: the cycle's time is the age's.
<1>5. ASSUME NEW d \in Durations(config, attempt),
             ReadSucceeds(d) \/ AttemptFails(d) \/ PortFails(d)
      PROVE  /\ pc = "reading" /\ pc' = pc /\ d \in Nat
             /\ elapsed' = elapsed + d /\ age' = Older(d)
             /\ UNCHANGED <<failures, disturbed>>
  BY <1>5, DurationType DEF ReadSucceeds, AttemptFails, PortFails, Attempt, PInv
<1>6. ASSUME NEW d \in Durations(config, attempt),
             ReadSucceeds(d) \/ AttemptFails(d) \/ PortFails(d)
      PROVE  /\ pc' = "reading"
             /\ ~disturbed' =>
                  /\ failures' = 0 => age' <= W + elapsed'
                  /\ failures' = 1 => age' <= 2 * W + L + elapsed'
  <2>1. ~disturbed' => age' = (IF failures < 2 THEN age + d ELSE 0)
    BY <1>1, <1>5, <1>6 DEF Older, Followed
  <2>2. /\ pc = "reading" /\ pc' = "reading" /\ d \in Nat
        /\ elapsed' = elapsed + d /\ failures' = failures
        /\ disturbed' = disturbed
    BY <1>5, <1>6
  <2> QED
    BY <1>1, <1>4, <2>1, <2>2
<1>7. CASE Skip \/ Preempted
  <2>1. disturbed' /\ elapsed' = 0
    BY <1>7 DEF Skip, Preempted, Disturb, Return
  <2> QED
    BY <2>1
<1>8. CASE BeginCycle
  BY <1>1, <1>4, <1>8 DEF BeginCycle
<1>9. CASE Canceled
  <2>1. /\ pc' = "returned" /\ elapsed' = 0 /\ done'
        /\ UNCHANGED <<age, failures, disturbed>>
    BY <1>9 DEF Canceled, Return
  <2> QED
    BY <1>4, <2>1
<1>10. CASE Publish
  <2>1. /\ pc = "reading" /\ pc' = "returned" /\ elapsed' = 0 /\ err' = "nil"
    BY <1>10 DEF Publish, Return
  <2>2. CASE read
    <3>1. age' = 0 /\ failures' = 0
      BY <1>10, <2>2 DEF Publish
    <3> QED
      BY <1>1, <2>1, <3>1
  <2>3. CASE ~read
    <3>1. /\ failures' = (IF failures < 2 THEN failures + 1 ELSE failures)
          /\ age' = (IF failures = 0 THEN age ELSE 0)
          /\ disturbed' = disturbed
      BY <1>10, <2>3 DEF Publish
    <3>2. failures' # 0 /\ (failures' = 1 => failures = 0)
      BY <1>1, <3>1
    <3> QED
      BY <1>1, <1>4, <2>1, <3>1, <3>2
  <2> QED
    BY <2>2, <2>3
<1>11. CASE PollAgain
  <2>1. /\ pc = "returned" /\ ~done /\ pc' = "begin"
        /\ UNCHANGED <<elapsed, failures, disturbed, done>>
    BY <1>11 DEF PollAgain
  <2>2. ~disturbed => age' = (IF failures < 2 THEN age + W ELSE 0)
    BY <1>4, <1>11, <2>1 DEF PollAgain, Older, Followed, Wait, W
  <2> QED
    BY <1>1, <1>4, <2>1, <2>2
<1>12. CASE PollEnds
  <2>1. /\ pc' = "ended" /\ pc # "reading"
        /\ UNCHANGED <<elapsed, age, failures, disturbed>>
    BY <1>12 DEF PollEnds
  <2> QED
    BY <1>4, <2>1
<1>13. CASE Shutdown
  BY <1>4, <1>13 DEF Shutdown
<1>14. CASE UNCHANGED vars
  BY <1>4, <1>14 DEF vars
<1>15. ASSUME NEW d \in Durations(config, attempt),
              ReadSucceeds(d) \/ AttemptFails(d) \/ PortFails(d)
       PROVE  /\ pc' = "reading"
              /\ ~disturbed' =>
                  /\ failures' = 0 => age' <= W + elapsed' /\ age' <= W + L
                  /\ failures' = 1 => /\ age' <= 2 * W + L + elapsed'
                                      /\ age' <= 2 * W + L + L
  <2>1. /\ pc' = "reading"
        /\ ~disturbed' =>
             /\ failures' = 0 => age' <= W + elapsed'
             /\ failures' = 1 => age' <= 2 * W + L + elapsed'
    BY <1>6, <1>15
  <2>2. elapsed' \in Nat /\ elapsed' <= L /\ age' \in Nat /\ W \in Nat
        /\ L \in Nat
    BY <1>1, <1>3
  <2>3. age' <= W + elapsed' => age' <= W + L
    BY <2>2, WithinSum
  <2>4. age' <= 2 * W + L + elapsed' => age' <= 2 * W + L + L
    BY <2>2, WithinSum
  <2> QED
    BY <2>1, <2>3, <2>4
<1>16. CASE \E d \in Durations(config, attempt) :
              ReadSucceeds(d) \/ AttemptFails(d) \/ PortFails(d)
  BY <1>15, <1>16
<1> QED
  BY <1>7, <1>8, <1>9, <1>10, <1>11, <1>12, <1>13, <1>14, <1>16
     DEF Next, PollLoop, RunCycle

LEMMA PacedInductive == Spec => []PInv
<1>1. Init => Paced
  BY DEF Init, Paced
<1>2. Spec => [](IInv /\ elapsed <= LongestCycle(config))
  <2>1. IInv => elapsed <= LongestCycle(config)
    BY ElapsedBound
  <2> QED
    BY <2>1, Inductive, PTL
<1>3. Spec => []Paced
  <2>1. /\ IInv /\ elapsed <= LongestCycle(config)
        /\ (IInv /\ elapsed <= LongestCycle(config))'
        /\ Paced /\ [Next]_vars
        => Paced'
    BY PacedStep DEF PInv
  <2> QED
    BY <1>1, <1>2, <2>1, PTL DEF Spec
<1>4. IInv /\ Paced => PInv
  BY DEF PInv
<1> QED
  BY <1>3, <1>4, Inductive, PTL

\* The slack of half an interval that expire_after leaves two full cycles.
LEMMA Slack ==
  ASSUME NEW c \in Accepted, c.registers >= 1, c.interval > 1,
         ChargesEnough(c)
  PROVE  2 * (c.interval * Second)
           + c.registers * ReaderAttempts(c) * Uncharged
             <= ExpireAfter(c) * Second
<1> DEFINE R == c.registers
           A == ReaderAttempts(c)
           P == PerAttemptMs(c)
           U == Uncharged
           I == c.interval
<1>1. R \in Nat /\ A \in Nat /\ P \in Nat /\ U \in Nat /\ I \in Nat
      /\ I > 1
  BY FieldTypes, Times
<1>2. A * P * R <= I * 1000
  BY ConfigType, FieldTypes, Times DEF WithinBudget
<1>3. 3 * U <= 2 * P
  BY DEF ChargesEnough, Ms
<1>4. ExpireAfter(c) * Second = ((I * 5) \div 2) * 2000
      /\ I * Second = 2000 * I
  BY <1>1 DEF ExpireAfter, Second, Ms
<1>5. (I * 5) \div 2 \in Nat /\ 2 * ((I * 5) \div 2) >= I * 5 - 1
      /\ (I = 2 => (I * 5) \div 2 = 5)
  BY <1>1
<1> HIDE DEF R, A, P, U, I
<1>6. 3 * (R * A * U) <= 2 * (A * P * R)
  <2>1. R * A \in Nat /\ 3 * U \in Nat /\ 2 * P \in Nat
    BY <1>1
  <2>2. (3 * U) * (R * A) <= (2 * P) * (R * A)
    BY <1>3, <2>1, TimesMonotone
  <2>3. (3 * U) * (R * A) = 3 * (R * A * U)
    BY <1>1
  <2>4. (2 * P) * (R * A) = 2 * (A * P * R)
    BY <1>1
  <2> QED
    BY <2>2, <2>3, <2>4
<1>7. R * A * U \in Nat /\ A * P * R \in Nat
  BY <1>1
<1>8. 3 * (R * A * U) <= 2000 * I
  BY <1>1, <1>2, <1>6, <1>7
<1>9. 2 * (2000 * I) + R * A * U <= ((I * 5) \div 2) * 2000
  BY <1>1, <1>5, <1>7, <1>8
<1> QED
  BY <1>4, <1>9 DEF R, A, U, I

(***************************************************************************)
(* Whatever configuration is accepted and however the readings go, an      *)
(* entity with the default expire_after outlives the gap between two       *)
(* readings of its register in consecutive cycles, and when a cycle is     *)
(* short also the gap that one failed readout leaves.                      *)
(***************************************************************************)
THEOREM EntityOutlivesGaps == Spec => []ExpiresOnlyAfterFailures
<1>1. ASSUME PInv
      PROVE  ExpiresOnlyAfterFailures
  <2> DEFINE L == LongestCycle(config)
             W == Wait
             U == config.registers * ReaderAttempts(config) * Uncharged
             E == ExpireAfter(config) * Second
  <2>1. /\ W \in Nat /\ L \in Nat /\ age \in Nat
        /\ ~disturbed /\ failures = 0 => age <= W + L
        /\ ~disturbed /\ failures = 1 => age <= 2 * W + L + L
    BY <1>1, PacedTypes, PacedMeans DEF PInv
  <2>2. /\ config \in Accepted /\ config.registers >= 1
        /\ config.registers \in Int /\ config.interval \in Nat
        /\ ReaderAttempts(config) \in Nat /\ Uncharged \in Nat
    BY <1>1, FieldTypes, Times DEF PInv, IInv, TypeOK
  <2>3. U \in Int /\ E \in Int /\ W = config.interval * Second
    BY <2>2 DEF ExpireAfter, Second, Ms, Wait
  <2>4. L <= W + U
    BY <2>2, CycleTime DEF Wait
  <2>5. ~disturbed /\ ShouldNotExpire => age <= E
    <3>1. ASSUME ~disturbed, failures = 0, config.interval > 1,
                 ChargesEnough(config)
          PROVE  age <= E
      <4>1. 2 * W + U <= E
        BY <2>2, <3>1, Slack DEF Wait
      <4> HIDE DEF W, L, U, E
      <4> QED
        BY <2>1, <2>3, <2>4, <3>1, <4>1
    <3>2. ASSUME ~disturbed, failures = 1,
                 4 * L + Second <= config.interval * Second
          PROVE  age <= E
      <4>1. /\ E = ((config.interval * 5) \div 2) * 2000
            /\ W = 2000 * config.interval /\ Second = 2000
        BY <2>2 DEF ExpireAfter, Second, Ms, Wait
      <4>2. 2 * ((config.interval * 5) \div 2) >= config.interval * 5 - 1
            /\ (config.interval * 5) \div 2 \in Nat
        BY <2>2
      <4> HIDE DEF W, L, E
      <4> QED
        BY <2>1, <2>2, <3>2, <4>1, <4>2
    <3> QED
      BY <3>1, <3>2 DEF ShouldNotExpire
  <2> QED
    BY <2>5 DEF ExpiresOnlyAfterFailures
<1> QED
  BY <1>1, PacedInductive, PTL
=============================================================================
