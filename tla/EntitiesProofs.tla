--------------------------- MODULE EntitiesProofs ---------------------------
(***************************************************************************)
(* The entities of write registers and the values of derived ones, for any *)
(* register files, any readings and any number of starts.                  *)
(***************************************************************************)
EXTENDS Entities, TLAPS

Writes == Elements(file.writes)

\* The program only runs on a file that has been validated.
FileValid == pc # "down" => file \in Files /\ Valid(file)

\* No topic is cleared that an entity of this file needs.
ClearsOthers ==
  \A t \in clearing : \A w \in Writes : t # <<Component(w), w.name>>

\* What has been announced is there, alone but for what is being cleared.
Entity(w) ==
  /\ retained[<<Component(w), w.name>>] = Payload(w)
  /\ \A c \in CommandComponents \ {Component(w)} :
       retained[<<c, w.name>>] = Nothing \/ <<c, w.name>> \in clearing

AnnouncedSoFar ==
  \/ pc \in {"derived", "running"} /\ clearing = {}
  \/ pc = "commands"

EntitiesRight ==
  AnnouncedSoFar /\ ~failed =>
    \A w \in Writes :
      w.ha /\ (pc = "commands" => w.name \notin todo) => Entity(w)

\* Stale topics are cleared only while commands are announced.
ClearsInTime == clearing # {} => pc = "commands"

IInv ==
  /\ DOMAIN retained = Topics
  /\ FileValid /\ ClearsInTime
  /\ pc = "commands" => ClearsOthers
  /\ EntitiesRight
-----------------------------------------------------------------------------
(***************************************************************************)
(* The registers of a valid file.                                          *)
(***************************************************************************)
LEMMA Indices ==
  ASSUME NEW f \in Files, NEW w \in Elements(f.writes)
  PROVE  \E i \in 1..Len(f.writes) : f.writes[i] = w
BY DEF Elements

LEMMA NamedApart ==
  ASSUME NEW f \in Files, Valid(f),
         NEW v \in Elements(f.writes), NEW w \in Elements(f.writes),
         v.name = w.name
  PROVE  v = w
<1>1. PICK i \in 1..Len(f.writes) : f.writes[i] = v
  BY Indices
<1>2. PICK j \in 1..Len(f.writes) : f.writes[j] = w
  BY Indices
<1>3. Distinct(f.writes)
  BY DEF Valid, WritesValid
<1>4. i = j
  BY <1>1, <1>2, <1>3 DEF Distinct
<1> QED
  BY <1>1, <1>2, <1>4

LEMMA OwnTopic ==
  ASSUME NEW f \in Files, NEW w \in Elements(f.writes), NEW c \in CommandComponents
  PROVE  /\ <<c, w.name>> \in Topics
         /\ Component(w) \in CommandComponents
         /\ <<Component(w), w.name>> \in Topics
         /\ Payload(w) # Nothing
<1>1. w.name \in Names(f.writes)
  BY DEF Names
<1>2. w.name \in AllNames
  BY <1>1 DEF AllNames, NamesOf
<1>3. Component(w) \in CommandComponents
  BY DEF Component, CommandComponents
<1> QED
  BY <1>2, <1>3, FilesTyped DEF Topics

LEMMA OtherTopic ==
  ASSUME NEW f \in Files, Valid(f),
         NEW v \in Elements(f.writes), NEW w \in Elements(f.writes),
         NEW c, NEW d, v # w
  PROVE  <<c, v.name>> # <<d, w.name>>
BY NamedApart
-----------------------------------------------------------------------------
LEMMA InitHolds == Init => IInv
BY DEF Init, IInv, FileValid, ClearsInTime, EntitiesRight, AnnouncedSoFar

LEMMA StartStop ==
  ASSUME IInv, (\E f \in Files : Start(f)) \/ Stop
  PROVE  IInv'
<1>1. CASE \E f \in Files : Start(f)
  BY <1>1 DEF IInv, Start, FileValid, ClearsInTime, EntitiesRight, AnnouncedSoFar
<1>2. CASE Stop
  BY <1>2 DEF IInv, Stop, FileValid, ClearsInTime, EntitiesRight, AnnouncedSoFar
<1> QED
  BY <1>1, <1>2

LEMMA SensorStep ==
  ASSUME IInv, NEW r, AnnounceSensor(r)
  PROVE  IInv'
<1>1. /\ UNCHANGED <<file, pc, clearing>>
      /\ pc \in {"sensors", "derived"}
  BY DEF AnnounceSensor
<1>2. /\ ~failed' => ~failed
      /\ \/ retained' = retained
         \/ \E m : retained' = [retained EXCEPT ![<<"sensor", r.name>>] = m]
  BY DEF AnnounceSensor, PublishFails, Publish
<1>3. DOMAIN retained' = Topics
  BY <1>2 DEF IInv
<1>4. \A c \in CommandComponents, n \in AllNames :
        retained'[<<c, n>>] = retained[<<c, n>>]
  <2> SUFFICES ASSUME NEW c \in CommandComponents, NEW n \in AllNames
               PROVE  retained'[<<c, n>>] = retained[<<c, n>>]
    OBVIOUS
  <2>1. <<c, n>> \in Topics /\ <<c, n>> # <<"sensor", r.name>>
    BY DEF Topics, CommandComponents
  <2> QED
    BY <1>2, <2>1 DEF IInv
<1>5. EntitiesRight'
  <2> SUFFICES ASSUME AnnouncedSoFar, ~failed', NEW w \in Writes, w.ha
               PROVE  Entity(w)'
    BY <1>1 DEF EntitiesRight, AnnouncedSoFar, Writes
  <2>1. pc = "derived" /\ file \in Files
    BY <1>1 DEF AnnouncedSoFar, IInv, FileValid
  <2>2. Entity(w)
    BY <1>2, <2>1 DEF IInv, EntitiesRight
  <2>3. w.name \in AllNames /\ Component(w) \in CommandComponents
    BY <2>1 DEF Writes, AllNames, NamesOf, Names, Component, CommandComponents
  <2> QED
    BY <1>1, <1>4, <2>2, <2>3 DEF Entity
<1> QED
  BY <1>1, <1>3, <1>5 DEF IInv, FileValid, ClearsInTime

\* A failure leaves nothing to show.
LEMMA FailedStep ==
  ASSUME IInv, failed', UNCHANGED <<file, pc>>, DOMAIN retained' = Topics,
         clearing' \subseteq clearing
  PROVE  IInv'
BY DEF IInv, FileValid, ClearsInTime, ClearsOthers, EntitiesRight, Writes

LEMMA CommandStep ==
  ASSUME IInv, NEW w \in Writes, AnnounceCommand(w)
  PROVE  IInv'
<1> DEFINE own == <<Component(w), w.name>>
<1>1. /\ pc = "commands" /\ clearing = {} /\ todo' = todo \ {w.name}
      /\ UNCHANGED <<file, pc>>
  BY DEF AnnounceCommand
<1>2. file \in Files /\ Valid(file) /\ w \in Elements(file.writes)
  BY <1>1 DEF IInv, FileValid, Writes
<1>3. CASE PublishFails(own, Payload(w)) /\ UNCHANGED clearing
  BY <1>1, <1>3, FailedStep DEF PublishFails, Publish, IInv
<1>4. CASE Publish(own, Payload(w)) /\ clearing' = Stale(w) /\ UNCHANGED failed
  <2>1. retained' = [retained EXCEPT ![own] = Payload(w)] /\ failed' = failed
    BY <1>4 DEF Publish
  <2>2. \A c : <<c, w.name>> \in Stale(w) <=> c \in CommandComponents \ {Component(w)}
    BY DEF Stale
  <2>3. ClearsOthers'
    <3> SUFFICES ASSUME NEW t \in Stale(w), NEW v \in Writes
                 PROVE  t # <<Component(v), v.name>>
      BY <1>1, <1>4 DEF ClearsOthers, Writes
    <3>1. PICK c \in CommandComponents \ {Component(w)} : t = <<c, w.name>>
      BY DEF Stale
    <3>2. CASE v = w
      BY <3>1, <3>2
    <3>3. CASE v # w
      BY <1>2, <3>1, <3>3, OtherTopic DEF Writes
    <3> QED
      BY <3>2, <3>3
  <2>4. EntitiesRight'
    <3> SUFFICES ASSUME ~failed, NEW v \in Writes, v.ha, v.name \notin todo \ {w.name}
                 PROVE  Entity(v)'
      BY <1>1, <2>1 DEF EntitiesRight, Writes, AnnouncedSoFar
    <3>1. CASE v = w
      <4>1. retained'[own] = Payload(w)
        BY <1>2, <2>1, OwnTopic DEF IInv, CommandComponents
      <4> QED
        BY <1>4, <2>2, <3>1, <4>1 DEF Entity
    <3>2. CASE v # w
      <4>1. v.name # w.name
        BY <1>2, <3>2, NamedApart DEF Writes
      <4>2. Entity(v)
        BY <1>1, <4>1 DEF IInv, EntitiesRight, AnnouncedSoFar
      <4>3. \A c \in CommandComponents : retained'[<<c, v.name>>] = retained[<<c, v.name>>]
        BY <1>2, <2>1, <4>1, OwnTopic DEF IInv, Writes
      <4>4. Component(v) \in CommandComponents
        BY DEF Component, CommandComponents
      <4> QED
        BY <1>1, <4>2, <4>3, <4>4 DEF Entity
    <3> QED
      BY <3>1, <3>2
  <2>5. DOMAIN retained' = Topics /\ FileValid' /\ ClearsInTime'
    BY <1>1, <2>1 DEF IInv, FileValid, ClearsInTime
  <2> QED
    BY <2>3, <2>4, <2>5 DEF IInv
<1> QED
  BY <1>3, <1>4 DEF AnnounceCommand

LEMMA ClearStep ==
  ASSUME IInv, NEW topic, ClearStale(topic)
  PROVE  IInv'
<1>1. topic \in clearing /\ UNCHANGED <<file, pc, todo>>
  BY DEF ClearStale
<1>2. pc = "commands" /\ ClearsOthers /\ file \in Files
  BY <1>1 DEF IInv, ClearsInTime, FileValid
<1>3. CASE PublishFails(topic, Nothing) /\ clearing' = {}
  BY <1>1, <1>3, FailedStep DEF PublishFails, Publish, IInv
<1>4. CASE /\ Publish(topic, Nothing)
           /\ clearing' = clearing \ {topic}
           /\ UNCHANGED failed
  <2>1. retained' = [retained EXCEPT ![topic] = Nothing] /\ failed' = failed
    BY <1>4 DEF Publish
  <2>2. ClearsOthers'
    BY <1>1, <1>2, <1>4 DEF ClearsOthers, Writes
  <2>3. EntitiesRight'
    <3> SUFFICES ASSUME ~failed, NEW w \in Writes, w.ha, w.name \notin todo
                 PROVE  Entity(w)'
      BY <1>1, <1>2, <2>1 DEF EntitiesRight, Writes, AnnouncedSoFar
    <3>1. Entity(w)
      BY <1>2 DEF IInv, EntitiesRight, AnnouncedSoFar
    <3>2. \A c \in CommandComponents : <<c, w.name>> \in Topics
      BY <1>2, OwnTopic DEF Writes
    <3>3. Component(w) \in CommandComponents
      BY DEF Component, CommandComponents
    <3>4. topic # <<Component(w), w.name>>
      BY <1>1, <1>2 DEF ClearsOthers
    <3>5. retained'[<<Component(w), w.name>>] = Payload(w)
      BY <2>1, <3>1, <3>2, <3>3, <3>4 DEF Entity, IInv
    <3>6. ASSUME NEW c \in CommandComponents \ {Component(w)}
          PROVE  retained'[<<c, w.name>>] = Nothing \/ <<c, w.name>> \in clearing'
      BY <1>4, <2>1, <3>1, <3>2 DEF Entity, IInv
    <3> QED
      BY <3>5, <3>6 DEF Entity
  <2>4. DOMAIN retained' = Topics /\ FileValid' /\ ClearsInTime'
    BY <1>1, <1>2, <2>1 DEF IInv, FileValid, ClearsInTime
  <2> QED
    BY <2>2, <2>3, <2>4 DEF IInv
<1> QED
  BY <1>3, <1>4 DEF ClearStale

LEMMA PhaseStep ==
  ASSUME IInv, NextPhase
  PROVE  IInv'
<1>1. clearing = {} /\ todo = {} /\ UNCHANGED <<file, clearing, failed, retained>>
  BY DEF NextPhase
<1>2. DOMAIN retained' = Topics /\ FileValid' /\ ClearsInTime' /\ ClearsOthers'
  BY <1>1 DEF NextPhase, IInv, FileValid, ClearsInTime, ClearsOthers
<1>3. EntitiesRight'
  <2> SUFFICES ASSUME AnnouncedSoFar', ~failed, NEW w \in Writes, w.ha,
                      pc' = "commands" => w.name \notin todo'
               PROVE  Entity(w)
    BY <1>1 DEF EntitiesRight, Writes, Entity
  <2>1. CASE pc = "sensors"
    <3>1. pc' = "commands" /\ todo' = Announced(file.writes)
      BY <2>1 DEF NextPhase
    <3>2. w.name \in todo'
      BY <3>1 DEF Announced, Writes
    <3> QED
      BY <3>1, <3>2
  <2>2. CASE pc \in {"commands", "derived"}
    BY <1>1, <2>2 DEF IInv, EntitiesRight, AnnouncedSoFar
  <2> QED
    BY <2>1, <2>2 DEF NextPhase
<1> QED
  BY <1>2, <1>3 DEF IInv

LEMMA CycleStep ==
  ASSUME IInv, UNCHANGED <<file, progress, retained>>
  PROVE  IInv'
BY DEF IInv, progress, FileValid, ClearsInTime, ClearsOthers, EntitiesRight,
   AnnouncedSoFar, Entity, Writes

LEMMA StepKeeps == IInv /\ [Next]_vars => IInv'
<1> SUFFICES ASSUME IInv, [Next]_vars PROVE IInv'
  OBVIOUS
<1>1. CASE (\E f \in Files : Start(f)) \/ Stop
  BY <1>1, StartStop
<1>2. ASSUME NEW r \in Elements(file.reads) \cup Elements(file.derived),
             AnnounceSensor(r)
      PROVE  IInv'
  BY <1>2, SensorStep
<1>3. ASSUME NEW w \in Elements(file.writes), AnnounceCommand(w)
      PROVE  IInv'
  BY <1>3, CommandStep DEF Writes
<1>4. ASSUME NEW t \in Topics, ClearStale(t)
      PROVE  IInv'
  BY <1>4, ClearStep
<1>5. CASE NextPhase
  BY <1>5, PhaseStep
<1>6. CASE Cycle \/ UNCHANGED vars
  <2>1. UNCHANGED <<file, progress, retained>>
    BY <1>6 DEF Cycle, Derive, vars
  <2> QED
    BY <2>1, CycleStep
<1> QED
  BY <1>1, <1>2, <1>3, <1>4, <1>5, <1>6 DEF Next

THEOREM Invariance == Spec => []IInv
BY InitHolds, StepKeeps, PTL DEF Spec

LEMMA RunningEntities ==
  ASSUME IInv, DiscoveryComplete, NEW w \in CommandRegisters
  PROVE  /\ file \in Files /\ Valid(file) /\ w \in Elements(file.writes)
         /\ retained[<<Component(w), w.name>>] = Payload(w)
         /\ Payload(w) # Nothing
         /\ \A c \in CommandComponents \ {Component(w)} :
              retained[<<c, w.name>>] = Nothing
<1>1. pc = "running" /\ ~failed /\ w \in Writes /\ w.ha
  BY DEF DiscoveryComplete, CommandRegisters, Writes
<1>2. file \in Files /\ Valid(file) /\ clearing = {}
  BY <1>1 DEF IInv, FileValid, ClearsInTime
<1>3. Entity(w)
  BY <1>1, <1>2 DEF IInv, EntitiesRight, AnnouncedSoFar
<1>4. Payload(w) # Nothing
  BY <1>1, <1>2, FilesTyped DEF Writes
<1> QED
  BY <1>1, <1>2, <1>3, <1>4 DEF Entity, Writes

(***************************************************************************)
(* After discovery without a failure a write register is one entity of its *)
(* kind, whatever the broker kept of earlier files.                        *)
(***************************************************************************)
THEOREM OneEntityEach == Spec => []NoStaleEntity
<1>1. IInv => NoStaleEntity
  <2> SUFFICES ASSUME IInv, DiscoveryComplete, NEW w \in CommandRegisters,
                      NEW c \in CommandComponents
               PROVE  retained[<<c, w.name>>] # Nothing <=> c = Component(w)
    BY DEF NoStaleEntity
  <2>1. CASE c = Component(w)
    BY <2>1, RunningEntities
  <2>2. CASE c # Component(w)
    BY <2>2, RunningEntities
  <2> QED
    BY <2>1, <2>2
<1> QED
  BY <1>1, Invariance, PTL

(***************************************************************************)
(* What an entity sends reaches its register and is in range, since topics *)
(* are apart and no message of another range is left.                      *)
(***************************************************************************)
THEOREM CommandsAccepted == Spec => []EntityCommandsAccepted
<1>1. IInv => EntityCommandsAccepted
  <2> SUFFICES ASSUME IInv, DiscoveryComplete, NEW w \in CommandRegisters,
                      NEW c \in CommandComponents,
                      retained[<<c, w.name>>] # Nothing
               PROVE  /\ Routed(retained[<<c, w.name>>].topic) = {w}
                      /\ \A v \in retained[<<c, w.name>>].values :
                           w.min <= v /\ v <= w.max
    BY DEF EntityCommandsAccepted
  <2>1. file \in Files /\ Valid(file) /\ w \in Elements(file.writes)
    BY RunningEntities
  <2>2. retained[<<c, w.name>>] = Payload(w)
    BY RunningEntities
  <2>3. Payload(w).topic = w.topic
        /\ Payload(w).values =
             (IF Component(w) = "switch" THEN {0, 1} ELSE w.min..w.max)
    BY DEF Payload
  <2>4. w.min \in Int /\ w.max \in Int
    BY <2>1, FilesTyped
  <2>5. \A v \in Payload(w).values : w.min <= v /\ v <= w.max
    <3>1. CASE w.min = 0 /\ w.max = 1
      BY <2>3, <3>1 DEF Component
    <3>2. CASE ~(w.min = 0 /\ w.max = 1)
      <4>1. Component(w) = "number"
        BY <3>2 DEF Component
      <4> QED
        BY <2>3, <2>4, <4>1
    <3> QED
      BY <3>1, <3>2
  <2>6. Routed(w.topic) = {w}
    <3>1. PICK i \in 1..Len(file.writes) : file.writes[i] = w
      BY <2>1, Indices
    <3>2. \A j \in 1..Len(file.writes) : file.writes[j].topic = w.topic <=> j = i
      BY <2>1, <3>1 DEF Valid, WritesValid
    <3>3. i \in Int
      BY <2>1, FilesTyped
    <3>4. {j \in 1..Len(file.writes) : file.writes[j].topic = w.topic} = {i}
      BY <3>1, <3>2
    <3>5. {j \in {i} : \A k \in {i} : k <= j} = {i}
      BY <3>3
    <3>6. Routed(w.topic) = {file.writes[j] : j \in {i}}
      BY <3>4, <3>5 DEF Routed
    <3> QED
      BY <3>1, <3>6
  <2> QED
    BY <2>2, <2>3, <2>5, <2>6
<1> QED
  BY <1>1, Invariance, PTL
-----------------------------------------------------------------------------
(***************************************************************************)
(* Rounding and the formulas of derived registers.                         *)
(***************************************************************************)
LEMMA Quotient ==
  ASSUME NEW x \in Int, NEW d \in Int, d > 0
  PROVE  /\ x \div d \in Int
         /\ d * (x \div d) <= x
         /\ x < d * (x \div d) + d
OBVIOUS

\* Rounding is off by half the divisor at most.
LEMMA RoundedNear ==
  ASSUME NEW a \in Int, NEW b \in Int, b # 0
  PROVE  /\ Rounded(a, b) \in Int
         /\ 2 * Magnitude(Rounded(a, b) * b - a) <= Magnitude(b)
<1> DEFINE A == Magnitude(a)
           B == Magnitude(b)
           q == (2 * A + B) \div (2 * B)
<1>1. A \in Int /\ B \in Int /\ A >= 0 /\ B > 0
  BY DEF Magnitude
<1>2. q \in Int /\ (2 * B) * q <= 2 * A + B /\ 2 * A + B < (2 * B) * q + 2 * B
  <2>1. 2 * A + B \in Int /\ 2 * B \in Int /\ 2 * B > 0
    BY <1>1
  <2> HIDE DEF A, B
  <2>2. QED
    BY <2>1, Quotient
<1>3. Rounded(a, b) = IF a < 0 <=> b < 0 THEN q ELSE -q
  BY DEF Rounded
<1>4. q * B \in Int /\ 2 * (q * B) <= 2 * A + B /\ 2 * A < 2 * (q * B) + B
  <2> HIDE DEF A, B, q
  <2>1. QED
    BY <1>1, <1>2
<1>5. Rounded(a, b) * b \in {q * B, -(q * B)}
      /\ (Rounded(a, b) * b = q * B <=> a >= 0 \/ q * B = 0)
  <2>1. QED
    BY <1>1, <1>2, <1>3 DEF Magnitude
<1>6. QED
  BY <1>1, <1>3, <1>4, <1>5 DEF Magnitude

LEMMA InputNames ==
  /\ DOMAIN Inputs =
       {"zuluftabluftprozent", "co2luefterstufe4", "beschattungtemp_adjusted"}
  /\ Inputs["zuluftabluftprozent"] = {"zuluftumin", "abluftumin"}
  /\ Inputs["co2luefterstufe4"] = {"co2luefterstufe3"}
  /\ Inputs["beschattungtemp_adjusted"] =
       {"beschattungtemp", "beschattungaussentemp", "aussentemp"}
BY DEF Inputs

\* Each formula computes what it is for, to the precision it is shown with.
LEMMA FormulaRight ==
  ASSUME NEW n \in DOMAIN Inputs, NEW src,
         \A i \in Inputs[n] : src[i] \in Int,
         NEW v \in Formula(n, src)
  PROVE  RightValue(n, v, src)
<1>1. CASE n = "zuluftabluftprozent"
  <2> DEFINE a == src["zuluftumin"]
             b == src["abluftumin"]
  <2>1. a \in Int /\ b \in Int
    BY <1>1, InputNames
  <2>2. v \in IF b # 0 THEN Is(Rounded(1000 * a, b))
              ELSE IF a = 0 THEN Is(1000) ELSE Undefined
    BY <1>1 DEF Formula
  <2>3. CASE b # 0
    <3>1. v = Rounded(1000 * a, b)
      BY <2>2, <2>3 DEF Is
    <3>2. 2 * Magnitude(v * b - 1000 * a) <= Magnitude(b)
      <4>1. 1000 * a \in Int
        BY <2>1
      <4> HIDE DEF a, b
      <4>2. QED
        BY <2>1, <2>3, <3>1, <4>1, RoundedNear
    <3>3. QED
      BY <1>1, <2>3, <3>2 DEF RightValue
  <2>4. CASE b = 0
    <3>1. a = 0 /\ v = 1000
      BY <2>2, <2>4 DEF Is, Undefined
    <3>2. QED
      BY <1>1, <2>4, <3>1 DEF RightValue
  <2>5. QED
    BY <2>3, <2>4
<1>2. CASE n = "co2luefterstufe4"
  <2> DEFINE a == src["co2luefterstufe3"]
             r == Rounded(12 * a, 100)
  <2>1. a \in Int
    BY <1>2, InputNames
  <2>2. v = 10 * r
    BY <1>2 DEF Formula, Is
  <2>3. r \in Int /\ 2 * Magnitude(r * 100 - 12 * a) <= 100
    <3>1. 12 * a \in Int /\ Magnitude(100) = 100
      BY <2>1 DEF Magnitude
    <3> HIDE DEF a
    <3>2. QED
      BY <3>1, RoundedNear
  <2>4. v % 10 = 0 /\ 10 * Magnitude(10 * v - 12 * a) <= 500
    <3> HIDE DEF a, r
    <3>1. QED
      BY <2>1, <2>2, <2>3 DEF Magnitude
  <2>5. QED
    BY <1>2, <2>4 DEF RightValue
<1>3. CASE n = "beschattungtemp_adjusted"
  <2>1. /\ src["beschattungtemp"] \in Int
        /\ src["beschattungaussentemp"] \in Int
        /\ src["aussentemp"] \in Int
    BY <1>3, InputNames
  <2>2. v = IF src["beschattungaussentemp"] < src["aussentemp"]
            THEN src["beschattungtemp"] - 5 ELSE src["beschattungtemp"] + 10
    BY <1>3 DEF Formula, Is
  <2>3. QED
    BY <1>3, <2>1, <2>2 DEF RightValue
<1>4. QED
  BY <1>1, <1>2, <1>3, InputNames

\* A value is only calculated from readings of all the formula uses.
LEMMA CalculatedRight ==
  ASSUME file \in Files, Valid(file), FormulasSupplied(file),
         NEW values \in [Names(file.reads) -> Readings \cup {NoReading}],
         NEW d \in Elements(file.derived),
         NEW v \in Calculated(d, values)
  PROVE  /\ d.name \in DOMAIN Inputs
         /\ \A i \in Inputs[d.name] : i \in DOMAIN values /\ values[i] \in Readings
         /\ RightValue(d.name, v, [i \in Inputs[d.name] |-> values[i]])
<1> DEFINE src == [i \in Inputs[d.name] |-> IF i \in d.sources THEN values[i] ELSE 0]
<1>1. d.name \in DOMAIN Inputs /\ Inputs[d.name] \subseteq d.sources
  BY DEF FormulasSupplied
<1>2. d.sources \subseteq Names(file.reads)
  BY DEF Valid
<1>3. \A s \in d.sources : values[s] # NoReading
  BY DEF Calculated, Undefined
<1>4. \A i \in Inputs[d.name] : i \in DOMAIN values /\ values[i] \in Readings
  BY <1>1, <1>2, <1>3
<1>5. v \in Formula(d.name, src)
  BY <1>3 DEF Calculated
<1>6. src = [i \in Inputs[d.name] |-> values[i]]
  BY <1>1
<1>7. \A i \in Inputs[d.name] : src[i] \in Int
  BY <1>4, <1>6, ReadingsTyped
<1> HIDE DEF src
<1>8. RightValue(d.name, v, src)
  BY <1>1, <1>5, <1>7, FormulaRight
<1>9. QED
  BY <1>1, <1>4, <1>6, <1>8
-----------------------------------------------------------------------------
\* What is on a derived topic and what it was computed from.
DInv ==
  /\ DOMAIN shown = DOMAIN Inputs /\ DOMAIN basis = DOMAIN Inputs
  /\ pc # "down" => file \in Files /\ Valid(file) /\ FormulasSupplied(file)
  /\ \A n \in DOMAIN Inputs :
       shown[n] # Nothing =>
         /\ \A i \in Inputs[n] : basis[n][i] \in Readings
         /\ RightValue(n, shown[n], basis[n])

LEMMA DeriveStep ==
  ASSUME DInv,
         NEW values \in [Names(file.reads) -> Readings \cup {NoReading}],
         NEW published, Derive(values, published)
  PROVE  DInv'
<1> DEFINE fresh == {d \in Elements(file.derived) :
                       d.name \in published /\ Calculated(d, values) # Undefined}
           from(n) == UNION {Calculated(d, values) :
                               d \in {x \in fresh : x.name = n}}
<1>1. pc = "running" /\ file \in Files /\ Valid(file) /\ FormulasSupplied(file)
  BY DEF DInv, Derive
<1>2. /\ UNCHANGED <<file, pc>>
      /\ DOMAIN shown' = DOMAIN Inputs /\ DOMAIN basis' = DOMAIN Inputs
  BY DEF DInv, Derive, progress
<1>3. ASSUME NEW n \in DOMAIN Inputs, shown'[n] # Nothing
      PROVE  /\ \A i \in Inputs[n] : basis'[n][i] \in Readings
             /\ RightValue(n, shown'[n], basis'[n])
  <2>1. CASE n \in {d.name : d \in fresh}
    <3>1. /\ shown'[n] = CHOOSE v \in from(n) : TRUE
          /\ basis'[n] = [i \in Inputs[n] |-> IF i \in DOMAIN values THEN values[i]
                                              ELSE NoReading]
      BY <2>1 DEF DInv, Derive
    <3>2. PICK d \in fresh : d.name = n
      BY <2>1
    <3>3. Calculated(d, values) # {} /\ Calculated(d, values) \subseteq from(n)
      BY <3>2 DEF Undefined
    <3>4. shown'[n] \in from(n)
      BY <3>1, <3>3
    <3>5. PICK e \in fresh : e.name = n /\ shown'[n] \in Calculated(e, values)
      BY <3>4
    <3>6. /\ \A i \in Inputs[n] : i \in DOMAIN values /\ values[i] \in Readings
          /\ RightValue(n, shown'[n], [i \in Inputs[n] |-> values[i]])
      BY <1>1, <3>5, CalculatedRight
    <3>7. basis'[n] = [i \in Inputs[n] |-> values[i]]
      BY <3>1, <3>6
    <3>8. QED
      BY <3>6, <3>7
  <2>2. CASE n \notin {d.name : d \in fresh}
    <3>1. shown'[n] = shown[n] /\ basis'[n] = basis[n]
      BY <2>2 DEF DInv, Derive
    <3>2. QED
      BY <1>3, <3>1 DEF DInv
  <2>3. QED
    BY <2>1, <2>2
<1>4. QED
  BY <1>1, <1>2, <1>3 DEF DInv

LEMMA DerivedInvariant == Spec => []DInv
<1>1. Init => DInv
  BY DEF Init, DInv
<1>2. ASSUME DInv, [Next]_vars
      PROVE  DInv'
  <2>1. ASSUME NEW f \in Files, Start(f)
        PROVE  DInv'
    BY <1>2, <2>1 DEF Start, DInv
  <2>2. CASE Stop
    BY <1>2, <2>2 DEF Stop, DInv
  <2>3. ASSUME UNCHANGED <<file, shown, basis>>, pc' # "down" => pc # "down"
        PROVE  DInv'
    BY <1>2, <2>3 DEF DInv
  <2>4. ASSUME NEW r, AnnounceSensor(r)
        PROVE  DInv'
    BY <2>3, <2>4 DEF AnnounceSensor
  <2>5. ASSUME NEW w, AnnounceCommand(w)
        PROVE  DInv'
    BY <2>3, <2>5 DEF AnnounceCommand
  <2>6. ASSUME NEW t, ClearStale(t)
        PROVE  DInv'
    BY <2>3, <2>6 DEF ClearStale
  <2>7. CASE NextPhase
    BY <2>3, <2>7 DEF NextPhase
  <2>8. CASE Cycle
    BY <1>2, <2>8, DeriveStep DEF Cycle
  <2>9. CASE UNCHANGED vars
    BY <2>3, <2>9 DEF vars, progress
  <2>10. QED
    BY <1>2, <2>1, <2>2, <2>4, <2>5, <2>6, <2>7, <2>8, <2>9 DEF Next
<1>3. QED
  BY <1>1, <1>2, PTL DEF Spec

(***************************************************************************)
(* What is on a derived topic was computed in one cycle from readings of   *)
(* every register its formula uses, and is the value the formula stands    *)
(* for, rounded to the nearest, for any readings of either sign and with a *)
(* stopped fan (Calculate, calculateSingle, derivedFormulas, Validate).    *)
(***************************************************************************)
THEOREM DerivedValuesRight == Spec => []DerivedFromReadings
<1>1. DInv => DerivedFromReadings
  BY NothingApart DEF DInv, DerivedFromReadings
<1>2. QED
  BY <1>1, DerivedInvariant, PTL
=============================================================================
