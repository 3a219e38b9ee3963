------------------------------ MODULE Entities ------------------------------
(***************************************************************************)
(* The register file and what Home Assistant is told of it: validation in  *)
(* internal/config/config.go, the discovery messages of                    *)
(* internal/mqtt/discovery.go published by cmd/main.go, and the values of  *)
(* internal/registers/derived.go.                                          *)
(*                                                                         *)
(* The broker keeps every discovery message across restarts of the         *)
(* gateway, which may come back with another file: a register gets another *)
(* range and with it another kind of entity, is renamed or goes away.      *)
(* Publishes fail, and the gateway may stop between any two of them.       *)
(*                                                                         *)
(* Readings are numbers with one decimal, counted in tenths.               *)
(***************************************************************************)
EXTENDS Integers, Sequences, FiniteSets

CONSTANTS
  Files,      \* register files that start-ups may find
  Readings,   \* what a register may read, in tenths
  NoReading,  \* a register that could not be read
  Nothing,    \* an empty retained topic
  MaxStarts   \* bound: starts of the gateway

ASSUME NothingApart == NoReading \notin Readings /\ MaxStarts \in Nat
ASSUME ReadingsTyped == Readings \subseteq Int

(***************************************************************************)
(* A file has sequences of read, write and derived registers:              *)
(*   [name, min, max, ha], [name, topic, min, max, stateFrom, ha] and      *)
(*   [name, sources, ha]; ha tells whether there is a name for Home        *)
(* Assistant and "" stands for what is left out.                           *)
(***************************************************************************)
Elements(s) == {s[i] : i \in 1..Len(s)}
Names(s) == {r.name : r \in Elements(s)}

Distinct(s) == \A i, j \in 1..Len(s) : s[i].name = s[j].name => i = j

ReadsValid(s) ==
  /\ Distinct(s)
  /\ \A r \in Elements(s) :
       /\ r.name # ""
       /\ r.min <= r.max
       /\ ~(r.min = 0 /\ r.max = 0)

\* Bug: two registers may listen to one topic.
WritesValidSharing(s, reads) ==
  /\ Distinct(s)
  /\ \A w \in Elements(s) :
       /\ w.name # "" /\ w.topic # ""
       /\ w.min <= w.max
       /\ w.stateFrom \in reads \cup {""}

WritesValid(s, reads) ==
  /\ Distinct(s)
  /\ \A w \in Elements(s) :
       /\ w.name # "" /\ w.topic # ""
       /\ w.min <= w.max
       /\ w.stateFrom \in reads \cup {""}
  /\ \A i, j \in 1..Len(s) : s[i].topic = s[j].topic => i = j

\* RegistersConfig.Validate
Valid(file) ==
  /\ ReadsValid(file.reads)
  /\ WritesValid(file.writes, Names(file.reads))
  /\ Distinct(file.derived)
  /\ \A d \in Elements(file.derived) : d.sources \subseteq Names(file.reads)

(***************************************************************************)
(* Derived registers.                                                      *)
(***************************************************************************)
\* derivedInputs; its domain is that of derivedFormulas.
Inputs ==
  [zuluftabluftprozent |-> {"zuluftumin", "abluftumin"},
   co2luefterstufe4 |-> {"co2luefterstufe3"},
   beschattungtemp_adjusted |->
     {"beschattungtemp", "beschattungaussentemp", "aussentemp"}]

\* Bug: whatever is listed is enough.
FormulasSuppliedUnchecked(file) ==
  \A d \in Elements(file.derived) : d.name \in DOMAIN Inputs

\* DerivedCalculator.Validate
FormulasSupplied(file) ==
  \A d \in Elements(file.derived) :
    d.name \in DOMAIN Inputs /\ Inputs[d.name] \subseteq d.sources

Undefined == {}          \* NaN or infinite
Is(tenths) == {tenths}

Magnitude(n) == IF n < 0 THEN -n ELSE n

\* The whole number nearest to a / b, halves away from zero.
Rounded(a, b) ==
  LET q == (2 * Magnitude(a) + Magnitude(b)) \div (2 * Magnitude(b))
  IN  IF a < 0 <=> b < 0 THEN q ELSE -q

\* derivedFormulas on the values of a map, which holds 0 for what it lacks.
Formula(name, src) ==
  CASE name = "zuluftabluftprozent" ->
         IF src["abluftumin"] # 0
         THEN Is(Rounded(1000 * src["zuluftumin"], src["abluftumin"]))
         ELSE IF src["zuluftumin"] = 0 THEN Is(1000) ELSE Undefined
    [] name = "co2luefterstufe4" ->
         Is(10 * Rounded(12 * src["co2luefterstufe3"], 100))
    [] name = "beschattungtemp_adjusted" ->
         IF src["beschattungaussentemp"] < src["aussentemp"]
         THEN Is(src["beschattungtemp"] - 5)
         ELSE Is(src["beschattungtemp"] + 10)

\* calculateSingle: every source has to have been read.
Calculated(d, values) ==
  IF \E s \in d.sources : values[s] = NoReading THEN Undefined
  ELSE Formula(d.name, [n \in Inputs[d.name] |->
                          IF n \in d.sources THEN values[n] ELSE 0])

(***************************************************************************)
(* Discovery.                                                              *)
(***************************************************************************)
CommandComponents == {"switch", "number"}

\* CommandConfig
Component(w) == IF w.min = 0 /\ w.max = 1 THEN "switch" ELSE "number"

Payload(w) ==
  [topic |-> w.topic,
   values |-> IF Component(w) = "switch" THEN {0, 1} ELSE w.min..w.max]

ASSUME FilesTyped ==
  \A f \in Files :
    /\ Len(f.writes) \in Nat
    /\ \A w \in Elements(f.writes) :
         w.min \in Int /\ w.max \in Int /\ Payload(w) # Nothing

\* Bug: what was published for another kind of entity stays.
StaleNone(w) == {}

\* StaleCommandTopics
Stale(w) == {<<c, w.name>> : c \in CommandComponents \ {Component(w)}}

\* SensorConfig and DerivedSensorConfig
Sensor(r) == [topic |-> r.name, values |-> {}]

VARIABLES
  file,      \* the register file of this run of the program
  pc,        \* "down", "sensors", "commands", "derived", "running"
  todo,      \* registers of this phase not announced yet
  clearing,  \* stale topics of the current write register still to clear
  failed,    \* whether an announcement of this run has failed
  retained,  \* the broker: discovery topic -> message
  shown,     \* derived topic -> value this run published last, in tenths
  basis,     \* history: the readings of the cycle that published it
  starts     \* counted against MaxStarts

progress == <<pc, todo, clearing, failed>>
vars == <<file, progress, retained, shown, basis, starts>>

NamesOf(f) == Names(f.reads) \cup Names(f.writes) \cup Names(f.derived)
AllNames == UNION {NamesOf(f) : f \in Files}
Topics == (CommandComponents \cup {"sensor"}) \X AllNames

TypeOK ==
  /\ file \in Files \cup {Nothing}
  /\ pc \in {"down", "sensors", "commands", "derived", "running"}
  /\ file = Nothing <=> pc = "down"
  /\ todo \subseteq AllNames /\ clearing \subseteq Topics
  /\ failed \in BOOLEAN /\ starts \in 0..MaxStarts
  /\ DOMAIN retained = Topics
  /\ DOMAIN shown = DOMAIN Inputs /\ DOMAIN basis = DOMAIN Inputs

Init ==
  /\ file = Nothing
  /\ pc = "down" /\ todo = {} /\ clearing = {} /\ failed = FALSE
  /\ retained = [t \in Topics |-> Nothing]
  /\ shown = [d \in DOMAIN Inputs |-> Nothing]
  /\ basis = [d \in DOMAIN Inputs |-> Nothing]
  /\ starts = 0

Announced(s) == {r.name : r \in {x \in Elements(s) : x.ha}}

(***************************************************************************)
(* Start and stop.                                                         *)
(***************************************************************************)
\* loadConfig and the validation of the formulas; a file that fails either
\* ends the program before it publishes anything.
Start(f) ==
  /\ pc = "down"
  /\ starts < MaxStarts
  /\ starts' = starts + 1
  /\ Valid(f) /\ FormulasSupplied(f)
  /\ file' = f
  /\ pc' = "sensors" /\ todo' = Announced(f.reads)
  /\ UNCHANGED <<clearing, failed, retained, shown, basis>>

\* A stop, or a crash, at any point.
Stop ==
  /\ pc # "down"
  /\ pc' = "down" /\ todo' = {} /\ clearing' = {} /\ failed' = FALSE
  /\ file' = Nothing
  /\ shown' = [d \in DOMAIN Inputs |-> Nothing]
  /\ basis' = [d \in DOMAIN Inputs |-> Nothing]
  /\ UNCHANGED <<retained, starts>>

(***************************************************************************)
(* publishHADiscovery.                                                     *)
(***************************************************************************)
Publish(topic, message) == retained' = [retained EXCEPT ![topic] = message]

\* A publish that timed out may have arrived.
PublishFails(topic, message) ==
  /\ failed' = TRUE
  /\ Publish(topic, message) \/ UNCHANGED retained

AnnounceSensor(r) ==
  /\ \/ pc = "sensors" /\ r \in Elements(file.reads)
     \/ pc = "derived" /\ r \in Elements(file.derived)
  /\ r.name \in todo
  /\ todo' = todo \ {r.name}
  /\ \/ Publish(<<"sensor", r.name>>, Sensor(r)) /\ UNCHANGED failed
     \/ PublishFails(<<"sensor", r.name>>, Sensor(r))
  /\ UNCHANGED <<file, pc, clearing, shown, basis, starts>>

\* PublishCommandConfig: the config first, then what is stale.
AnnounceCommand(w) ==
  /\ pc = "commands"
  /\ clearing = {}
  /\ w \in Elements(file.writes)
  /\ w.name \in todo
  /\ todo' = todo \ {w.name}
  /\ \/ /\ Publish(<<Component(w), w.name>>, Payload(w))
        /\ clearing' = Stale(w)
        /\ UNCHANGED failed
     \/ /\ PublishFails(<<Component(w), w.name>>, Payload(w))
        /\ UNCHANGED clearing
  /\ UNCHANGED <<file, pc, shown, basis, starts>>

\* ClearDiscovery; the first failure gives the rest up.
ClearStale(topic) ==
  /\ topic \in clearing
  /\ \/ /\ Publish(topic, Nothing)
        /\ clearing' = clearing \ {topic}
        /\ UNCHANGED failed
     \/ PublishFails(topic, Nothing) /\ clearing' = {}
  /\ UNCHANGED <<file, pc, todo, shown, basis, starts>>

NextPhase ==
  /\ todo = {} /\ clearing = {}
  /\ \/ pc = "sensors" /\ pc' = "commands" /\ todo' = Announced(file.writes)
     \/ pc = "commands" /\ pc' = "derived" /\ todo' = Announced(file.derived)
     \/ pc = "derived" /\ pc' = "running" /\ todo' = {}
  /\ UNCHANGED <<file, clearing, failed, retained, shown, basis, starts>>

(***************************************************************************)
(* The derived part of a read cycle: Calculate, then PublishAll for as     *)
(* many as the cycle gets to, or the broker takes.                         *)
(***************************************************************************)
Derive(values, published) ==
  /\ pc = "running"
  /\ LET fresh == {d \in Elements(file.derived) :
                     d.name \in published /\ Calculated(d, values) # Undefined}
     IN  /\ shown' = [n \in DOMAIN shown |->
                        IF n \in {d.name : d \in fresh}
                        THEN CHOOSE v \in UNION {Calculated(d, values) :
                                     d \in {x \in fresh : x.name = n}} : TRUE
                        ELSE shown[n]]
         /\ basis' = [n \in DOMAIN basis |->
                        IF n \in {d.name : d \in fresh}
                        THEN [i \in Inputs[n] |->
                                IF i \in DOMAIN values THEN values[i]
                                ELSE NoReading]
                        ELSE basis[n]]
  /\ UNCHANGED <<file, progress, retained, starts>>

Cycle ==
  /\ pc = "running"
  /\ \E values \in [Names(file.reads) -> Readings \cup {NoReading}],
        published \in SUBSET Names(file.derived) : Derive(values, published)

Next ==
  \/ \E f \in Files : Start(f)
  \/ /\ file # Nothing
     /\ \/ \E r \in Elements(file.reads) \cup Elements(file.derived) :
             AnnounceSensor(r)
        \/ \E w \in Elements(file.writes) : AnnounceCommand(w)
  \/ \E t \in Topics : ClearStale(t)
  \/ NextPhase \/ Cycle \/ Stop

Spec == Init /\ [][Next]_vars

(***************************************************************************)
(* Properties.                                                             *)
(***************************************************************************)
DiscoveryComplete == pc = "running" /\ ~failed
CommandRegisters == {w \in Elements(file.writes) : w.ha}

(***************************************************************************)
(* Once discovery has gone through without a failure every write register  *)
(* is exactly one entity, of the kind its range calls for, whatever files  *)
(* earlier runs had and wherever they stopped (StaleCommandTopics).        *)
(***************************************************************************)
NoStaleEntity ==
  DiscoveryComplete =>
    \A w \in CommandRegisters, c \in CommandComponents :
      retained[<<c, w.name>>] # Nothing <=> c = Component(w)

(***************************************************************************)
(* Every command that the entity of a write register of the file can send  *)
(* arrives at that register and is in its range: the topic routes to it,   *)
(* and no message of an earlier file offers values the register rejects.   *)
(* Entities that renamed or removed registers left behind are not meant.   *)
(***************************************************************************)
\* NewWriter's byTopic: of two registers with one topic the last stays.
Routed(topic) ==
  LET s == file.writes
      listeners == {i \in 1..Len(s) : s[i].topic = topic}
  IN  {s[i] : i \in {j \in listeners : \A k \in listeners : k <= j}}

EntityCommandsAccepted ==
  DiscoveryComplete =>
    \A w \in CommandRegisters, c \in CommandComponents :
      retained[<<c, w.name>>] # Nothing =>
        /\ Routed(retained[<<c, w.name>>].topic) = {w}
        /\ \A v \in retained[<<c, w.name>>].values : w.min <= v /\ v <= w.max

(***************************************************************************)
(* A derived value on its topic comes from one cycle that has read every   *)
(* register its formula uses, and is the formula's value to the precision  *)
(* it is shown with; a stopped exhaust fan never yields a ratio.           *)
(***************************************************************************)
RightValue(name, value, b) ==
  CASE name = "zuluftabluftprozent" ->
         IF b["abluftumin"] = 0 THEN b["zuluftumin"] = 0 /\ value = 1000
         ELSE 2 * Magnitude(value * b["abluftumin"] - 1000 * b["zuluftumin"])
                <= Magnitude(b["abluftumin"])
    [] name = "co2luefterstufe4" ->
         value % 10 = 0 /\ 10 * Magnitude(10 * value - 12 * b["co2luefterstufe3"]) <= 500
    [] name = "beschattungtemp_adjusted" ->
         IF b["aussentemp"] > b["beschattungaussentemp"]
         THEN b["beschattungtemp"] - value = 5
         ELSE value - b["beschattungtemp"] = 10

DerivedFromReadings ==
  \A n \in DOMAIN Inputs :
    shown[n] # Nothing =>
      /\ \A i \in Inputs[n] : basis[n][i] # NoReading
      /\ RightValue(n, shown[n], basis[n])
=============================================================================
