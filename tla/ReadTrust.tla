------------------------------ MODULE ReadTrust ------------------------------
(***************************************************************************)
(* internal/registers/reader.go: which readings of a register ReadSingle   *)
(* trusts.  The poll cycle, the command worker and the settle re-read read *)
(* concurrently and share the last trusted value.  Frames carry no         *)
(* checksum: a collision turns a reply into another well-formed number.    *)
(* Registers do not affect each other, so there is one.                    *)
(*                                                                         *)
(* Values are integers: what the device reports is raw, a processed value  *)
(* is in units of its last printed digit, Scale of them to one.            *)
(***************************************************************************)
EXTENDS Integers, FiniteSets

CONSTANTS
  Callers,
  Raw,                 \* what the device may report
  Divisor, Scale,      \* Scale: 10 for the type float, 1 otherwise
  MinValue, MaxValue,  \* whole units
  ConfirmStep,         \* in processed units
  Retries,             \* as configured
  MaxChanges,          \* bound: changes of the unit's value
  MaxFailures,         \* bound: exchanges that fail or are cancelled
  MaxCorrupted         \* bound: replies that are turned into another number

ASSUME ReadLimits ==
  /\ IsFiniteSet(Callers)
  /\ Raw \subseteq Nat
  /\ Divisor \in Nat \ {0} /\ Scale \in {1, 10}
  /\ MinValue \in Int /\ MaxValue \in Int
  /\ ConfirmStep \in Nat /\ Retries \in Nat
  /\ MaxChanges \in Nat /\ MaxFailures \in Nat /\ MaxCorrupted \in Nat

VARIABLES
  actual,     \* what the device would report now
  trusted,    \* the register's last trusted value
  call,       \* each caller's readSingleRaw
  genuine,    \* history: processed values really reported
  corrupted,  \* history: replies corrupted so far
  changes, failures   \* counted against the bounds

vars == <<actual, trusted, call, genuine, corrupted, changes, failures>>

Nothing == -1   \* processed values are natural numbers here

\* processValue: divide and round half away from zero.
Processed(raw) == (2 * raw * Scale + Divisor) \div (2 * Divisor)

\* ValidateValue
InRange(value) == MinValue * Scale <= value /\ value <= MaxValue * Scale

Near(a, b) == a - b <= ConfirmStep /\ b - a <= ConfirmStep

\* isTrusted and agree.
IsTrusted(value) == trusted # Nothing /\ Near(value, trusted)
Agrees(value, samples) == \E earlier \in samples : Near(value, earlier)

\* Bug: as many attempts as configured, even one.
AttemptsConfigured == Retries

\* NewReader: a change takes a second reading.
Attempts == IF Retries < 2 THEN 2 ELSE Retries

Idle == [pc |-> "idle", attempt |-> 0, samples |-> {}, value |-> Nothing,
         hit |-> FALSE]

Init ==
  /\ actual \in Raw
  /\ trusted = Nothing
  /\ call = [c \in Callers |-> Idle]
  /\ genuine = {}
  /\ corrupted = 0 /\ changes = 0 /\ failures = 0

(***************************************************************************)
(* The unit (external).                                                    *)
(***************************************************************************)
Changes(raw) ==
  /\ changes < MaxChanges
  /\ raw # actual
  /\ actual' = raw
  /\ changes' = changes + 1
  /\ UNCHANGED <<trusted, call, genuine, corrupted, failures>>

(***************************************************************************)
(* readSingleRaw.                                                          *)
(***************************************************************************)
At(c, pc) == call[c].pc = pc

Begin(c) ==
  /\ At(c, "idle")
  /\ call' = [call EXCEPT ![c] = [Idle EXCEPT !.pc = "read", !.attempt = 1]]
  /\ UNCHANGED <<actual, trusted, genuine, corrupted, changes, failures>>

\* The call after an attempt that settled nothing: again, or ErrUnconfirmed.
Spent(this) ==
  IF this.attempt < Attempts
  THEN [this EXCEPT !.pc = "read", !.attempt = @ + 1, !.value = Nothing]
  ELSE Idle

\* toSample: what is out of range counts as a failed attempt.
Takes(c, raw, hit) ==
  LET this == [call[c] EXCEPT !.hit = @ \/ hit]
      value == Processed(raw)
  IN call' = [call EXCEPT ![c] =
       IF InRange(value) THEN [this EXCEPT !.pc = "judge", !.value = value]
                         ELSE Spent(this)]

Reads(c) ==
  /\ At(c, "read")
  /\ Takes(c, actual, FALSE)
  /\ genuine' = genuine \cup {Processed(actual)}
  /\ UNCHANGED <<actual, trusted, corrupted, changes, failures>>

\* A collision, one to a call.
ReadsCorrupted(c, raw) ==
  /\ At(c, "read")
  /\ raw # actual
  /\ corrupted < MaxCorrupted /\ ~call[c].hit
  /\ Takes(c, raw, TRUE)
  /\ corrupted' = corrupted + 1
  /\ UNCHANGED <<actual, trusted, genuine, changes, failures>>

\* No reply, which is tried again; or a port error or the end of the
\* context, which is not.
Fails(c, final) ==
  /\ At(c, "read")
  /\ failures < MaxFailures
  /\ failures' = failures + 1
  /\ call' = [call EXCEPT ![c] = IF final THEN Idle ELSE Spent(@)]
  /\ UNCHANGED <<actual, trusted, genuine, corrupted, changes>>

\* What becomes of a reading: it is trusted, or kept as a sample.
Judged(this, believed) ==
  IF believed \/ Agrees(this.value, this.samples)
  THEN [this EXCEPT !.pc = "trust"]
  ELSE Spent([this EXCEPT !.samples = @ \cup {this.value}])

\* Bug: the first reading ever needs no confirmation.
JudgeFirstTrusted(c) ==
  /\ At(c, "judge")
  /\ call' = [call EXCEPT ![c] =
       Judged(@, trusted = Nothing \/ IsTrusted(@.value))]
  /\ UNCHANGED <<actual, trusted, genuine, corrupted, changes, failures>>

Judge(c) ==
  /\ At(c, "judge")
  /\ call' = [call EXCEPT ![c] = Judged(@, IsTrusted(@.value))]
  /\ UNCHANGED <<actual, trusted, genuine, corrupted, changes, failures>>

\* trust, under a lock of its own; the value is returned.
Trust(c) ==
  /\ At(c, "trust")
  /\ trusted' = call[c].value
  /\ call' = [call EXCEPT ![c] = Idle]
  /\ UNCHANGED <<actual, genuine, corrupted, changes, failures>>

Proceeds(c) == Begin(c) \/ Reads(c) \/ Judge(c) \/ Trust(c)

Next ==
  \/ \E raw \in Raw : Changes(raw)
  \/ \E c \in Callers :
       \/ Proceeds(c)
       \/ \E raw \in Raw : ReadsCorrupted(c, raw)
       \/ \E final \in BOOLEAN : Fails(c, final)

Spec == Init /\ [][Next]_vars

\* Registers are read again and again; failures cease by their bounds.
FairSpec == Spec /\ \A c \in Callers : WF_vars(Proceeds(c))
-----------------------------------------------------------------------------
Values == {Processed(raw) : raw \in Raw}

TypeOK ==
  /\ actual \in Raw
  /\ trusted \in Values \cup {Nothing}
  /\ call \in [Callers ->
       [pc : {"idle", "read", "judge", "trust"}, attempt : 0..Attempts,
        samples : SUBSET Values, value : Values \cup {Nothing},
        hit : BOOLEAN]]
  /\ genuine \subseteq Values
  /\ corrupted \in 0..MaxCorrupted
  /\ changes \in 0..MaxChanges /\ failures \in 0..MaxFailures

(***************************************************************************)
(* As long as no call meets two collisions, the trusted value, which is    *)
(* what callers publish, is at most one confirm_step per collision away    *)
(* from something the device really reported, whichever calls overlap:     *)
(* a lone corrupted reading far off is never let through (readSingleRaw).  *)
(***************************************************************************)
DriftBounded ==
  trusted # Nothing =>
    \E g \in genuine : /\ trusted - g <= ConfirmStep * corrupted
                       /\ g - trusted <= ConfirmStep * corrupted

UpToDate ==
  LET value == Processed(actual) IN InRange(value) => trusted = value

(***************************************************************************)
(* Once the unit's value stays and the line is good, the trusted value     *)
(* becomes that value and remains it, however far it had moved and even if *)
(* a single attempt is configured ("with one, no value could ever change", *)
(* NewReader).                                                             *)
(***************************************************************************)
TrustCatchesUp == <>[]UpToDate
=============================================================================
