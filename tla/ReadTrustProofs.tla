--------------------------- MODULE ReadTrustProofs ---------------------------
(***************************************************************************)
(* How far collisions can move the trusted value, for any number of        *)
(* callers, any values, divisor and confirm_step.                          *)
(***************************************************************************)
EXTENDS ReadTrust, FiniteSetTheorems, TLAPS

Types ==
  /\ actual \in Raw
  /\ trusted \in Int
  /\ call \in [Callers ->
       [pc : {"idle", "read", "judge", "trust"}, attempt : Int,
        samples : SUBSET Int, value : Int, hit : BOOLEAN]]
  /\ genuine \subseteq Int
  /\ corrupted \in Nat

\* Calls that met a collision and have not come to their end.
Hits == {c \in Callers : call[c].hit}

Pending == Cardinality(Hits)
PendingOthers(c) == Cardinality(Hits \ {c})

Within(v, n) ==
  \E g \in genuine : v - g <= ConfirmStep * n /\ g - v <= ConfirmStep * n

\* A collision of a call still under way has not moved the trusted value.
TrustedWithin ==
  trusted # Nothing => Within(trusted, corrupted - Pending)

\* Without a collision every sample is genuine; with one either the last
\* reading is, or all that came before it are.
SamplesGenuine(c) ==
  /\ call[c].pc \in {"read", "judge"} /\ ~call[c].hit =>
       call[c].samples \subseteq genuine
  /\ call[c].pc = "judge" =>
       \/ call[c].value \in genuine
       \/ call[c].hit /\ call[c].samples \subseteq genuine

\* What a call is about to trust counts its own collision and no other's.
ChosenWithin(c) ==
  call[c].pc = "trust" => Within(call[c].value, corrupted - PendingOthers(c))

IInv ==
  /\ Types
  /\ Pending <= corrupted
  /\ TrustedWithin
  /\ \A c \in Callers : SamplesGenuine(c) /\ ChosenWithin(c)
-----------------------------------------------------------------------------
LEMMA Limits ==
  /\ IsFiniteSet(Callers) /\ ConfirmStep \in Nat
  /\ Raw \subseteq Nat /\ Divisor \in Nat \ {0} /\ Scale \in Nat
BY ReadLimits

LEMMA ProcessedType == \A raw \in Raw : Processed(raw) \in Int
BY Limits DEF Processed

\* More collisions allow no less.
LEMMA StepsMonotone ==
  ASSUME NEW m \in Nat, NEW n \in Nat, m <= n
  PROVE  ConfirmStep * m <= ConfirmStep * n
BY Limits, SMT

LEMMA OneStepMore ==
  ASSUME NEW n \in Nat
  PROVE  ConfirmStep * (n + 1) = ConfirmStep * n + ConfirmStep
BY Limits, SMT

LEMMA StepsNatural ==
  ASSUME NEW n \in Nat
  PROVE  ConfirmStep * n \in Nat
BY Limits, SMT

LEMMA GenuineWithin ==
  ASSUME NEW v \in genuine, v \in Int, NEW n \in Nat
  PROVE  Within(v, n)
<1>1. ConfirmStep * n \in Nat
  BY StepsNatural
<1> QED
  BY <1>1 DEF Within

LEMMA NearWithin ==
  ASSUME genuine \subseteq Int, NEW v \in Int, NEW w \in Int, NEW n \in Nat,
         Near(v, w), Within(w, n)
  PROVE  Within(v, n + 1)
<1>1. PICK g \in genuine : w - g <= ConfirmStep * n /\ g - w <= ConfirmStep * n
  BY DEF Within
<1>2. v - w <= ConfirmStep /\ w - v <= ConfirmStep
  BY DEF Near
<1>3. ConfirmStep * (n + 1) = ConfirmStep * n + ConfirmStep
  BY OneStepMore
<1>4. ConfirmStep * n \in Nat /\ ConfirmStep \in Nat /\ g \in Int
  BY StepsNatural, Limits
<1>5. v - g <= ConfirmStep * n + ConfirmStep /\ g - v <= ConfirmStep * n + ConfirmStep
  BY <1>1, <1>2, <1>4
<1> QED
  BY <1>3, <1>5 DEF Within

\* What was within stays within, as collisions and readings are added.
LEMMA WithinGrows ==
  ASSUME genuine \subseteq Int, genuine \subseteq genuine', NEW v \in Int,
         NEW m \in Nat, NEW n \in Nat, m <= n, Within(v, m)
  PROVE  Within(v, n)'
<1>1. PICK g \in genuine : v - g <= ConfirmStep * m /\ g - v <= ConfirmStep * m
  BY DEF Within
<1>2. ConfirmStep * m \in Nat /\ ConfirmStep * n \in Nat
      /\ ConfirmStep * m <= ConfirmStep * n
  BY StepsMonotone, StepsNatural
<1>3. v - g <= ConfirmStep * n /\ g - v <= ConfirmStep * n
  BY <1>1, <1>2
<1> QED
  BY <1>1, <1>3 DEF Within
-----------------------------------------------------------------------------
(***************************************************************************)
(* Counting the calls that met a collision.                                *)
(***************************************************************************)
LEMMA HitsFinite ==
  /\ IsFiniteSet(Hits) /\ Pending \in Nat
  /\ \A c \in Callers :
       /\ IsFiniteSet(Hits \ {c}) /\ PendingOthers(c) \in Nat
       /\ PendingOthers(c) <= Pending
       /\ c \in Hits => Pending = PendingOthers(c) + 1
<1>1. Hits \subseteq Callers
  BY DEF Hits
<1>2. IsFiniteSet(Hits) /\ Cardinality(Hits) \in Nat
  BY <1>1, Limits, FS_Subset, FS_CardinalityType
<1>3. ASSUME NEW c \in Callers
      PROVE  /\ IsFiniteSet(Hits \ {c}) /\ PendingOthers(c) \in Nat
             /\ PendingOthers(c) = (IF c \in Hits THEN Pending - 1 ELSE Pending)
  BY <1>2, FS_RemoveElement, FS_CardinalityType DEF Pending, PendingOthers
<1> QED
  BY <1>2, <1>3 DEF Pending

LEMMA HitsFiniteAfter ==
  /\ IsFiniteSet(Hits') /\ Pending' \in Nat
  /\ \A c \in Callers :
       /\ IsFiniteSet(Hits' \ {c}) /\ PendingOthers(c)' \in Nat
       /\ PendingOthers(c)' <= Pending'
       /\ c \in Hits' => Pending' = PendingOthers(c)' + 1
<1>1. Hits' \subseteq Callers
  BY DEF Hits
<1>2. IsFiniteSet(Hits') /\ Cardinality(Hits') \in Nat
  BY <1>1, Limits, FS_Subset, FS_CardinalityType
<1>3. ASSUME NEW c \in Callers
      PROVE  /\ IsFiniteSet(Hits' \ {c}) /\ PendingOthers(c)' \in Nat
             /\ PendingOthers(c)' = (IF c \in Hits' THEN Pending' - 1 ELSE Pending')
  BY <1>2, FS_RemoveElement, FS_CardinalityType DEF Pending, PendingOthers
<1> QED
  BY <1>2, <1>3 DEF Pending

\* The collisions that are no call's own never become fewer.
Settles ==
  /\ Pending' <= corrupted'
  /\ corrupted - Pending <= corrupted' - Pending'
  /\ \A c \in Callers :
       corrupted - PendingOthers(c) <= corrupted' - PendingOthers(c)'

LEMMA SettlesFor ==
  ASSUME IInv, Types', Settles, NEW c \in Callers
  PROVE  /\ corrupted - PendingOthers(c) \in Nat
         /\ corrupted' - PendingOthers(c)' \in Nat
         /\ corrupted - PendingOthers(c) <= corrupted' - PendingOthers(c)'
BY HitsFinite, HitsFiniteAfter DEF IInv, Types, Settles, Pending, PendingOthers

LEMMA FewerHits ==
  ASSUME IInv, Hits' \subseteq Hits, corrupted' = corrupted
  PROVE  Settles
<1>1. Pending' <= Pending
  BY HitsFinite, FS_Subset DEF Pending
<1>2. ASSUME NEW c \in Callers PROVE PendingOthers(c)' <= PendingOthers(c)
  <2>1. Hits' \ {c} \subseteq Hits \ {c}
    OBVIOUS
  <2> QED
    BY <2>1, HitsFinite, FS_Subset DEF PendingOthers
<1>3. Pending \in Nat /\ Pending' \in Nat /\ corrupted \in Nat /\ Pending <= corrupted
  BY HitsFinite, HitsFiniteAfter DEF IInv, Types
<1>4. ASSUME NEW c \in Callers
      PROVE  corrupted - PendingOthers(c) <= corrupted' - PendingOthers(c)'
  <2>1. PendingOthers(c) \in Nat /\ PendingOthers(c)' \in Nat
    BY HitsFinite, HitsFiniteAfter DEF PendingOthers
  <2>2. PendingOthers(c)' <= PendingOthers(c)
    BY <1>2
  <2>3. corrupted \in Nat /\ corrupted' = corrupted
    BY DEF IInv, Types
  <2> QED
    BY <2>1, <2>2, <2>3 DEF PendingOthers
<1> QED
  BY <1>1, <1>3, <1>4 DEF Settles, Pending, PendingOthers

LEMMA OneHitMore ==
  ASSUME IInv, NEW d \in Callers, d \notin Hits, Hits' \subseteq Hits \cup {d},
         corrupted' = corrupted + 1
  PROVE  Settles
<1>1. Cardinality(Hits \cup {d}) = Pending + 1 /\ IsFiniteSet(Hits \cup {d})
  BY HitsFinite, FS_AddElement DEF Pending
<1>2. Pending' <= Pending + 1
  BY <1>1, FS_Subset DEF Pending
<1>3. ASSUME NEW c \in Callers PROVE PendingOthers(c)' <= PendingOthers(c) + 1
  <2>1. Hits' \ {c} \subseteq (Hits \ {c}) \cup {d}
    OBVIOUS
  <2>2. /\ IsFiniteSet((Hits \ {c}) \cup {d})
        /\ Cardinality((Hits \ {c}) \cup {d}) <= PendingOthers(c) + 1
    <3>1. IsFiniteSet(Hits \ {c}) /\ d \notin Hits \ {c}
      BY HitsFinite
    <3>2. Cardinality((Hits \ {c}) \cup {d}) = Cardinality(Hits \ {c}) + 1
      BY <3>1, FS_AddElement
    <3> QED
      BY <3>1, <3>2, FS_AddElement, HitsFinite DEF PendingOthers
  <2>3. PendingOthers(c)' <= Cardinality((Hits \ {c}) \cup {d})
    BY <2>1, <2>2, FS_Subset DEF PendingOthers
  <2>4. Cardinality((Hits \ {c}) \cup {d}) \in Nat
    BY <2>2, FS_CardinalityType
  <2> QED
    BY <2>2, <2>3, <2>4, HitsFinite, HitsFiniteAfter DEF Pending, PendingOthers
<1>4. Pending \in Nat /\ Pending' \in Nat /\ corrupted \in Nat /\ Pending <= corrupted
  BY HitsFinite, HitsFiniteAfter DEF IInv, Types
<1>5. ASSUME NEW c \in Callers
      PROVE  corrupted - PendingOthers(c) <= corrupted' - PendingOthers(c)'
  <2>1. PendingOthers(c) \in Nat /\ PendingOthers(c)' \in Nat
    BY HitsFinite, HitsFiniteAfter DEF PendingOthers
  <2>2. PendingOthers(c)' <= PendingOthers(c) + 1
    BY <1>3
  <2>3. corrupted \in Nat /\ corrupted' = corrupted + 1
    BY DEF IInv, Types
  <2> QED
    BY <2>1, <2>2, <2>3 DEF PendingOthers
<1> QED
  BY <1>2, <1>4, <1>5 DEF Settles, Pending, PendingOthers

\* What a step leaves of the others.
LEMMA OthersKeep ==
  ASSUME IInv, Types', Settles, genuine \subseteq genuine',
         NEW c \in Callers, call'[c] = call[c]
  PROVE  SamplesGenuine(c)' /\ ChosenWithin(c)'
<1>1. SamplesGenuine(c)'
  BY DEF IInv, SamplesGenuine
<1>2. ChosenWithin(c)'
  <2> SUFFICES ASSUME call[c].pc = "trust"
               PROVE  Within(call[c].value, corrupted - PendingOthers(c))'
    BY DEF ChosenWithin
  <2>1. Within(call[c].value, corrupted - PendingOthers(c))
    BY DEF IInv, ChosenWithin
  <2>2. /\ corrupted - PendingOthers(c) \in Nat
        /\ corrupted' - PendingOthers(c)' \in Nat
        /\ corrupted - PendingOthers(c) <= corrupted' - PendingOthers(c)'
    BY SettlesFor
  <2>3. call[c].value \in Int /\ genuine \subseteq Int
    BY DEF IInv, Types
  <2> QED
    BY <2>1, <2>2, <2>3, WithinGrows DEF Within
<1> QED
  BY <1>1, <1>2

LEMMA TrustedKeeps ==
  ASSUME IInv, Types', Settles, genuine \subseteq genuine', trusted' = trusted
  PROVE  TrustedWithin'
<1> SUFFICES ASSUME trusted # Nothing
             PROVE  Within(trusted, corrupted - Pending)'
  BY DEF TrustedWithin, Nothing
<1>1. Within(trusted, corrupted - Pending)
  BY DEF IInv, TrustedWithin
<1>2. /\ corrupted - Pending \in Nat /\ corrupted' - Pending' \in Nat
      /\ corrupted - Pending <= corrupted' - Pending'
  BY HitsFinite, HitsFiniteAfter DEF IInv, Types, Settles, Pending, PendingOthers
<1>3. trusted \in Int /\ genuine \subseteq Int
  BY DEF IInv, Types
<1> QED
  BY <1>1, <1>2, <1>3, WithinGrows DEF Within

\* A step of one call that does not touch the trusted value.
LEMMA CallStep ==
  ASSUME IInv, Types', Settles, genuine \subseteq genuine', trusted' = trusted,
         NEW c \in Callers, \A d \in Callers \ {c} : call'[d] = call[d],
         SamplesGenuine(c)', ChosenWithin(c)'
  PROVE  IInv'
BY OthersKeep, TrustedKeeps DEF IInv, Settles
-----------------------------------------------------------------------------
(***************************************************************************)
(* The actions.                                                            *)
(***************************************************************************)
Calls == [pc : {"idle", "read", "judge", "trust"}, attempt : Int,
          samples : SUBSET Int, value : Int, hit : BOOLEAN]

LEMMA Update ==
  ASSUME Types, NEW c \in Callers, NEW r \in Calls,
         call' = [call EXCEPT ![c] = r]
  PROVE  /\ call' \in [Callers -> Calls]
         /\ call'[c] = r
         /\ \A d \in Callers \ {c} : call'[d] = call[d]
         /\ (r.hit => call[c].hit) => Hits' \subseteq Hits
         /\ Hits' \subseteq Hits \cup {c}
<1>1. call \in [Callers -> Calls]
  BY DEF Types, Calls
<1>2. call' \in [Callers -> Calls] /\ call'[c] = r
      /\ \A d \in Callers \ {c} : call'[d] = call[d]
  BY <1>1
<1> QED
  BY <1>2 DEF Hits

LEMMA IdleType ==
  /\ Idle \in Calls /\ ~Idle.hit /\ Idle.pc = "idle"
  /\ [Idle EXCEPT !.pc = "read", !.attempt = 1] \in Calls
  /\ [Idle EXCEPT !.pc = "read", !.attempt = 1].hit = FALSE
  /\ [Idle EXCEPT !.pc = "read", !.attempt = 1].pc = "read"
  /\ [Idle EXCEPT !.pc = "read", !.attempt = 1].samples = {}
<1>1. Idle.pc = "idle" /\ Idle.samples = {} /\ Idle.hit = FALSE
  BY DEF Idle
<1>2. Idle \in Calls
  <2>1. -1 \in Int /\ 0 \in Int /\ {} \in SUBSET Int
    OBVIOUS
  <2> QED
    BY <2>1 DEF Idle, Calls, Nothing
<1>3. [Idle EXCEPT !.pc = "read", !.attempt = 1] \in Calls
  <2>1. ASSUME NEW r \in Calls
        PROVE  [r EXCEPT !.pc = "read", !.attempt = 1] \in Calls
    <3>1. 1 \in Int
      OBVIOUS
    <3>2. PICK q : q = [r EXCEPT !.pc = "read", !.attempt = 1]
      OBVIOUS
    <3>3. q \in Calls
      BY <3>1, <3>2 DEF Calls
    <3> QED
      BY <3>2, <3>3
  <2> QED
    BY <1>2, <2>1
<1> QED
  BY <1>1, <1>2, <1>3 DEF Idle

LEMMA SpentType ==
  ASSUME NEW this \in Calls
  PROVE  /\ Spent(this) \in Calls
         /\ Spent(this).hit => this.hit
         /\ Spent(this).pc \in {"idle", "read"}
         /\ Spent(this).pc = "read" =>
              Spent(this).samples = this.samples /\ Spent(this).hit = this.hit
<1>1. CASE this.attempt < Attempts
  <2>1. Spent(this) = [this EXCEPT !.pc = "read", !.attempt = @ + 1, !.value = Nothing]
    BY <1>1 DEF Spent
  <2>2. -1 \in Int /\ this.attempt + 1 \in Int
    BY DEF Calls
  <2>3. Spent(this) \in Calls
    BY <2>1, <2>2 DEF Calls, Nothing
  <2>4. Spent(this).pc = "read" /\ Spent(this).samples = this.samples
        /\ Spent(this).hit = this.hit
    BY <2>1 DEF Calls
  <2> QED
    BY <2>3, <2>4
<1>2. CASE ~(this.attempt < Attempts)
  BY <1>2, IdleType DEF Spent
<1> QED
  BY <1>1, <1>2

\* A call that starts, is about to read again, or is over.
LEMMA ReadOrIdle ==
  ASSUME IInv, NEW c \in Callers, NEW r \in Calls,
         call' = [call EXCEPT ![c] = r],
         r.pc \in {"idle", "read"}, r.hit => call[c].hit,
         r.pc = "read" /\ ~r.hit => r.samples \subseteq genuine,
         UNCHANGED <<actual, trusted, genuine, corrupted>>
  PROVE  IInv'
<1>1. Types /\ Types'
  BY Update DEF IInv, Types, Calls
<1>2. Hits' \subseteq Hits /\ call'[c] = r
      /\ \A d \in Callers \ {c} : call'[d] = call[d]
  BY <1>1, Update
<1>3. Settles
  BY <1>2, FewerHits
<1>4. SamplesGenuine(c)' /\ ChosenWithin(c)'
  BY <1>2 DEF SamplesGenuine, ChosenWithin
<1> QED
  BY <1>1, <1>2, <1>3, <1>4, CallStep

LEMMA BeginStep ==
  ASSUME IInv, NEW c \in Callers, Begin(c)
  PROVE  IInv'
BY IdleType, ReadOrIdle DEF Begin

LEMMA FailsStep ==
  ASSUME IInv, NEW c \in Callers, NEW final \in BOOLEAN, Fails(c, final)
  PROVE  IInv'
<1>1. call[c] \in Calls /\ call[c].pc = "read" /\ SamplesGenuine(c)
  BY DEF IInv, Types, Calls, Fails, At
<1>2. CASE final
  <2>1. call' = [call EXCEPT ![c] = Idle]
    BY <1>2 DEF Fails
  <2> QED
    BY <2>1, IdleType, ReadOrIdle DEF Fails
<1>3. CASE ~final
  <2>1. call' = [call EXCEPT ![c] = Spent(call[c])]
    BY <1>3 DEF Fails
  <2> QED
    BY <1>1, <2>1, SpentType, ReadOrIdle DEF Fails, SamplesGenuine
<1> QED
  BY <1>2, <1>3

LEMMA TakesCall ==
  ASSUME Types, NEW c \in Callers, NEW raw \in Raw, NEW hit \in BOOLEAN,
         Takes(c, raw, hit), call[c].pc = "read"
  PROVE  \E r \in Calls :
           /\ call' = [call EXCEPT ![c] = r]
           /\ r.hit => call[c].hit \/ hit
           /\ r.pc \in {"idle", "read", "judge"}
           /\ r.pc # "idle" =>
                r.samples = call[c].samples /\ (r.hit <=> call[c].hit \/ hit)
           /\ r.pc = "judge" => r.value = Processed(raw)
<1> DEFINE this == [call[c] EXCEPT !.hit = @ \/ hit]
           judged == [this EXCEPT !.pc = "judge", !.value = Processed(raw)]
<1>1. call[c] \in Calls
  BY DEF Types, Calls
<1>2. this \in Calls /\ this.samples = call[c].samples /\ this.hit = (call[c].hit \/ hit)
  BY <1>1 DEF Calls
<1>3. CASE InRange(Processed(raw))
  <2>1. call' = [call EXCEPT ![c] = judged]
    BY <1>3 DEF Takes
  <2>2. judged \in Calls /\ judged.pc = "judge" /\ judged.value = Processed(raw)
        /\ judged.samples = this.samples /\ judged.hit = this.hit
    <3>1. Processed(raw) \in Int
      BY ProcessedType
    <3> HIDE DEF this
    <3> QED
      BY <1>2, <3>1 DEF Calls
  <2> HIDE DEF judged, this
  <2> QED
    BY <1>2, <2>1, <2>2
<1>4. CASE ~InRange(Processed(raw))
  <2>1. call' = [call EXCEPT ![c] = Spent(this)]
    BY <1>4 DEF Takes
  <2> HIDE DEF this
  <2>2. /\ Spent(this) \in Calls
        /\ Spent(this).hit => this.hit
        /\ Spent(this).pc \in {"idle", "read"}
        /\ Spent(this).pc = "read" =>
             Spent(this).samples = this.samples /\ Spent(this).hit = this.hit
    BY <1>2, SpentType
  <2> QED
    BY <1>2, <2>1, <2>2
<1> QED
  BY <1>3, <1>4

LEMMA ReadsStep ==
  ASSUME IInv, NEW c \in Callers, Reads(c)
  PROVE  IInv'
<1>1. Types /\ actual \in Raw /\ call[c].pc = "read" /\ SamplesGenuine(c)
      /\ genuine' = genuine \cup {Processed(actual)}
      /\ UNCHANGED <<actual, trusted, corrupted>>
  BY DEF IInv, Types, Reads, At
<1>2. PICK r \in Calls :
        /\ call' = [call EXCEPT ![c] = r]
        /\ r.hit => call[c].hit
        /\ r.pc \in {"idle", "read", "judge"}
        /\ r.pc # "idle" => r.samples = call[c].samples /\ (r.hit <=> call[c].hit)
        /\ r.pc = "judge" => r.value = Processed(actual)
  <2>1. Takes(c, actual, FALSE)
    BY DEF Reads
  <2> QED
    BY ZenonT(60), <1>1, <2>1, TakesCall
<1>3. Types'
  <2>1. genuine' \subseteq Int
    BY <1>1, ProcessedType DEF Types
  <2> QED
    BY <1>1, <1>2, <2>1, Update DEF Types, Calls
<1>4. Hits' \subseteq Hits /\ call'[c] = r
      /\ \A d \in Callers \ {c} : call'[d] = call[d]
  BY <1>1, <1>2, Update
<1>5. Settles
  BY <1>1, <1>4, FewerHits
<1>6. SamplesGenuine(c)' /\ ChosenWithin(c)'
  BY <1>1, <1>2, <1>4 DEF SamplesGenuine, ChosenWithin
<1> QED
  BY <1>1, <1>3, <1>4, <1>5, <1>6, CallStep

LEMMA CollisionStep ==
  ASSUME IInv, NEW c \in Callers, NEW raw \in Raw, ReadsCorrupted(c, raw)
  PROVE  IInv'
<1>1. Types /\ call[c].pc = "read" /\ ~call[c].hit /\ SamplesGenuine(c)
      /\ corrupted' = corrupted + 1
      /\ UNCHANGED <<actual, trusted, genuine>>
  BY DEF IInv, ReadsCorrupted, At
<1>2. PICK r \in Calls :
        /\ call' = [call EXCEPT ![c] = r]
        /\ r.pc \in {"idle", "read", "judge"}
        /\ r.pc # "idle" => r.samples = call[c].samples /\ r.hit
  <2>1. Takes(c, raw, TRUE)
    BY DEF ReadsCorrupted
  <2> QED
    BY <1>1, <2>1, TakesCall
<1>3. Types'
  BY <1>1, <1>2, Update DEF Types, Calls
<1>4. Hits' \subseteq Hits \cup {c} /\ c \notin Hits /\ call'[c] = r
      /\ \A d \in Callers \ {c} : call'[d] = call[d]
  BY <1>1, <1>2, Update DEF Hits
<1>5. Settles
  BY <1>1, <1>4, OneHitMore
<1>6. SamplesGenuine(c)' /\ ChosenWithin(c)'
  BY <1>1, <1>2, <1>4 DEF SamplesGenuine, ChosenWithin
<1> QED
  BY <1>1, <1>3, <1>4, <1>5, <1>6, CallStep

\* The heart: what Judge lets through.
LEMMA Chosen ==
  ASSUME IInv, NEW c \in Callers, call[c].pc = "judge",
         IsTrusted(call[c].value) \/ Agrees(call[c].value, call[c].samples)
  PROVE  Within(call[c].value, corrupted - PendingOthers(c))
<1> DEFINE value == call[c].value
           samples == call[c].samples
           n == corrupted - PendingOthers(c)
<1>1. value \in Int /\ samples \subseteq Int /\ genuine \subseteq Int /\ trusted \in Int
  BY DEF IInv, Types
<1>2. n \in Nat
  <2>1. corrupted \in Nat /\ Pending <= corrupted /\ Pending \in Nat
        /\ PendingOthers(c) \in Nat /\ PendingOthers(c) <= Pending
    BY HitsFinite DEF IInv, Types
  <2> QED
    BY <2>1
<1>3. CASE value \in genuine
  BY <1>1, <1>2, <1>3, GenuineWithin
<1>4. CASE value \notin genuine
  <2>1. c \in Hits /\ samples \subseteq genuine
    BY <1>4 DEF IInv, SamplesGenuine, Hits
  <2>2. n = (corrupted - Pending) + 1 /\ corrupted - Pending \in Nat
    <3>1. corrupted \in Nat /\ Pending <= corrupted /\ Pending \in Nat
          /\ PendingOthers(c) \in Nat /\ Pending = PendingOthers(c) + 1
      BY <2>1, HitsFinite DEF IInv, Types
    <3> QED
      BY <3>1
  <2>3. CASE IsTrusted(value)
    <3>1. Within(trusted, corrupted - Pending) /\ Near(value, trusted)
      BY <2>3 DEF IsTrusted, IInv, TrustedWithin
    <3> QED
      BY <1>1, <2>2, <3>1, NearWithin
  <2>4. CASE Agrees(value, samples)
    <3>1. PICK earlier \in samples : Near(value, earlier)
      BY <2>4 DEF Agrees
    <3>2. Within(earlier, corrupted - Pending)
      BY <1>1, <2>1, <2>2, GenuineWithin
    <3> QED
      BY <1>1, <2>2, <3>1, <3>2, NearWithin
  <2> QED
    BY <2>3, <2>4
<1> QED
  BY <1>3, <1>4

LEMMA JudgeStep ==
  ASSUME IInv, NEW c \in Callers, Judge(c)
  PROVE  IInv'
<1>1. Types /\ call[c] \in Calls /\ call[c].pc = "judge" /\ SamplesGenuine(c)
      /\ UNCHANGED <<actual, trusted, genuine, corrupted>>
  BY DEF IInv, Types, Calls, Judge, At
<1>2. CASE IsTrusted(call[c].value) \/ Agrees(call[c].value, call[c].samples)
  <2> DEFINE r == [call[c] EXCEPT !.pc = "trust"]
  <2>1. call' = [call EXCEPT ![c] = r]
    BY <1>2 DEF Judge, Judged
  <2>2. r \in Calls /\ r.pc = "trust" /\ r.value = call[c].value
        /\ r.hit = call[c].hit
    BY <1>1 DEF Calls
  <2> HIDE DEF r
  <2>3. Types'
    BY <1>1, <2>1, <2>2, Update DEF Types, Calls
  <2>4. Hits' \subseteq Hits /\ call'[c] = r
        /\ \A d \in Callers \ {c} : call'[d] = call[d]
    BY <1>1, <2>1, <2>2, Update
  <2>5. Settles
    BY <1>1, <2>4, FewerHits
  <2>6. SamplesGenuine(c)'
    BY <2>2, <2>4 DEF SamplesGenuine
  <2>7. ChosenWithin(c)'
    <3>1. Within(call[c].value, corrupted - PendingOthers(c))
      BY <1>1, <1>2, Chosen
    <3>2. /\ corrupted - PendingOthers(c) \in Nat
          /\ corrupted' - PendingOthers(c)' \in Nat
          /\ corrupted - PendingOthers(c) <= corrupted' - PendingOthers(c)'
      BY <2>3, <2>5, SettlesFor
    <3>3. call[c].value \in Int /\ genuine \subseteq Int
      BY DEF IInv, Types
    <3> DEFINE m == corrupted' - PendingOthers(c)'
    <3>4. \E g \in genuine : /\ r.value - g <= ConfirmStep * m
                             /\ g - r.value <= ConfirmStep * m
      BY <1>1, <2>2, <3>1, <3>2, <3>3, WithinGrows DEF Within
    <3> QED
      BY <1>1, <2>4, <3>4 DEF ChosenWithin, Within
  <2> QED
    BY <1>1, <2>3, <2>4, <2>5, <2>6, <2>7, CallStep
<1>3. CASE ~(IsTrusted(call[c].value) \/ Agrees(call[c].value, call[c].samples))
  <2> DEFINE this == [call[c] EXCEPT !.samples = @ \cup {call[c].value}]
  <2>1. call' = [call EXCEPT ![c] = Spent(this)]
    <3>1. call' = [call EXCEPT ![c] =
            IF IsTrusted(call[c].value) \/ Agrees(call[c].value, call[c].samples)
            THEN [call[c] EXCEPT !.pc = "trust"] ELSE Spent(this)]
      BY DEF Judge, Judged
    <3> QED
      BY <1>3, <3>1
  <2>2. this \in Calls /\ this.hit = call[c].hit
        /\ this.samples = call[c].samples \cup {call[c].value}
    BY <1>1 DEF Calls
  <2> HIDE DEF this
  <2>3. /\ Spent(this) \in Calls
        /\ Spent(this).hit => this.hit
        /\ Spent(this).pc \in {"idle", "read"}
        /\ Spent(this).pc = "read" =>
             Spent(this).samples = this.samples /\ Spent(this).hit = this.hit
    BY <2>2, SpentType
  <2>4. ~this.hit => this.samples \subseteq genuine
    BY <1>1, <2>2 DEF SamplesGenuine
  <2> QED
    BY <1>1, <2>1, <2>2, <2>3, <2>4, ReadOrIdle
<1> QED
  BY <1>2, <1>3

LEMMA TrustStep ==
  ASSUME IInv, NEW c \in Callers, Trust(c)
  PROVE  IInv'
<1>1. Types /\ call[c] \in Calls /\ call[c].pc = "trust"
      /\ call' = [call EXCEPT ![c] = Idle] /\ trusted' = call[c].value
      /\ UNCHANGED <<actual, genuine, corrupted>>
  BY DEF IInv, Types, Calls, Trust, At
<1>2. Types'
  BY <1>1, IdleType, Update DEF Types, Calls
<1>3. Hits' \subseteq Hits /\ call'[c] = Idle
      /\ \A d \in Callers \ {c} : call'[d] = call[d]
  BY <1>1, IdleType, Update
<1>4. Settles
  BY <1>1, <1>3, FewerHits
<1>5. SamplesGenuine(c)' /\ ChosenWithin(c)'
  BY <1>3, IdleType DEF SamplesGenuine, ChosenWithin
<1>6. \A d \in Callers : SamplesGenuine(d)' /\ ChosenWithin(d)'
  BY <1>1, <1>2, <1>3, <1>4, <1>5, OthersKeep
<1>7. TrustedWithin'
  <2>1. Within(call[c].value, corrupted - PendingOthers(c))
    BY <1>1 DEF IInv, ChosenWithin
  <2>2. Hits' = Hits \ {c}
    BY <1>3, IdleType DEF Hits
  <2>3. PendingOthers(c) = Pending'
    BY <2>2 DEF Pending, PendingOthers
  <2>4. Within(call[c].value, corrupted - Pending)'
        <=> \E g \in genuine :
              /\ call'[c].value - g <= ConfirmStep * (corrupted - PendingOthers(c))
              /\ g - call'[c].value <= ConfirmStep * (corrupted - PendingOthers(c))
    BY <1>1, <2>3 DEF Within
  <2>5. Within(trusted, corrupted - Pending)'
    BY <1>1, <2>1, <2>3 DEF Within
  <2> QED
    BY <2>5 DEF TrustedWithin
<1> QED
  BY <1>2, <1>4, <1>6, <1>7 DEF IInv, Settles
-----------------------------------------------------------------------------
LEMMA InitHolds == Init => IInv
<1> SUFFICES ASSUME Init PROVE IInv
  OBVIOUS
<1>1. \A c \in Callers : call[c] = Idle
  BY DEF Init
<1>2. Types
  <2>1. call \in [Callers -> Calls]
    BY IdleType DEF Init
  <2> QED
    BY <2>1 DEF Init, Types, Calls, Nothing
<1>3. Hits = {}
  BY <1>1, IdleType DEF Hits
<1>4. Pending = 0 /\ corrupted = 0
  BY <1>3, FS_EmptySet DEF Init, Pending
<1>5. TrustedWithin
  BY DEF Init, TrustedWithin
<1>6. \A c \in Callers : SamplesGenuine(c) /\ ChosenWithin(c)
  BY <1>1, IdleType DEF SamplesGenuine, ChosenWithin
<1> QED
  BY <1>2, <1>4, <1>5, <1>6 DEF IInv

LEMMA StepKeeps == IInv /\ [Next]_vars => IInv'
<1> SUFFICES ASSUME IInv, [Next]_vars PROVE IInv'
  OBVIOUS
<1>1. ASSUME NEW raw \in Raw, Changes(raw) PROVE IInv'
  <2>1. UNCHANGED <<trusted, call, genuine, corrupted>> /\ actual' \in Raw
    BY <1>1 DEF Changes
  <2> QED
    BY <2>1 DEF IInv, Types, Pending, PendingOthers, Hits, TrustedWithin,
       SamplesGenuine, ChosenWithin, Within
<1>2. ASSUME NEW c \in Callers,
             \/ Proceeds(c)
             \/ \E raw \in Raw : ReadsCorrupted(c, raw)
             \/ \E final \in BOOLEAN : Fails(c, final)
      PROVE  IInv'
  BY <1>2, BeginStep, ReadsStep, JudgeStep, TrustStep, CollisionStep, FailsStep
     DEF Proceeds
<1>3. CASE UNCHANGED vars
  BY <1>3 DEF vars, IInv, Types, Pending, PendingOthers, Hits, TrustedWithin,
     SamplesGenuine, ChosenWithin, Within
<1> QED
  BY <1>1, <1>2, <1>3 DEF Next

THEOREM Invariance == Spec => []IInv
BY InitHolds, StepKeeps, PTL DEF Spec

(***************************************************************************)
(* One step per collision is as far as the trusted value, and with it what *)
(* is published, ever gets from what the device reported, as long as no    *)
(* call meets two.                                                         *)
(***************************************************************************)
THEOREM DriftIsBounded == Spec => []DriftBounded
<1>1. IInv => DriftBounded
  <2> SUFFICES ASSUME IInv, trusted # Nothing
               PROVE  Within(trusted, corrupted)
    BY DEF DriftBounded, Within
  <2>1. Within(trusted, corrupted - Pending)
    BY DEF IInv, TrustedWithin
  <2>2. corrupted - Pending \in Nat /\ corrupted \in Nat
        /\ corrupted - Pending <= corrupted
    BY HitsFinite DEF IInv, Types
  <2>3. ConfirmStep * (corrupted - Pending) <= ConfirmStep * corrupted
        /\ ConfirmStep * (corrupted - Pending) \in Nat
        /\ ConfirmStep * corrupted \in Nat
    BY <2>2, StepsMonotone, StepsNatural
  <2>4. trusted \in Int /\ genuine \subseteq Int
    BY DEF IInv, Types
  <2>5. PICK g \in genuine : /\ trusted - g <= ConfirmStep * (corrupted - Pending)
                             /\ g - trusted <= ConfirmStep * (corrupted - Pending)
    BY <2>1 DEF Within
  <2>6. trusted - g <= ConfirmStep * corrupted /\ g - trusted <= ConfirmStep * corrupted
    BY <2>3, <2>4, <2>5
  <2> QED
    BY <2>6 DEF Within
<1> QED
  BY <1>1, Invariance, PTL
=============================================================================
