--------------------------- MODULE OperatorProofs ---------------------------
(***************************************************************************)
(* Theorems about Operator for every rate table, register set and sequence *)
(* of writes, keys and samples.                                            *)
(***************************************************************************)
EXTENDS Operator, TLAPS

\* The look-up index of a register rate never leaves the tables.
LEMMA RateOfType ==
  ASSUME NEW table, NEW Add, table \in [RateIndex -> Add], 0 \in Add,
         NEW rate \in 0..15, NEW ksr \in 0..15
  PROVE  RateOf(table, rate, ksr) \in Add
  BY DEF RateOf, RateIndex

\* A scaled key code is a key code.
LEMMA KsrType ==
  ASSUME NEW r20 \in Reg20Type, NEW data \in ChanDataType
  PROVE  KsrOf(r20, data) \in 0..15
  BY DEF KsrOf, Reg20Type, ChanDataType

LEMMA UpdateAttackType ==
  ASSUME NEW r \in RatesType, NEW r60 \in Reg60Type
  PROVE  UpdateAttack(r, r60) \in RatesType
<1> DEFINE Add == 0..(8 * RateUnit)
<1>1. 0 \in Add /\ attackRates \in [RateIndex -> Add]
  BY RateAssumption
<1>2. r60.ar \in 0..15 /\ r.ksr \in 0..15
  BY DEF RatesType, Reg60Type
<1>3. RateOf(attackRates, r60.ar, r.ksr) \in Add
  <2> HIDE DEF Add
  <2> QED BY <1>1, <1>2, RateOfType
<1>4. Flagged(r.zero, "ATTACK", r60.ar = 0) \in SUBSET State
  BY DEF Flagged, RatesType, State
<1> QED BY <1>3, <1>4 DEF UpdateAttack, RatesType

LEMMA UpdateDecayType ==
  ASSUME NEW r \in RatesType, NEW r60 \in Reg60Type
  PROVE  UpdateDecay(r, r60) \in RatesType
<1>1. RateOf(linearRates, r60.dr, r.ksr) \in Nat
  BY RateAssumption, RateOfType DEF RatesType, Reg60Type
<1>2. Flagged(r.zero, "DECAY", r60.dr = 0) \in SUBSET State
  BY DEF Flagged, RatesType, State
<1> QED BY <1>1, <1>2 DEF UpdateDecay, RatesType

LEMMA UpdateReleaseType ==
  ASSUME NEW r \in RatesType, NEW r80 \in Reg80Type, NEW r20 \in Reg20Type
  PROVE  UpdateRelease(r, r80, r20) \in RatesType
<1>1. RateOf(linearRates, r80.rr, r.ksr) \in Nat
  BY RateAssumption, RateOfType DEF RatesType, Reg80Type
<1>2. \A on \in BOOLEAN, z \in SUBSET State, s \in State :
        Flagged(z, s, on) \in SUBSET State
  BY DEF Flagged
<1>3. /\ Flagged(r.zero, "RELEASE", r80.rr = 0) \in SUBSET State
      /\ Flagged(Flagged(r.zero, "RELEASE", r80.rr = 0), "SUSTAIN", r80.rr = 0)
           \in SUBSET State
  BY <1>2 DEF RatesType, State
<1> QED BY <1>1, <1>3 DEF UpdateRelease, RatesType

LEMMA UpdateRatesType ==
  ASSUME NEW r \in RatesType, NEW r20 \in Reg20Type, NEW r60 \in Reg60Type,
         NEW r80 \in Reg80Type, NEW data \in ChanDataType
  PROVE  UpdateRates(r, r20, r60, r80, data) \in RatesType
<1> DEFINE k == KsrOf(r20, data)
           r0 == [r EXCEPT !.ksr = k]
           r1 == UpdateAttack(r0, r60)
           r2 == UpdateDecay(r1, r60)
<1>1. r0 \in RatesType
  BY KsrType DEF RatesType
<1>2. r1 \in RatesType
  BY <1>1, UpdateAttackType
<1>3. r2 \in RatesType
  BY <1>2, UpdateDecayType
<1>4. UpdateRelease(r2, r80, r20) \in RatesType
  BY <1>3, UpdateReleaseType
<1> QED BY <1>4 DEF UpdateRates

LEMMA LevelTypes ==
  ASSUME NEW r20 \in Reg20Type, NEW r40 \in Reg40Type, NEW r80 \in Reg80Type,
         NEW data \in ChanDataType
  PROVE  /\ UpdateAttenuation(r40, data) \in Nat
         /\ UpdateFrequency(r20, data) \in
              [freq : 0..8191, mul : 0..15, vib : BOOLEAN]
         /\ SustainOf(r80) \in 0..496
<1>1. UpdateAttenuation(r40, data) \in Nat
  <2>1. r40.tl \in Nat /\ data.ksl \in Nat /\ r40.ksl \in 0..3
    BY DEF Reg40Type, ChanDataType
  <2>2. \A i \in 1..3 : KslDivisor[i] \in {1, 2, 4}
    BY DEF KslDivisor
  <2>3. r40.ksl # 0 => data.ksl \div KslDivisor[r40.ksl] \in Nat
    BY <2>1, <2>2
  <2> QED BY <2>1, <2>3 DEF UpdateAttenuation
<1>2. UpdateFrequency(r20, data) \in [freq : 0..8191, mul : 0..15, vib : BOOLEAN]
  BY DEF UpdateFrequency, Reg20Type, ChanDataType
<1>3. SustainOf(r80) \in 0..496
  BY DEF SustainOf, Reg80Type
<1> QED BY <1>1, <1>2, <1>3

\* RateForward: a whole number of steps, and a fraction below one step.
LEMMA RateForwardType ==
  ASSUME rateIndex \in Nat, NEW add \in Nat
  PROVE  Steps(add) \in Nat /\ Fraction(add) \in 0..(RateUnit - 1)
<1>1. RateUnit \in Nat /\ RateUnit > 0
  BY RateAssumption
<1>2. rateIndex + add \in Nat
  OBVIOUS
<1>3. \A n \in Nat : n \div RateUnit \in Nat /\ n % RateUnit \in 0..(RateUnit - 1)
  BY <1>1
<1> QED BY <1>2, <1>3 DEF Steps, Fraction

\* An attack step never makes the voice softer.
LEMMA AttackedBelow ==
  ASSUME volume \in Nat, NEW change \in Nat
  PROVE  Attacked(change) \in Int /\ Attacked(change) <= volume
<1> DEFINE drop == -(volume + 1) * change
<1>1. drop \in Int /\ drop <= 0
  OBVIOUS
<1>2. \A d \in Int : d <= 0 => d \div 8 \in Int /\ d \div 8 <= 0
  OBVIOUS
<1>3. drop \div 8 \in Int /\ drop \div 8 <= 0
  <2> HIDE DEF drop
  <2> QED BY <1>1, <1>2
<1> QED BY <1>3 DEF Attacked

-----------------------------------------------------------------------------
(* Type correctness.                                                        *)

LEMMA TypeInit == Init => TypeOK
<1> SUFFICES ASSUME Init PROVE TypeOK
  OBVIOUS
<1>1. RateUnit \in Nat \ {0}
  BY RateAssumption
<1>2. reg20 \in Reg20Type /\ reg40 \in Reg40Type /\ reg60 \in Reg60Type
      /\ reg80 \in Reg80Type /\ chanData \in ChanDataType
  BY DEF Init, Reg20Type, Reg40Type, Reg60Type, Reg80Type, ChanDataType
<1>3. rates \in RatesType
  BY <1>1 DEF Init, RatesType
<1>4. wave \in [freq : 0..8191, mul : 0..15, vib : BOOLEAN]
  <2>1. UpdateFrequency(reg20, chanData) \in
          [freq : 0..8191, mul : 0..15, vib : BOOLEAN]
    BY <1>2, LevelTypes
  <2> QED BY <2>1 DEF Init
<1>5. keyOn \in SUBSET Source /\ state \in State /\ volume \in 0..ENV_MAX
      /\ rateIndex \in 0..(RateUnit - 1) /\ totalLevel \in Nat
      /\ sustainLevel \in 0..496
  BY <1>1 DEF Init, State, ENV_MAX
<1> QED BY <1>2, <1>3, <1>4, <1>5 DEF TypeOK

\* A register write leaves every cache of the right type.
LEMMA TypeWrite ==
  ASSUME TypeOK,
         \/ \E v \in Reg20 : Write20(v)
         \/ \E v \in Reg40 : Write40(v)
         \/ \E v \in Reg60 : Write60(v)
         \/ \E v \in Reg80 : Write80(v)
         \/ \E d \in ChanData : SetChanData(d)
  PROVE  TypeOK'
<1>1. ASSUME NEW v \in Reg20, Write20(v) PROVE TypeOK'
  <2>1. v \in Reg20Type
    BY RegisterAssumption
  <2> DEFINE r == IF reg20.ksr # v.ksr
                  THEN UpdateRates(rates, v, reg60, reg80, chanData) ELSE rates
  <2>2. r \in RatesType
    BY <2>1, UpdateRatesType DEF TypeOK
  <2>3. Flagged(r.zero, "SUSTAIN", v.sus \/ r.releaseAdd = 0) \in SUBSET State
    BY <2>2 DEF RatesType, Flagged, State
  <2>4. rates' \in RatesType
    <3>1. rates' = [r EXCEPT !.zero =
                      Flagged(r.zero, "SUSTAIN", v.sus \/ r.releaseAdd = 0)]
      BY <1>1 DEF Write20
    <3> HIDE DEF r
    <3> QED BY <2>2, <2>3, <3>1 DEF RatesType
  <2>5. wave' \in [freq : 0..8191, mul : 0..15, vib : BOOLEAN]
    <3>1. UpdateFrequency(v, chanData) \in
            [freq : 0..8191, mul : 0..15, vib : BOOLEAN]
      BY <2>1, LevelTypes DEF TypeOK
    <3>2. wave' = wave \/ wave' = UpdateFrequency(v, chanData)
      BY <1>1 DEF Write20
    <3> QED BY <3>1, <3>2 DEF TypeOK
  <2>6. /\ reg20' = v
        /\ UNCHANGED <<reg40, reg60, reg80, chanData, totalLevel, sustainLevel>>
        /\ UNCHANGED <<keyOn, state, volume, rateIndex>>
    BY <1>1 DEF Write20, envelope
  <2> QED BY <2>1, <2>4, <2>5, <2>6 DEF TypeOK
<1>2. ASSUME NEW v \in Reg40, Write40(v) PROVE TypeOK'
  <2>1. v \in Reg40Type
    BY RegisterAssumption
  <2>2. UpdateAttenuation(v, chanData) \in Nat
    BY <2>1, LevelTypes DEF TypeOK
  <2> QED BY <1>2, <2>1, <2>2 DEF Write40, TypeOK, envelope
<1>3. ASSUME NEW v \in Reg60, Write60(v) PROVE TypeOK'
  <2>1. v \in Reg60Type
    BY RegisterAssumption
  <2> DEFINE d == IF reg60.dr # v.dr THEN UpdateDecay(rates, v) ELSE rates
  <2>2. d \in RatesType
    BY <2>1, UpdateDecayType DEF TypeOK
  <2>3. rates' \in RatesType
    <3>1. rates' = IF reg60.ar # v.ar THEN UpdateAttack(d, v) ELSE d
      BY <1>3 DEF Write60
    <3> HIDE DEF d
    <3> QED BY <2>1, <2>2, <3>1, UpdateAttackType
  <2> QED BY <1>3, <2>1, <2>3 DEF Write60, TypeOK, envelope
<1>4. ASSUME NEW v \in Reg80, Write80(v) PROVE TypeOK'
  <2>1. v \in Reg80Type
    BY RegisterAssumption
  <2>2. rates' \in RatesType
    BY <1>4, <2>1, UpdateReleaseType DEF Write80, TypeOK
  <2>3. SustainOf(v) \in 0..496
    BY <2>1, LevelTypes DEF TypeOK
  <2> QED BY <1>4, <2>1, <2>2, <2>3 DEF Write80, TypeOK, envelope
<1>5. ASSUME NEW d \in ChanData, SetChanData(d) PROVE TypeOK'
  <2>1. d \in ChanDataType
    BY RegisterAssumption
  <2>2. rates' \in RatesType
    BY <1>5, <2>1, UpdateRatesType DEF SetChanData, TypeOK
  <2>3. wave' \in [freq : 0..8191, mul : 0..15, vib : BOOLEAN] /\ totalLevel' \in Nat
    BY <1>5, <2>1, LevelTypes DEF SetChanData, TypeOK
  <2> QED BY <1>5, <2>1, <2>2, <2>3 DEF SetChanData, TypeOK, envelope
<1> QED BY <1>1, <1>2, <1>3, <1>4, <1>5

\* What a sample may do to the loudness and the phase: an attack only gets
\* louder and decays at full level, everything else only gets softer and is
\* off at the floor.
LEMMA SampleMoves ==
  ASSUME TypeOK, Sample
  PROVE  /\ rateIndex' \in 0..(RateUnit - 1)
         /\ \/ /\ state = "ATTACK" /\ volume' \in 0..volume
               /\ \/ state' = "ATTACK"
                  \/ state' = "DECAY" /\ volume' = 0
            \/ /\ state \in {"DECAY", "SUSTAIN", "RELEASE"}
               /\ volume' \in volume..ENV_MAX
               /\ \/ state' = state
                  \/ state = "DECAY" /\ state' = "SUSTAIN"
                  \/ state' = "OFF" /\ volume' = ENV_MAX
            \/ state = "OFF" /\ UNCHANGED <<volume, state>>
<1>1. /\ volume \in 0..ENV_MAX /\ rateIndex \in Nat /\ state \in State
      /\ RateUnit \in Nat \ {0} /\ rateIndex \in 0..(RateUnit - 1)
  BY RateAssumption DEF TypeOK
<1>2. /\ rates.attackAdd \in Nat /\ rates.decayAdd \in Nat
      /\ rates.releaseAdd \in Nat
  BY <1>1 DEF TypeOK, RatesType
<1>3. CASE AttackStep
  <2>1. /\ Steps(rates.attackAdd) \in Nat
        /\ Fraction(rates.attackAdd) \in 0..(RateUnit - 1)
    BY <1>1, <1>2, RateForwardType
  <2>2. /\ Attacked(Steps(rates.attackAdd)) \in Int
        /\ Attacked(Steps(rates.attackAdd)) <= volume
    BY <1>1, <2>1, AttackedBelow DEF ENV_MAX
  <2> QED BY <1>1, <1>3, <2>1, <2>2 DEF AttackStep, ENV_MAX
<1>4. CASE DecayStep
  <2>1. /\ Steps(rates.decayAdd) \in Nat
        /\ Fraction(rates.decayAdd) \in 0..(RateUnit - 1)
    BY <1>1, <1>2, RateForwardType
  <2>2. CASE volume + Steps(rates.decayAdd) < sustainLevel
    <3>1. volume' = volume + Steps(rates.decayAdd) /\ state' = "DECAY"
          /\ rateIndex' = Fraction(rates.decayAdd) /\ state = "DECAY"
      BY <1>4, <2>1, <2>2, <1>1 DEF DecayStep, TypeOK
    <3>2. volume' \in volume..ENV_MAX
      BY <1>1, <2>1, <2>2, <3>1 DEF TypeOK, ENV_MAX
    <3> QED BY <2>1, <3>1, <3>2
  <2>3. CASE volume + Steps(rates.decayAdd) >= sustainLevel
    BY <1>1, <1>4, <2>1, <2>3 DEF DecayStep, ENV_MAX, TypeOK
  <2> QED BY <1>1, <2>1, <2>2, <2>3 DEF TypeOK
<1>5. CASE ReleaseStep
  <2>1. /\ Steps(rates.releaseAdd) \in Nat
        /\ Fraction(rates.releaseAdd) \in 0..(RateUnit - 1)
    BY <1>1, <1>2, RateForwardType
  <2>2. rateIndex' \in 0..(RateUnit - 1) /\ state \in {"SUSTAIN", "RELEASE"}
    BY <1>5, <2>1 DEF ReleaseStep
  <2>3. CASE volume + Steps(rates.releaseAdd) < ENV_MAX
    BY <1>1, <1>5, <2>1, <2>2, <2>3 DEF ReleaseStep, ENV_MAX
  <2>4. CASE volume + Steps(rates.releaseAdd) >= ENV_MAX
    BY <1>1, <1>5, <2>1, <2>2, <2>4 DEF ReleaseStep, ENV_MAX
  <2> QED BY <1>1, <2>1, <2>3, <2>4 DEF ENV_MAX
<1>6. CASE HoldStep
  BY <1>1, <1>6 DEF HoldStep, ENV_MAX, State
<1> QED BY <1>3, <1>4, <1>5, <1>6 DEF Sample

LEMMA TypeNext ==
  ASSUME TypeOK, [Next]_operatorVars
  PROVE  TypeOK'
<1>1. ASSUME NEW m \in Source, KeyOn(m) PROVE TypeOK'
  BY <1>1, RateAssumption
     DEF KeyOn, TypeOK, registers, caches, State
<1>2. ASSUME NEW m \in Source, KeyOff(m) PROVE TypeOK'
  BY <1>2 DEF KeyOff, TypeOK, registers, caches, State
<1>3. CASE Sample
  <2>1. volume \in 0..ENV_MAX /\ state \in State
    BY DEF TypeOK
  <2>2. /\ volume' \in 0..ENV_MAX /\ state' \in State
        /\ rateIndex' \in 0..(RateUnit - 1)
    BY <1>3, <2>1, SampleMoves DEF State, ENV_MAX
  <2> QED BY <1>3, <2>2 DEF Sample, TypeOK, registers, caches
<1>4. CASE UNCHANGED operatorVars
  BY <1>4 DEF operatorVars, registers, caches, envelope, TypeOK
<1> QED BY <1>1, <1>2, <1>3, <1>4, TypeWrite DEF Next

\* Every variable keeps its type; the volume never leaves 0..ENV_MAX and the
\* fraction in rateIndex never reaches a step.
THEOREM TypeCorrect == Spec => []TypeOK
<1> QED BY TypeInit, TypeNext, PTL DEF Spec

-----------------------------------------------------------------------------
(* The envelope contract.                                                   *)

\* Every step of the operator is a step of the envelope contract, or leaves
\* keys, phase and loudness as they are.
LEMMA StepImplements ==
  ASSUME TypeOK, [Next]_operatorVars
  PROVE  [Contract!Next]_(Contract!envelopeVars)
<1> USE DEF Contract!envelopeVars, Contract!Next
<1>1. ASSUME NEW m \in Source, KeyOn(m) PROVE Contract!KeyOn(m)
  BY <1>1 DEF KeyOn, Contract!KeyOn
<1>2. ASSUME NEW m \in Source, KeyOff(m) PROVE Contract!KeyOff(m)
  BY <1>2 DEF KeyOff, Contract!KeyOff
<1>3. ASSUME Sample
      PROVE  Contract!Louder \/ Contract!Softer \/ UNCHANGED <<keyOn, state, volume>>
  <2>1. UNCHANGED keyOn
    BY <1>3 DEF Sample
  <2> QED BY <1>3, <2>1, SampleMoves DEF Contract!Louder, Contract!Softer
<1>4. ASSUME \/ \E v \in Reg20 : Write20(v)
             \/ \E v \in Reg40 : Write40(v)
             \/ \E v \in Reg60 : Write60(v)
             \/ \E v \in Reg80 : Write80(v)
             \/ \E d \in ChanData : SetChanData(d)
             \/ UNCHANGED operatorVars
      PROVE  UNCHANGED <<keyOn, state, volume>>
  BY <1>4 DEF Write20, Write40, Write60, Write80, SetChanData, operatorVars, envelope
<1> QED BY <1>1, <1>2, <1>3, <1>4 DEF Next

\* Whatever is written to its registers, the operator is an envelope as
\* Envelope.tla promises it.
THEOREM ImplementsEnvelope == Spec => EnvelopeContract
<1>1. Init => Contract!Init
  BY DEF Init, Contract!Init
<1>2. TypeOK /\ [Next]_operatorVars => [Contract!Next]_(Contract!envelopeVars)
  BY StepImplements
<1> QED BY <1>1, <1>2, TypeCorrect, PTL DEF Spec, EnvelopeContract, Contract!Spec

\* What the contract's steps keep: phase and keys fit, off is silent.
LEMMA ContractKeeps ==
  ASSUME KeyedState, OffIsSilent, [Contract!Next]_(Contract!envelopeVars)
  PROVE  KeyedState' /\ OffIsSilent'
<1> USE DEF KeyedState, OffIsSilent, Contract!KeyedState, Contract!OffIsSilent
<1>1. ASSUME NEW m \in Source, Contract!KeyOn(m) PROVE KeyedState' /\ OffIsSilent'
  BY <1>1 DEF Contract!KeyOn
<1>2. ASSUME NEW m \in Source, Contract!KeyOff(m) PROVE KeyedState' /\ OffIsSilent'
  BY <1>2 DEF Contract!KeyOff
<1>3. CASE Contract!Louder
  BY <1>3 DEF Contract!Louder
<1>4. CASE Contract!Softer
  BY <1>4 DEF Contract!Softer
<1>5. CASE UNCHANGED <<keyOn, state, volume>>
  BY <1>5
<1> QED BY <1>1, <1>2, <1>3, <1>4, <1>5 DEF Contract!Next, Contract!envelopeVars

\* A voice without a key is releasing or off, and a held one never is in
\* release; off means the floor.
THEOREM EnvelopeSafe == Spec => [](KeyedState /\ OffIsSilent)
<1> DEFINE Inv == KeyedState /\ OffIsSilent
<1>1. Init => Inv
  BY DEF Init, KeyedState, OffIsSilent, Contract!KeyedState, Contract!OffIsSilent
<1>2. Inv /\ [Contract!Next]_(Contract!envelopeVars) => Inv'
  BY ContractKeeps
<1>3. TypeOK /\ [Next]_operatorVars => [Contract!Next]_(Contract!envelopeVars)
  BY StepImplements
<1> QED BY <1>1, <1>2, <1>3, TypeCorrect, PTL DEF Spec
-----------------------------------------------------------------------------
(* The caches.                                                              *)

\* RatesCoherent field by field, for registers and rates given as arguments:
\* all but the flag that two handlers share, and that flag.
RatesFit(r, r20, r60, r80, data) ==
  LET k == KsrOf(r20, data) IN
  /\ r.ksr = k
  /\ r.attackAdd = RateOf(attackRates, r60.ar, k)
  /\ r.decayAdd = RateOf(linearRates, r60.dr, k)
  /\ r.releaseAdd = RateOf(linearRates, r80.rr, k)
  /\ "OFF" \in r.zero
  /\ "ATTACK" \in r.zero <=> r60.ar = 0
  /\ "DECAY" \in r.zero <=> r60.dr = 0
  /\ "RELEASE" \in r.zero <=> r80.rr = 0

SustainFits(r, r20, r80) == "SUSTAIN" \in r.zero <=> (r20.sus \/ r80.rr = 0)

Now == RatesFit(rates, reg20, reg60, reg80, chanData) /\ SustainFits(rates, reg20, reg80)

LEMMA CoherentIsRatesCoherent ==
  ASSUME TypeOK PROVE Now <=> RatesCoherent
<1> DEFINE zero == {s \in State :
                 \/ s = "OFF"
                 \/ s = "ATTACK"  /\ reg60.ar = 0
                 \/ s = "DECAY"   /\ reg60.dr = 0
                 \/ s = "RELEASE" /\ reg80.rr = 0
                 \/ s = "SUSTAIN" /\ (reg20.sus \/ reg80.rr = 0)}
<1>1. rates.zero \in SUBSET State /\ rates \in RatesType
  BY DEF TypeOK, RatesType
<1>2. rates.zero = zero <=>
         /\ "OFF" \in rates.zero
         /\ "ATTACK" \in rates.zero <=> reg60.ar = 0
         /\ "DECAY" \in rates.zero <=> reg60.dr = 0
         /\ "RELEASE" \in rates.zero <=> reg80.rr = 0
         /\ "SUSTAIN" \in rates.zero <=> (reg20.sus \/ reg80.rr = 0)
  BY <1>1 DEF State
<1>3. \A a, b, c, d, e :
        rates = [ksr |-> a, attackAdd |-> b, decayAdd |-> c, releaseAdd |-> d,
                 zero |-> e]
        <=> /\ rates.ksr = a /\ rates.attackAdd = b /\ rates.decayAdd = c
            /\ rates.releaseAdd = d /\ rates.zero = e
  BY <1>1 DEF RatesType
<1> HIDE DEF zero
<1>4. RatesCoherent <=>
        rates = [ksr        |-> KsrOf(reg20, chanData),
                 attackAdd  |-> RateOf(attackRates, reg60.ar, KsrOf(reg20, chanData)),
                 decayAdd   |-> RateOf(linearRates, reg60.dr, KsrOf(reg20, chanData)),
                 releaseAdd |-> RateOf(linearRates, reg80.rr, KsrOf(reg20, chanData)),
                 zero       |-> zero]
  BY DEF RatesCoherent, zero
<1> QED BY <1>2, <1>3, <1>4 DEF Now, RatesFit, SustainFits

\* With a rate above zero the release moves, so that the two tests of the
\* SUSTAIN flag, of the rate and of the looked-up addend, agree.
LEMMA ReleaseMoves ==
  ASSUME NEW rr \in 0..15, NEW ksr \in 0..15
  PROVE  RateOf(linearRates, rr, ksr) = 0 <=> rr = 0
<1>1. rr # 0 => rr * 4 + ksr \in 4..75
  OBVIOUS
<1> QED BY <1>1, RateAssumption DEF RateOf

\* The three updates bring the rates up to date field by field.
LEMMA UpdateRatesFit ==
  ASSUME NEW r \in RatesType, NEW s20 \in Reg20Type, NEW r20 \in Reg20Type,
         NEW r60 \in Reg60Type, NEW r80 \in Reg80Type,
         NEW data \in ChanDataType, NEW next \in ChanDataType,
         RatesFit(r, s20, r60, r80, data)
  PROVE  LET u == UpdateRates(r, r20, r60, r80, next) IN
         /\ RatesFit(u, r20, r60, r80, next)
         /\ SustainFits(r, s20, r80) /\ s20.sus = r20.sus => SustainFits(u, r20, r80)
<1> DEFINE k == KsrOf(r20, next)
           r0 == [r EXCEPT !.ksr = k]
           r1 == UpdateAttack(r0, r60)
           r2 == UpdateDecay(r1, r60)
           r3 == UpdateRelease(r2, r80, r20)
<1>1. CASE r.ksr = k
  BY <1>1 DEF UpdateRates, RatesFit, SustainFits
<1>2. CASE r.ksr # k
  <2>1. UpdateRates(r, r20, r60, r80, next) = r3
    BY <1>2 DEF UpdateRates
  <2>2. r0 \in RatesType /\ r0.ksr = k /\ r0.zero = r.zero
    BY KsrType DEF RatesType
  <2> HIDE DEF k, r0
  <2>3. /\ r1 \in RatesType /\ r1.ksr = k
        /\ r1.attackAdd = RateOf(attackRates, r60.ar, k)
        /\ r1.zero = Flagged(r.zero, "ATTACK", r60.ar = 0)
    BY <2>2, UpdateAttackType DEF UpdateAttack, RatesType
  <2> HIDE DEF r1
  <2>4. /\ r2 \in RatesType /\ r2.ksr = k /\ r2.attackAdd = r1.attackAdd
        /\ r2.decayAdd = RateOf(linearRates, r60.dr, k)
        /\ r2.zero = Flagged(r1.zero, "DECAY", r60.dr = 0)
    BY <2>3, UpdateDecayType DEF UpdateDecay, RatesType
  <2> HIDE DEF r2
  <2>5. /\ r3.ksr = k /\ r3.attackAdd = r2.attackAdd /\ r3.decayAdd = r2.decayAdd
        /\ r3.releaseAdd = RateOf(linearRates, r80.rr, k)
        /\ r3.zero = IF r20.sus THEN Flagged(r2.zero, "RELEASE", r80.rr = 0)
                     ELSE Flagged(Flagged(r2.zero, "RELEASE", r80.rr = 0),
                                  "SUSTAIN", r80.rr = 0)
    BY <2>4 DEF UpdateRelease, RatesType
  <2> HIDE DEF r3
  <2>6. /\ "OFF" \in r3.zero
        /\ "ATTACK" \in r3.zero <=> r60.ar = 0
        /\ "DECAY" \in r3.zero <=> r60.dr = 0
        /\ "RELEASE" \in r3.zero <=> r80.rr = 0
    BY <2>3, <2>4, <2>5 DEF Flagged, RatesFit
  <2>7. SustainFits(r, s20, r80) /\ s20.sus = r20.sus => SustainFits(r3, r20, r80)
    BY <2>3, <2>4, <2>5 DEF Flagged, SustainFits
  <2> QED BY <2>1, <2>3, <2>4, <2>5, <2>6, <2>7 DEF RatesFit, k
<1> QED BY <1>1, <1>2

\* The control register: a new KSR bit looks the rates up again, and the
\* SUSTAIN flag is decided anew from the addend.
LEMMA Write20Coherent ==
  ASSUME TypeOK, Now, NEW v \in Reg20, Write20(v)
  PROVE  Now'
<1> DEFINE r == IF reg20.ksr # v.ksr
                THEN UpdateRates(rates, v, reg60, reg80, chanData) ELSE rates
           on == v.sus \/ r.releaseAdd = 0
<1>1. /\ v \in Reg20Type /\ reg20 \in Reg20Type /\ rates \in RatesType
      /\ reg60 \in Reg60Type /\ reg80 \in Reg80Type /\ chanData \in ChanDataType
  BY RegisterAssumption DEF TypeOK
<1>2. r \in RatesType /\ RatesFit(r, v, reg60, reg80, chanData)
  <2>1. CASE reg20.ksr = v.ksr
    <3>1. KsrOf(v, chanData) = KsrOf(reg20, chanData)
      BY <2>1 DEF KsrOf
    <3> QED BY <1>1, <2>1, <3>1 DEF Now, RatesFit
  <2>2. CASE reg20.ksr # v.ksr
    BY <1>1, <2>2, UpdateRatesType, UpdateRatesFit DEF Now
  <2> QED BY <2>1, <2>2
<1>3. r.releaseAdd = 0 <=> reg80.rr = 0
  BY <1>1, <1>2, KsrType, ReleaseMoves DEF RatesFit, Reg80Type
<1>4. /\ reg20' = v
      /\ UNCHANGED <<reg60, reg80, chanData>>
      /\ rates' = [r EXCEPT !.zero = Flagged(r.zero, "SUSTAIN", on)]
  BY DEF Write20
<1> HIDE DEF r
<1>5. /\ rates'.ksr = r.ksr /\ rates'.attackAdd = r.attackAdd
      /\ rates'.decayAdd = r.decayAdd /\ rates'.releaseAdd = r.releaseAdd
      /\ rates'.zero = Flagged(r.zero, "SUSTAIN", on)
  BY <1>2, <1>4 DEF RatesType
<1>6. RatesFit(rates', v, reg60, reg80, chanData)
  BY <1>2, <1>5 DEF RatesFit, Flagged
<1>7. SustainFits(rates', v, reg80)
  BY <1>3, <1>5 DEF SustainFits, Flagged
<1> QED BY <1>4, <1>6, <1>7 DEF Now

LEMMA Write60Coherent ==
  ASSUME TypeOK, Now, NEW v \in Reg60, Write60(v)
  PROVE  Now'
<1> DEFINE d == IF reg60.dr # v.dr THEN UpdateDecay(rates, v) ELSE rates
           a == IF reg60.ar # v.ar THEN UpdateAttack(d, v) ELSE d
<1>1. v \in Reg60Type /\ rates \in RatesType
  BY RegisterAssumption DEF TypeOK
<1>2. /\ d \in RatesType
      /\ d.ksr = rates.ksr /\ d.attackAdd = rates.attackAdd
      /\ d.releaseAdd = rates.releaseAdd
      /\ d.decayAdd = RateOf(linearRates, v.dr, rates.ksr)
      /\ \A s \in State \ {"DECAY"} : s \in d.zero <=> s \in rates.zero
      /\ "DECAY" \in d.zero <=> v.dr = 0
  <2>1. CASE reg60.dr = v.dr
    BY <1>1, <2>1 DEF Now, RatesFit
  <2>2. CASE reg60.dr # v.dr
    BY <1>1, <2>2, UpdateDecayType DEF UpdateDecay, Flagged, RatesType
  <2> QED BY <2>1, <2>2
<1> HIDE DEF d
<1>3. /\ a.ksr = rates.ksr /\ a.decayAdd = d.decayAdd
      /\ a.releaseAdd = rates.releaseAdd
      /\ a.attackAdd = RateOf(attackRates, v.ar, rates.ksr)
      /\ \A s \in State \ {"ATTACK"} : s \in a.zero <=> s \in d.zero
      /\ "ATTACK" \in a.zero <=> v.ar = 0
  <2>1. CASE reg60.ar = v.ar
    BY <1>1, <1>2, <2>1 DEF Now, RatesFit, State
  <2>2. CASE reg60.ar # v.ar
    BY <1>1, <1>2, <2>2 DEF UpdateAttack, Flagged, RatesType
  <2> QED BY <2>1, <2>2
<1>4. rates' = a /\ reg60' = v /\ UNCHANGED <<reg20, reg80, chanData>>
  BY DEF Write60, d
<1> HIDE DEF a
<1>5. RatesFit(a, reg20, v, reg80, chanData) /\ SustainFits(a, reg20, reg80)
  BY <1>2, <1>3 DEF Now, RatesFit, SustainFits, State
<1> QED BY <1>4, <1>5 DEF Now

LEMMA Write80Coherent ==
  ASSUME TypeOK, Now, NEW v \in Reg80, Write80(v)
  PROVE  Now'
<1>1. rates \in RatesType
  BY DEF TypeOK
<1>2. reg80' = v /\ UNCHANGED <<reg20, reg60, chanData>>
  BY DEF Write80
<1>3. CASE reg80.rr = v.rr
  BY <1>2, <1>3 DEF Write80, Now, RatesFit, SustainFits
<1>4. CASE reg80.rr # v.rr
  <2> DEFINE u == UpdateRelease(rates, v, reg20)
  <2>1. rates' = u
    BY <1>4 DEF Write80
  <2>2. /\ u.ksr = rates.ksr /\ u.attackAdd = rates.attackAdd
        /\ u.decayAdd = rates.decayAdd
        /\ u.releaseAdd = RateOf(linearRates, v.rr, rates.ksr)
        /\ u.zero = IF reg20.sus THEN Flagged(rates.zero, "RELEASE", v.rr = 0)
                    ELSE Flagged(Flagged(rates.zero, "RELEASE", v.rr = 0),
                                 "SUSTAIN", v.rr = 0)
    BY <1>1 DEF UpdateRelease, RatesType
  <2> HIDE DEF u
  <2>3. RatesFit(u, reg20, reg60, v, chanData) /\ SustainFits(u, reg20, v)
    BY <2>2 DEF Now, RatesFit, SustainFits, Flagged
  <2> QED BY <1>2, <2>1, <2>3 DEF Now
<1> QED BY <1>3, <1>4

LEMMA SetChanDataCoherent ==
  ASSUME TypeOK, Now, NEW d \in ChanData, SetChanData(d)
  PROVE  Now'
<1>1. /\ d \in ChanDataType /\ reg20 \in Reg20Type /\ rates \in RatesType
      /\ reg60 \in Reg60Type /\ reg80 \in Reg80Type /\ chanData \in ChanDataType
  BY RegisterAssumption DEF TypeOK
<1>2. chanData' = d /\ UNCHANGED <<reg20, reg60, reg80>>
  BY DEF SetChanData
<1>3. CASE chanData.key = d.key
  <2>1. KsrOf(reg20, d) = KsrOf(reg20, chanData) /\ rates' = rates
    BY <1>3 DEF KsrOf, SetChanData
  <2> QED BY <1>2, <2>1 DEF Now, RatesFit
<1>4. CASE chanData.key # d.key
  <2>1. rates' = UpdateRates(rates, reg20, reg60, reg80, d)
    BY <1>4 DEF SetChanData
  <2>2. /\ RatesFit(UpdateRates(rates, reg20, reg60, reg80, d), reg20, reg60, reg80, d)
        /\ SustainFits(UpdateRates(rates, reg20, reg60, reg80, d), reg20, reg80)
    BY <1>1, UpdateRatesFit DEF Now
  <2> QED BY <1>2, <2>1, <2>2 DEF Now
<1> QED BY <1>3, <1>4

LEMMA CoherentNext ==
  ASSUME TypeOK, Now, [Next]_operatorVars
  PROVE  Now'
<1>1. ASSUME \/ \E v \in Reg40 : Write40(v)
             \/ \E m \in Source : KeyOn(m) \/ KeyOff(m)
             \/ Sample
             \/ UNCHANGED operatorVars
      PROVE  Now'
  BY <1>1 DEF Write40, KeyOn, KeyOff, Sample, registers, caches, operatorVars,
              Now, RatesFit, SustainFits
<1> QED BY <1>1, Write20Coherent, Write60Coherent, Write80Coherent,
           SetChanDataCoherent DEF Next

LEMMA CoherentInit == Init => Now
  BY DEF Init, Now, RatesFit, SustainFits, KsrOf, RateOf, State

\* However a program orders its register writes, the rates and the rateZero
\* flags are those of its registers.
THEOREM RatesAlwaysCoherent == Spec => []RatesCoherent
<1>1. TypeOK => (Now <=> RatesCoherent)
  BY CoherentIsRatesCoherent
<1>2. TypeOK /\ Now /\ [Next]_operatorVars => Now'
  BY CoherentNext
<1> QED BY <1>1, <1>2, CoherentInit, TypeCorrect, PTL DEF Spec
-----------------------------------------------------------------------------
(* The skip of silent channels.                                             *)

\* An addend of zero takes no step and leaves the fraction.
LEMMA NoSteps == TypeOK => Steps(0) = 0 /\ Fraction(0) = rateIndex
  BY RateAssumption DEF TypeOK, Steps, Fraction

LEMMA SilentHolds ==
  ASSUME TypeOK, OffIsSilent, RatesCoherent, Silent, Sample
  PROVE  volume' = volume /\ (StandsStill \/ GoesOff \/ EndsDecay)
<1> USE DEF StandsStill, GoesOff, EndsDecay
<1>1. /\ volume \in 0..ENV_MAX /\ state \in State
      /\ Steps(0) = 0 /\ Fraction(0) = rateIndex
  BY NoSteps DEF TypeOK
<1>2. /\ state = "ATTACK" => rates.attackAdd = 0
      /\ state = "DECAY" => rates.decayAdd = 0
      /\ state = "RELEASE" => rates.releaseAdd = 0
      /\ state = "SUSTAIN" => reg20.sus \/ rates.releaseAdd = 0
  <2>1. RatesFit(rates, reg20, reg60, reg80, chanData) /\ SustainFits(rates, reg20, reg80)
    BY CoherentIsRatesCoherent DEF Now
  <2> QED BY <2>1 DEF RatesFit, SustainFits, RateOf, Silent
<1>3. CASE AttackStep
  BY <1>1, <1>2, <1>3 DEF AttackStep
<1>4. CASE DecayStep
  BY <1>1, <1>2, <1>4 DEF DecayStep, ENV_MAX
<1>5. CASE ReleaseStep
  BY <1>1, <1>2, <1>5 DEF ReleaseStep, ENV_MAX
<1>6. CASE HoldStep
  BY <1>6 DEF HoldStep
<1> QED BY <1>3, <1>4, <1>5, <1>6 DEF Sample

\* The sample that the skip of a silent channel leaves out would have changed
\* nothing of the carrier's envelope, but for the end of a decay of rate zero and
\* for a note that would have gone off (Operator::Silent, Channel::BlockTemplate).
THEOREM SkippedEnvelopeStands == Spec => SkipKeepsEnvelope
<1>1. TypeOK /\ OffIsSilent /\ RatesCoherent /\ [Next]_operatorVars
      => [Silent /\ Sample =>
            volume' = volume /\ (StandsStill \/ GoesOff \/ EndsDecay)]_operatorVars
  BY SilentHolds
<1> QED BY <1>1, TypeCorrect, EnvelopeSafe, RatesAlwaysCoherent, PTL
        DEF Spec, SkipKeepsEnvelope
-----------------------------------------------------------------------------
(* The levels and the wave step.                                            *)

LEMMA SoundNext ==
  ASSUME SoundCoherent, TypeOK, [Next]_operatorVars
  PROVE  SoundCoherent'
<1> USE DEF SoundCoherent
<1>1. ASSUME NEW v \in Reg20, Write20(v) PROVE SoundCoherent'
  <2>1. reg20.mul = v.mul /\ reg20.vib = v.vib
        => UpdateFrequency(v, chanData) = UpdateFrequency(reg20, chanData)
    BY DEF UpdateFrequency
  <2> QED BY <1>1, <2>1 DEF Write20
<1>2. ASSUME NEW v \in Reg40, Write40(v) PROVE SoundCoherent'
  BY <1>2 DEF Write40
<1>3. ASSUME NEW v \in Reg60, Write60(v) PROVE SoundCoherent'
  BY <1>3 DEF Write60
<1>4. ASSUME NEW v \in Reg80, Write80(v) PROVE SoundCoherent'
  BY <1>4 DEF Write80
<1>5. ASSUME NEW d \in ChanData, SetChanData(d) PROVE SoundCoherent'
  <2>1. chanData.ksl = d.ksl
        => UpdateAttenuation(reg40, d) = UpdateAttenuation(reg40, chanData)
    BY DEF UpdateAttenuation
  <2> QED BY <1>5, <2>1 DEF SetChanData
<1>6. ASSUME \/ \E m \in Source : KeyOn(m) \/ KeyOff(m)
             \/ Sample
             \/ UNCHANGED operatorVars
      PROVE  SoundCoherent'
  BY <1>6 DEF KeyOn, KeyOff, Sample, registers, caches, operatorVars
<1> QED BY <1>1, <1>2, <1>3, <1>4, <1>5, <1>6 DEF Next

\* Attenuation, sustain level and wave step are those of the registers.
THEOREM SoundAlwaysCoherent == Spec => []SoundCoherent
<1>1. Init => SoundCoherent
  BY DEF Init, SoundCoherent, UpdateAttenuation, SustainOf
<1>2. SoundCoherent /\ TypeOK /\ [Next]_operatorVars => SoundCoherent'
  BY SoundNext
<1> QED BY <1>1, <1>2, TypeCorrect, PTL DEF Spec
-----------------------------------------------------------------------------
(* The way of an envelope through its phases.                               *)

\* The envelope has somewhere to go: its phase has a rate.
Moving ==
  \/ state = "ATTACK" /\ rates.attackAdd > 0
  \/ state = "DECAY" /\ rates.decayAdd > 0
  \/ state = "SUSTAIN" /\ ~reg20.sus /\ rates.releaseAdd > 0
  \/ state = "RELEASE" /\ rates.releaseAdd > 0

\* Such an operator is not one of those that a channel may skip: the flags of
\* rateZero never outlive a rate of zero (dbopl.cpp:529-535).
MovingPlays == Moving => ~Silent

\* Every sample of such an operator is a step forward in one order: into the
\* next phase; or towards the end of this one, louder in the attack and softer
\* elsewhere; or nearer to the next whole step by what rateIndex has gathered.
\* No sample is lost to rounding, of the attack least of all, where a change
\* of one step is worth (~vol * 1) >> 3 (dbopl.cpp:380-432).
EnvelopeAdvances ==
  [][Moving /\ Sample =>
       \/ state' # state
       \/ state = "ATTACK" /\ volume' < volume
       \/ state # "ATTACK" /\ volume' > volume
       \/ volume' = volume /\ rateIndex' > rateIndex]_operatorVars

\* A rate that is not zero either is worth a whole step or adds to the
\* fraction.
LEMMA RateForwardMoves ==
  ASSUME rateIndex \in 0..(RateUnit - 1), NEW add \in Nat, add > 0
  PROVE  \/ Steps(add) \in Nat /\ Steps(add) > 0
         \/ Steps(add) = 0 /\ Fraction(add) > rateIndex
<1> DEFINE sum == rateIndex + add
<1>1. RateUnit \in Nat \ {0} /\ sum \in Nat /\ sum > rateIndex
  BY RateAssumption
<1>2. \A n \in Nat :
        \/ n >= RateUnit /\ n \div RateUnit \in Nat /\ n \div RateUnit > 0
        \/ n < RateUnit /\ n \div RateUnit = 0 /\ n % RateUnit = n
  BY <1>1
<1> HIDE DEF sum
<1>3. \/ sum \div RateUnit \in Nat /\ sum \div RateUnit > 0
      \/ sum \div RateUnit = 0 /\ sum % RateUnit = sum
  BY <1>1, <1>2
<1> QED BY <1>1, <1>3 DEF Steps, Fraction, sum

\* The arithmetic shift rounds towards louder: a step of an attack, however
\* small, moves the volume.
LEMMA AttackedMoves ==
  ASSUME volume \in Nat, NEW change \in Nat, change > 0
  PROVE  Attacked(change) \in Int /\ Attacked(change) < volume
<1> DEFINE drop == -(volume + 1) * change
<1>1. drop \in Int /\ drop < 0
  OBVIOUS
<1>2. \A d \in Int : d < 0 => d \div 8 \in Int /\ d \div 8 < 0
  OBVIOUS
<1>3. drop \div 8 \in Int /\ drop \div 8 < 0
  <2> HIDE DEF drop
  <2> QED BY <1>1, <1>2
<1> QED BY <1>3 DEF Attacked

LEMMA MovingIsHeard == TypeOK /\ RatesCoherent => MovingPlays
<1> SUFFICES ASSUME TypeOK, RatesCoherent, Moving PROVE state \notin rates.zero
  BY DEF MovingPlays, Silent
<1>1. RatesFit(rates, reg20, reg60, reg80, chanData) /\ SustainFits(rates, reg20, reg80)
  BY CoherentIsRatesCoherent DEF Now
<1> QED BY <1>1 DEF RatesFit, SustainFits, RateOf, Moving

LEMMA SampleAdvances ==
  ASSUME TypeOK, Moving, Sample
  PROVE  \/ state' # state
         \/ state = "ATTACK" /\ volume' < volume
         \/ state # "ATTACK" /\ volume' > volume
         \/ volume' = volume /\ rateIndex' > rateIndex
<1>1. /\ volume \in 0..ENV_MAX /\ volume \in Nat
      /\ rateIndex \in 0..(RateUnit - 1)
      /\ rates.attackAdd \in Nat /\ rates.decayAdd \in Nat /\ rates.releaseAdd \in Nat
  BY RateAssumption DEF TypeOK, RatesType, ENV_MAX
<1>2. CASE AttackStep
  <2>1. rates.attackAdd > 0 /\ state = "ATTACK"
    BY <1>2 DEF AttackStep, Moving
  <2>2. \/ Steps(rates.attackAdd) \in Nat /\ Steps(rates.attackAdd) > 0
        \/ Steps(rates.attackAdd) = 0 /\ Fraction(rates.attackAdd) > rateIndex
    BY <1>1, <2>1, RateForwardMoves
  <2>3. CASE Steps(rates.attackAdd) \in Nat /\ Steps(rates.attackAdd) > 0
    <3>1. Attacked(Steps(rates.attackAdd)) < volume
      BY <1>1, <2>3, AttackedMoves
    <3> QED BY <1>2, <2>1, <2>3, <3>1 DEF AttackStep
  <2>4. CASE Steps(rates.attackAdd) = 0 /\ Fraction(rates.attackAdd) > rateIndex
    BY <1>2, <2>4 DEF AttackStep
  <2> QED BY <2>2, <2>3, <2>4
<1>3. CASE DecayStep
  <2>1. rates.decayAdd > 0 /\ state = "DECAY"
    BY <1>3 DEF DecayStep, Moving
  <2>2. \/ Steps(rates.decayAdd) \in Nat /\ Steps(rates.decayAdd) > 0
        \/ Steps(rates.decayAdd) = 0 /\ Fraction(rates.decayAdd) > rateIndex
    BY <1>1, <2>1, RateForwardMoves
  <2> QED BY <1>1, <1>3, <2>1, <2>2 DEF DecayStep
<1>4. CASE ReleaseStep
  <2>1. rates.releaseAdd > 0 /\ state \in {"SUSTAIN", "RELEASE"}
    BY <1>4 DEF ReleaseStep, Moving
  <2>2. \/ Steps(rates.releaseAdd) \in Nat /\ Steps(rates.releaseAdd) > 0
        \/ Steps(rates.releaseAdd) = 0 /\ Fraction(rates.releaseAdd) > rateIndex
    BY <1>1, <2>1, RateForwardMoves
  <2> QED BY <1>1, <1>4, <2>1, <2>2 DEF ReleaseStep
<1>5. CASE HoldStep
  BY <1>5 DEF HoldStep, Moving
<1> QED BY <1>2, <1>3, <1>4, <1>5 DEF Sample

\* An envelope with a rate is played and every sample takes it on. With the
\* contract, which orders the phases, this is why a release and an attack end
\* (ReleaseEnds, AttackEnds): what is left to the runs is that the mixer goes
\* on asking for samples.
THEOREM EnvelopeGoesOn == Spec => EnvelopeAdvances /\ []MovingPlays
<1>1. TypeOK /\ [Next]_operatorVars
      => [Moving /\ Sample =>
            \/ state' # state
            \/ state = "ATTACK" /\ volume' < volume
            \/ state # "ATTACK" /\ volume' > volume
            \/ volume' = volume /\ rateIndex' > rateIndex]_operatorVars
  BY SampleAdvances
<1> QED BY <1>1, MovingIsHeard, TypeCorrect, RatesAlwaysCoherent, PTL
        DEF Spec, EnvelopeAdvances
=============================================================================
