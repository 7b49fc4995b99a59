------------------------------ MODULE Operator ------------------------------
(***************************************************************************)
(* One FM operator of the OPL emulator (struct Operator, opl/dbopl.h:67,   *)
(* opl/dbopl.cpp:289-623): the registers a program writes, the values the  *)
(* handlers derive from them incrementally (rates, levels, wave step), and *)
(* the envelope that every generated sample moves.                         *)
(*                                                                         *)
(* A register is the record of its fields.  The cached wave step waveAdd,  *)
(* vibrato is kept as the record of the inputs it was computed from; the   *)
(* waveform (regE0), the tremolo mask and the phase counter, which no      *)
(* property looks at, are left out.                                        *)
(***************************************************************************)
EXTENDS Integers

CONSTANTS
  RateUnit,     \* 1 << RATE_SH: the fraction of an envelope step
  attackRates,  \* Chip::attackRates, indexed 0..75
  linearRates,  \* Chip::linearRates, indexed 0..75
  Reg20, Reg40, Reg60, Reg80,   \* the register values a program writes
  ChanData      \* the frequency words a channel forwards

ENV_MAX   == 511
ENV_LIMIT == 384
RateIndex == 0..75

Reg20Type == [ksr : BOOLEAN, sus : BOOLEAN, vib : BOOLEAN, mul : 0..15]
Reg40Type == [ksl : 0..3, tl : 0..63]
Reg60Type == [ar : 0..15, dr : 0..15]
Reg80Type == [sl : 0..15, rr : 0..15]
\* chanData: block and f-number, KslTable's entry for them, the key code.
ChanDataType == [freq : 0..8191, ksl : 0..255, key : 0..15]

ASSUME RateAssumption ==
  /\ RateUnit \in Nat \ {0}
  /\ attackRates \in [RateIndex -> 0..(8 * RateUnit)]
  /\ linearRates \in [RateIndex -> Nat]
  /\ \A i \in 4..75 : linearRates[i] > 0   \* a rate of 1 already moves

ASSUME RegisterAssumption ==
  /\ Reg20 \subseteq Reg20Type
  /\ Reg40 \subseteq Reg40Type
  /\ Reg60 \subseteq Reg60Type
  /\ Reg80 \subseteq Reg80Type
  /\ ChanData \subseteq ChanDataType

VARIABLES
  reg20, reg40, reg60, reg80, chanData,  \* registers and forwarded frequency
  rates,        \* ksr, attackAdd, decayAdd, releaseAdd and zero (rateZero)
  wave,         \* the inputs of waveAdd and vibrato
  totalLevel, sustainLevel,
  keyOn, state, volume, rateIndex

registers == <<reg20, reg40, reg60, reg80, chanData>>
caches    == <<rates, wave, totalLevel, sustainLevel>>
envelope  == <<keyOn, state, volume, rateIndex>>
operatorVars == <<registers, caches, envelope>>

Source == {"chan", "drum"}     \* KeyOn masks 0x1 (WriteB0) and 0x2 (WriteBD)
State  == {"OFF", "RELEASE", "SUSTAIN", "DECAY", "ATTACK"}
-----------------------------------------------------------------------------
(* The derived values.                                                      *)

Flagged(zero, s, on) == IF on THEN zero \cup {s} ELSE zero \ {s}

\* A register rate of 0 never moves; any other is looked up with the ksr.
RateOf(table, rate, ksr) == IF rate = 0 THEN 0 ELSE table[rate * 4 + ksr]

\* Mutant: the flag of a rate that became nonzero is not cleared.
UpdateAttackKeepsFlag(r, r60) ==
  [r EXCEPT !.attackAdd = RateOf(attackRates, r60.ar, r.ksr)]

UpdateAttack(r, r60) ==
  [r EXCEPT !.attackAdd = RateOf(attackRates, r60.ar, r.ksr),
            !.zero = Flagged(@, "ATTACK", r60.ar = 0)]

UpdateDecay(r, r60) ==
  [r EXCEPT !.decayAdd = RateOf(linearRates, r60.dr, r.ksr),
            !.zero = Flagged(@, "DECAY", r60.dr = 0)]

\* Mutant: the flags of a rate that became nonzero are not cleared.
UpdateReleaseKeepsFlag(r, r80, r20) ==
  [r EXCEPT !.releaseAdd = RateOf(linearRates, r80.rr, r.ksr)]

\* The sustain phase decays with the release rate unless the note holds.
UpdateRelease(r, r80, r20) ==
  [r EXCEPT !.releaseAdd = RateOf(linearRates, r80.rr, r.ksr),
            !.zero = LET z == Flagged(@, "RELEASE", r80.rr = 0)
                     IN  IF r20.sus THEN z ELSE Flagged(z, "SUSTAIN", r80.rr = 0)]

\* The rates are looked up again only when the scaled key code changes.
KsrOf(r20, data) == IF r20.ksr THEN data.key ELSE data.key \div 4

\* Mutant: the release rate is not looked up again.
UpdateRatesForgetsRelease(r, r20, r60, r80, data) ==
  LET k == KsrOf(r20, data) IN
  IF r.ksr = k THEN r
  ELSE UpdateDecay(UpdateAttack([r EXCEPT !.ksr = k], r60), r60)

UpdateRates(r, r20, r60, r80, data) ==
  LET k == KsrOf(r20, data) IN
  IF r.ksr = k THEN r
  ELSE UpdateRelease(UpdateDecay(UpdateAttack([r EXCEPT !.ksr = k], r60), r60),
                     r80, r20)

KslDivisor == <<2, 4, 1>>      \* KslShiftTable: off, 1, 2 and 0 bits

UpdateAttenuation(r40, data) ==
  r40.tl * 4 + (IF r40.ksl = 0 THEN 0 ELSE data.ksl \div KslDivisor[r40.ksl])

UpdateFrequency(r20, data) ==
  [freq |-> data.freq, mul |-> r20.mul, vib |-> r20.vib]

\* 0xf stands for the bottom of the scale.
SustainOf(r80) == (IF r80.sl = 15 THEN 31 ELSE r80.sl) * 16
-----------------------------------------------------------------------------
(* An operator as Chip::Setup leaves it: every register swept to 0xff and  *)
(* back to 0, every key pressed and released once.                         *)

Init ==
  /\ reg20 = [ksr |-> FALSE, sus |-> FALSE, vib |-> FALSE, mul |-> 0]
  /\ reg40 = [ksl |-> 0, tl |-> 0]
  /\ reg60 = [ar |-> 0, dr |-> 0]
  /\ reg80 = [sl |-> 0, rr |-> 0]
  /\ chanData = [freq |-> 0, ksl |-> 0, key |-> 0]
  /\ rates = [ksr |-> 0, attackAdd |-> 0, decayAdd |-> 0, releaseAdd |-> 0,
              zero |-> State]
  /\ wave = UpdateFrequency(reg20, chanData)
  /\ totalLevel = 0
  /\ sustainLevel = 0
  /\ keyOn = {}
  /\ state = "RELEASE"
  /\ volume = ENV_MAX
  /\ rateIndex = 0
-----------------------------------------------------------------------------
(* Register writes.                                                         *)

Write20(val) ==
  LET r == IF reg20.ksr # val.ksr
           THEN UpdateRates(rates, val, reg60, reg80, chanData) ELSE rates
  IN
  /\ reg20 # val
  /\ reg20' = val
  /\ rates' = [r EXCEPT !.zero =
                 Flagged(@, "SUSTAIN", val.sus \/ r.releaseAdd = 0)]
  /\ wave' = IF reg20.mul # val.mul \/ reg20.vib # val.vib
             THEN UpdateFrequency(val, chanData) ELSE wave
  /\ UNCHANGED <<reg40, reg60, reg80, chanData, totalLevel, sustainLevel, envelope>>

Write40(val) ==
  /\ reg40 # val
  /\ reg40' = val
  /\ totalLevel' = UpdateAttenuation(val, chanData)
  /\ UNCHANGED <<reg20, reg60, reg80, chanData, rates, wave, sustainLevel, envelope>>

Write60(val) ==
  LET d == IF reg60.dr # val.dr THEN UpdateDecay(rates, val) ELSE rates IN
  /\ reg60' = val
  /\ rates' = IF reg60.ar # val.ar THEN UpdateAttack(d, val) ELSE d
  /\ UNCHANGED <<reg20, reg40, reg80, chanData, wave, totalLevel, sustainLevel, envelope>>

Write80(val) ==
  /\ reg80 # val
  /\ reg80' = val
  /\ sustainLevel' = SustainOf(val)
  /\ rates' = IF reg80.rr # val.rr THEN UpdateRelease(rates, val, reg20) ELSE rates
  /\ UNCHANGED <<reg20, reg40, reg60, chanData, wave, totalLevel, envelope>>

\* Mutant: a new key scale level does not reach totalLevel.
SetChanDataKeepsLevel(data) ==
  /\ chanData' = data
  /\ wave' = UpdateFrequency(reg20, data)
  /\ rates' = IF chanData.key # data.key
              THEN UpdateRates(rates, reg20, reg60, reg80, data) ELSE rates
  /\ UNCHANGED <<reg20, reg40, reg60, reg80, totalLevel, sustainLevel, envelope>>

\* Channel::SetChanData forwards a new frequency word to the operator.
SetChanData(data) ==
  /\ chanData' = data
  /\ wave' = UpdateFrequency(reg20, data)
  /\ totalLevel' = IF chanData.ksl # data.ksl
                   THEN UpdateAttenuation(reg40, data) ELSE totalLevel
  /\ rates' = IF chanData.key # data.key
              THEN UpdateRates(rates, reg20, reg60, reg80, data) ELSE rates
  /\ UNCHANGED <<reg20, reg40, reg60, reg80, sustainLevel, envelope>>
-----------------------------------------------------------------------------
(* Keys.                                                                    *)

\* Mutant: every source restarts the envelope.
KeyOnRestarts(m) ==
  /\ keyOn' = keyOn \cup {m}
  /\ rateIndex' = 0
  /\ state' = "ATTACK"
  /\ UNCHANGED <<registers, caches, volume>>

KeyOn(m) ==
  /\ keyOn' = keyOn \cup {m}
  /\ \/ /\ keyOn = {}
        /\ rateIndex' = 0
        /\ state' = "ATTACK"
     \/ /\ keyOn # {}
        /\ UNCHANGED <<rateIndex, state>>
  /\ UNCHANGED <<registers, caches, volume>>

KeyOff(m) ==
  /\ keyOn' = keyOn \ {m}
  /\ state' = IF keyOn' = {} /\ state # "OFF" THEN "RELEASE" ELSE state
  /\ UNCHANGED <<registers, caches, volume, rateIndex>>
-----------------------------------------------------------------------------
(* One sample: ForwardVolume calls the TemplateVolume of the phase.         *)

\* RateForward: whole steps due after adding add, and the fraction that stays.
Steps(add)    == (rateIndex + add) \div RateUnit
Fraction(add) == (rateIndex + add) % RateUnit

\* vol += (~vol * change) >> 3, an arithmetic shift: rounds towards louder.
Attacked(change) == volume + ((-(volume + 1) * change) \div 8)

\* Mutant: the clamp at full level is missing.
AttackStepUnclamped ==
  /\ state = "ATTACK"
  /\ volume' = Attacked(Steps(rates.attackAdd))
  /\ rateIndex' = Fraction(rates.attackAdd)
  /\ state' = IF volume' <= 0 THEN "DECAY" ELSE state

AttackStep ==
  LET change == Steps(rates.attackAdd)
      vol    == Attacked(change)
  IN
  /\ state = "ATTACK"
  /\ \/ /\ change = 0
        /\ rateIndex' = Fraction(rates.attackAdd)
        /\ UNCHANGED <<volume, state>>
     \/ /\ change # 0 /\ vol >= 0
        /\ volume' = vol
        /\ rateIndex' = Fraction(rates.attackAdd)
        /\ UNCHANGED state
     \/ /\ change # 0 /\ vol < 0
        /\ volume' = 0
        /\ rateIndex' = 0
        /\ state' = "DECAY"

DecayStep ==
  LET vol == volume + Steps(rates.decayAdd) IN
  /\ state = "DECAY"
  /\ \/ /\ vol < sustainLevel
        /\ volume' = vol
        /\ rateIndex' = Fraction(rates.decayAdd)
        /\ UNCHANGED state
     \/ /\ vol >= sustainLevel /\ vol >= ENV_MAX
        /\ volume' = ENV_MAX
        /\ rateIndex' = Fraction(rates.decayAdd)
        /\ state' = "OFF"
     \/ /\ vol >= sustainLevel /\ vol < ENV_MAX
        /\ volume' = vol
        /\ rateIndex' = 0
        /\ state' = "SUSTAIN"

ReleaseStep ==
  LET vol == volume + Steps(rates.releaseAdd) IN
  /\ state = "RELEASE" \/ (state = "SUSTAIN" /\ ~reg20.sus)
  /\ rateIndex' = Fraction(rates.releaseAdd)
  /\ \/ /\ vol < ENV_MAX
        /\ volume' = vol
        /\ UNCHANGED state
     \/ /\ vol >= ENV_MAX
        /\ volume' = ENV_MAX
        /\ state' = "OFF"

\* An operator that is off, or sustains a held note, stays as it is.
HoldStep ==
  /\ state = "OFF" \/ (state = "SUSTAIN" /\ reg20.sus)
  /\ UNCHANGED <<volume, rateIndex, state>>

Sample ==
  /\ AttackStep \/ DecayStep \/ ReleaseStep \/ HoldStep
  /\ UNCHANGED <<registers, caches, keyOn>>

\* Mutant: only the level counts.
SilentByLevel == totalLevel + volume >= ENV_LIMIT

\* BlockTemplate skips a channel whose carrier is Silent.
Silent == totalLevel + volume >= ENV_LIMIT /\ state \in rates.zero
-----------------------------------------------------------------------------
Next ==
  \/ \E v \in Reg20 : Write20(v)
  \/ \E v \in Reg40 : Write40(v)
  \/ \E v \in Reg60 : Write60(v)
  \/ \E v \in Reg80 : Write80(v)
  \/ \E d \in ChanData : SetChanData(d)
  \/ \E m \in Source : KeyOn(m) \/ KeyOff(m)
  \/ Sample

Spec == Init /\ [][Next]_operatorVars

\* The mixer asks for samples for ever, and BlockTemplate plays every block
\* of a channel whose carrier is not Silent (dbopl.cpp:847-885).  Nobody is
\* obliged to write a register or move a key.
CarrierPlays == ~Silent /\ Sample

FairSpec == Spec /\ WF_operatorVars(CarrierPlays)
-----------------------------------------------------------------------------
RatesType ==
  [ksr : 0..15, attackAdd : 0..(8 * RateUnit), decayAdd : Nat,
   releaseAdd : Nat, zero : SUBSET State]

TypeOK ==
  /\ reg20 \in Reg20Type /\ reg40 \in Reg40Type
  /\ reg60 \in Reg60Type /\ reg80 \in Reg80Type
  /\ chanData \in ChanDataType
  /\ rates \in RatesType
  /\ wave \in [freq : 0..8191, mul : 0..15, vib : BOOLEAN]
  /\ totalLevel \in Nat /\ sustainLevel \in 0..496
  /\ keyOn \in SUBSET Source /\ state \in State
  /\ volume \in 0..ENV_MAX /\ rateIndex \in 0..(RateUnit - 1)

\* However the writes are ordered, the rates and the rateZero flags that the
\* handlers patch one at a time are those a full recomputation from the
\* registers would give.  The changes of ksr behind a KSR bit or a new
\* frequency, and the two handlers that share the SUSTAIN flag, are what
\* could leave one stale (dbopl.cpp:289-327, 361-374, 452-507).
RatesCoherent ==
  rates =
    [ksr        |-> KsrOf(reg20, chanData),
     attackAdd  |-> RateOf(attackRates, reg60.ar, KsrOf(reg20, chanData)),
     decayAdd   |-> RateOf(linearRates, reg60.dr, KsrOf(reg20, chanData)),
     releaseAdd |-> RateOf(linearRates, reg80.rr, KsrOf(reg20, chanData)),
     zero |-> {s \in State :
                 \/ s = "OFF"
                 \/ s = "ATTACK"  /\ reg60.ar = 0
                 \/ s = "DECAY"   /\ reg60.dr = 0
                 \/ s = "RELEASE" /\ reg80.rr = 0
                 \/ s = "SUSTAIN" /\ (reg20.sus \/ reg80.rr = 0)}]

\* The attenuation and the wave step are those of the current registers,
\* although each write updates only what it believes it changed
\* (dbopl.cpp:329-359, 452-482, 641-652).
SoundCoherent ==
  /\ totalLevel = UpdateAttenuation(reg40, chanData)
  /\ wave = UpdateFrequency(reg20, chanData)
  /\ sustainLevel = SustainOf(reg80)

\* What a sample of an operator that the skip leaves out would have changed.
StandsStill == UNCHANGED <<state, rateIndex>>
GoesOff     == volume = ENV_MAX /\ state' = "OFF"
EndsDecay   == state = "DECAY" /\ state' = "SUSTAIN" /\ volume >= sustainLevel

\* BlockTemplate does not generate the samples of a channel whose carriers are
\* Silent (dbopl.cpp:529-535, 847-885).  Such a sample would not have moved the
\* volume, whatever was written to the registers before, nor the phase, but in
\* two cases.  One is harmless: a note at the lowest volume would have gone off.
\* The other is not: a decay of rate zero whose volume is at the sustain level
\* or past it, as after a write to 60h or 80h, would have ended
\* (dbopl.cpp:402-414).  Skipped it does not, and a write to 40h that makes the
\* note loud again finds it still decaying.  The channel's other operators,
\* whose envelopes stop with the carriers', and the wave phases are outside
\* this property.
SkipKeepsEnvelope ==
  [][Silent /\ Sample =>
       volume' = volume /\ (StandsStill \/ GoesOff \/ EndsDecay)]_operatorVars

Contract == INSTANCE Envelope WITH MaxVolume <- ENV_MAX

\* A held or released voice is in a phase that fits, and OFF is silence.
KeyedState  == Contract!KeyedState
OffIsSilent == Contract!OffIsSilent

\* The operator implements the envelope contract.
EnvelopeContract == Contract!Spec

\* A note that is let go for good with a release rate that stays above zero
\* goes off in the end, for good: the skip of silent channels, the rateZero
\* flags and the fraction in rateIndex never freeze it on the way
\* (dbopl.cpp:415-428).
ReleaseEnds ==
  <>[](keyOn = {} /\ rates.releaseAdd > 0) => <>[](state = "OFF")

\* A held note with an attack rate leaves the attack phase and does not come
\* back to it while it is held (dbopl.cpp:390-401 and 550-562).
AttackEnds ==
  <>[](keyOn # {} /\ rates.attackAdd > 0) => <>[](state # "ATTACK")
=============================================================================
