----------------------------- MODULE ChipProofs -----------------------------
(***************************************************************************)
(* Theorems about Chip for every layout of channels and every program.     *)
(***************************************************************************)
EXTENDS Chip, TLAPS

LEMMA SynthOfType ==
  ASSUME TypeOK, NEW c \in Chan, NEW opl3 \in BOOLEAN, NEW rhythm \in BOOLEAN,
         NEW c0 \in [Chan -> [am : BOOLEAN, pan : SUBSET Speakers]]
  PROVE  SynthOf(c, c0, opl3, rhythm) \in SynthMode
  BY DEF SynthOf, FourOpSynth, TwoOpSynth, TypeOK, SynthMode, Mono, FourOp

LEMMA WidthType ==
  ASSUME NEW h \in SynthMode PROVE Width(h) \in 1..3
  BY DEF Width

LEMMA WithDrumsType ==
  ASSUME TypeOK, NEW keys
  PROVE  WithDrums(keys) \in [Chan -> [0..1 -> SUBSET {"chan", "drum"}]]
  BY DEF WithDrums, TypeOK

LEMMA TypeInit == Init => TypeOK
<1> SUFFICES ASSUME Init PROVE TypeOK
  OBVIOUS
<1>1. synthHandler \in [Chan -> SynthMode]
  BY DEF Init, SynthMode, Mono
<1>2. /\ regC0 \in [Chan -> [am : BOOLEAN, pan : SUBSET Speakers]]
      /\ mask \in [Chan -> SUBSET Speakers]
      /\ chanData \in [Chan -> [lo : Nat, hi : Nat]]
      /\ regBD \in [on : BOOLEAN, keys : SUBSET Drum]
  BY DEF Init
<1>3. keyOn \in [Chan -> [0..1 -> SUBSET {"chan", "drum"}]]
  BY DEF Init
<1> QED BY <1>1, <1>2, <1>3 DEF Init, TypeOK

LEMMA TypeNext ==
  ASSUME TypeOK, [Next]_chipVars
  PROVE  TypeOK'
<1> USE DEF modeVars, synthVars, keyVars, walkVars
<1>1. ASSUME NEW pairs \in SUBSET FourOpFirst, Write104(pairs) PROVE TypeOK'
  BY <1>1 DEF Write104, TypeOK
<1>2. ASSUME NEW on \in BOOLEAN, Write105(on) PROVE TypeOK'
  <2>1. synthHandler' \in [Chan -> SynthMode]
    BY <1>2, SynthOfType DEF Write105, TypeOK
  <2>2. mask' \in [Chan -> SUBSET Speakers]
    BY <1>2 DEF Write105, TypeOK
  <2> QED BY <1>2, <2>1, <2>2 DEF Write105, TypeOK
<1>3. ASSUME NEW c \in Played, NEW val \in C0Value, WriteC0(c, val) PROVE TypeOK'
  <2>1. c \in Chan /\ val \in [am : BOOLEAN, pan : SUBSET Speakers]
    BY InputAssumption
  <2>2. regC0' \in [Chan -> [am : BOOLEAN, pan : SUBSET Speakers]]
    BY <1>3, <2>1 DEF WriteC0, TypeOK
  <2>3. synthHandler' \in [Chan -> SynthMode]
    <3>1. \A d \in Chan : SynthOf(d, regC0', opl3Active, regBD.on) \in SynthMode
      BY <2>2, SynthOfType DEF TypeOK
    <3> QED BY <1>3, <3>1 DEF WriteC0, TypeOK
  <2>4. mask' \in [Chan -> SUBSET Speakers]
    BY <1>3, <2>1 DEF WriteC0, TypeOK
  <2> QED BY <1>3, <2>2, <2>3, <2>4 DEF WriteC0, TypeOK
<1>4. ASSUME NEW val \in BDValue, WriteBDRhythm(val) PROVE TypeOK'
  <2>1. synthHandler' \in [Chan -> SynthMode]
    BY <1>4 DEF WriteBDRhythm, TypeOK, SynthMode, Mono
  <2>2. keyOn' \in [Chan -> [0..1 -> SUBSET {"chan", "drum"}]]
    BY <1>4, WithDrumsType DEF WriteBDRhythm
  <2> QED BY <1>4, <2>1, <2>2, InputAssumption DEF WriteBDRhythm, TypeOK
<1>5. ASSUME NEW val \in BDValue, WriteBDMelodic(val) PROVE TypeOK'
  <2>1. DrumChan \in Chan
    BY LayoutAssumption DEF Chan
  <2>2. synthHandler' \in [Chan -> SynthMode]
    <3>1. SynthOf(DrumChan, regC0, opl3Active, FALSE) \in SynthMode
      BY <2>1, SynthOfType DEF TypeOK
    <3> QED BY <1>5, <2>1, <3>1 DEF WriteBDMelodic, TypeOK
  <2>3. mask' \in [Chan -> SUBSET Speakers]
    BY <1>5, <2>1 DEF WriteBDMelodic, TypeOK
  <2>4. keyOn' \in [Chan -> [0..1 -> SUBSET {"chan", "drum"}]]
    <3>1. WithDrums({}) \in [Chan -> [0..1 -> SUBSET {"chan", "drum"}]]
      BY WithDrumsType
    <3>2. keyOn' = WithDrums({}) \/ keyOn' = keyOn
      BY <1>5 DEF WriteBDMelodic
    <3> QED BY <3>1, <3>2 DEF TypeOK
  <2> QED BY <1>5, <2>2, <2>3, <2>4, InputAssumption DEF WriteBDMelodic, TypeOK
<1>6. ASSUME NEW c \in Played, NEW lo \in FreqLo, WriteA0(c, lo) PROVE TypeOK'
  <2>1. c \in Chan /\ lo \in Nat
    BY InputAssumption
  <2>2. chanData' \in [Chan -> [lo : Nat, hi : Nat]]
    BY <1>6, <2>1 DEF WriteA0, Forward, TypeOK
  <2> QED BY <1>6, <2>2 DEF WriteA0, TypeOK
<1>7. ASSUME NEW c \in Played, NEW hi \in FreqHi, NEW key \in BOOLEAN,
             WriteB0(c, hi, key)
      PROVE  TypeOK'
  <2>1. c \in Chan /\ hi \in Nat
    BY InputAssumption
  <2>2. chanData' \in [Chan -> [lo : Nat, hi : Nat]]
    <3>1. [chanData[c] EXCEPT !.hi = hi] \in [lo : Nat, hi : Nat]
      BY <2>1 DEF TypeOK
    <3>2. Forward(c, [chanData[c] EXCEPT !.hi = hi]) \in [Chan -> [lo : Nat, hi : Nat]]
      BY <3>1 DEF Forward, TypeOK
    <3> QED BY <1>7, <3>2 DEF WriteB0, TypeOK
  <2>3. keyOn' \in [Chan -> [0..1 -> SUBSET {"chan", "drum"}]]
    BY <1>7, <2>1 DEF WriteB0, TypeOK
  <2> QED BY <1>7, <2>1, <2>2, <2>3 DEF WriteB0, TypeOK
<1>8. CASE GenerateBlock
  BY <1>8 DEF GenerateBlock, TypeOK
<1>9. CASE PlayChannel
  <2>1. ch \in Chan
    BY <1>9, LayoutAssumption DEF PlayChannel, Limit, Chan, TypeOK
  <2>2. ch' \in Nat
    BY <1>9, <2>1, WidthType DEF PlayChannel, TypeOK
  <2> QED BY <1>9, <2>2 DEF PlayChannel, TypeOK
<1>10. CASE FinishBlock
  BY <1>10 DEF FinishBlock, TypeOK
<1>11. CASE UNCHANGED chipVars
  BY <1>11 DEF chipVars, TypeOK
<1> QED BY <1>1, <1>2, <1>3, <1>4, <1>5, <1>6, <1>7, <1>8, <1>9, <1>10, <1>11
        DEF Next

\* Every variable keeps its type.
THEOREM TypeCorrect == Spec => []TypeOK
<1> QED BY TypeInit, TypeNext, PTL DEF Spec
-----------------------------------------------------------------------------
(* Handlers.  What a write may do to the handler of one channel, said once   *)
(* for all the writes that choose one.                                       *)

LEMMA TwoOpAllowed ==
  ASSUME NEW c, NEW opl3, NEW rhythm, NEW am, ~(c = DrumChan /\ rhythm)
  PROVE  Allowed(c, TwoOpSynth(opl3, am), opl3, rhythm)
  BY DEF Allowed, TwoOpSynth, Percussion, FourOp

LEMMA FourOpAllowed ==
  ASSUME NEW c \in FourOpFirst, NEW rhythm, NEW am0, NEW am1
  PROVE  Allowed(c, FourOpSynth(am0, am1), TRUE, rhythm)
  BY LayoutAssumption DEF Allowed, FourOpSynth, Percussion, FourOp, Drums

\* The second channel of a pair is neither a first nor a drum.
LEMMA SecondFacts ==
  ASSUME NEW c \in Chan, c - 1 \in FourOpFirst
  PROVE  c \notin FourOpFirst /\ c \notin Drums
<1>1. (c - 1) + 1 = c
  BY LayoutAssumption DEF Chan
<1> QED BY <1>1, LayoutAssumption

\* The handler SynthOf chooses fits the mode it is chosen for: a channel
\* whose handler it keeps had one that fits either mode.
LEMMA SynthOfFits ==
  ASSUME TypeOK, HandlersFit, NEW c \in Chan, NEW c0, NEW opl3 \in BOOLEAN
  PROVE  Allowed(c, SynthOf(c, c0, opl3, regBD.on), opl3, regBD.on)
<1> DEFINE rhythm == regBD.on
<1>1. reg104 \subseteq FourOpFirst
  BY DEF TypeOK
<1>2. DrumChan \in Drums
  BY LayoutAssumption DEF Drums
<1>3. CASE opl3 /\ c \in reg104
  BY <1>1, <1>3, FourOpAllowed DEF SynthOf
<1>4. CASE ~(opl3 /\ c \in reg104) /\ opl3 /\ c - 1 \in reg104
  <2>1. SynthOf(c, c0, opl3, rhythm) = synthHandler[c]
    BY <1>4 DEF SynthOf
  <2>2. c \notin FourOpFirst /\ c # DrumChan
    BY <1>1, <1>2, <1>4, SecondFacts
  <2> QED BY <2>1, <2>2 DEF HandlersFit, Allowed
<1>5. CASE ~(opl3 /\ c \in reg104) /\ ~(opl3 /\ c - 1 \in reg104)
           /\ rhythm /\ c \in Drums
  <2>1. SynthOf(c, c0, opl3, rhythm) = synthHandler[c]
    BY <1>5 DEF SynthOf
  <2>2. c \notin FourOpFirst
    BY <1>5, LayoutAssumption
  <2> QED BY <1>5, <2>1, <2>2 DEF HandlersFit, Allowed
<1>6. CASE ~(opl3 /\ c \in reg104) /\ ~(opl3 /\ c - 1 \in reg104)
           /\ ~(rhythm /\ c \in Drums)
  <2>1. SynthOf(c, c0, opl3, rhythm) = TwoOpSynth(opl3, c0[c].am)
    BY <1>6 DEF SynthOf
  <2> QED BY <1>2, <1>6, <2>1, TwoOpAllowed
<1> QED BY <1>3, <1>4, <1>5, <1>6

LEMMA HandlersFitNext ==
  ASSUME TypeOK, HandlersFit, [Next]_chipVars
  PROVE  HandlersFit'
<1> USE DEF modeVars, synthVars, keyVars, walkVars
<1> DEFINE on == regBD.on
<1>0. on \in BOOLEAN /\ opl3Active \in BOOLEAN /\ DrumChan \in Chan
      /\ synthHandler \in [Chan -> SynthMode]
  BY LayoutAssumption DEF TypeOK, Chan
<1>1. ASSUME NEW pairs \in SUBSET FourOpFirst, Write104(pairs) PROVE HandlersFit'
  BY <1>1 DEF Write104, HandlersFit
<1>2. ASSUME NEW to \in BOOLEAN, Write105(to) PROVE HandlersFit'
  <2>1. \A c \in Chan : Allowed(c, SynthOf(c, regC0, to, on), to, on)
    BY <1>0, SynthOfFits
  <2> QED BY <1>2, <2>1 DEF Write105, HandlersFit
<1>3. ASSUME NEW c \in Played, NEW val \in C0Value, WriteC0(c, val) PROVE HandlersFit'
  <2>1. \A d \in Chan : Allowed(d, SynthOf(d, regC0', opl3Active, on), opl3Active, on)
    BY <1>0, SynthOfFits
  <2>2. \A d \in Chan : \/ synthHandler'[d] = synthHandler[d]
                        \/ synthHandler'[d] = SynthOf(d, regC0', opl3Active, on)
    BY <1>3 DEF WriteC0
  <2>3. UNCHANGED <<opl3Active, regBD>>
    BY <1>3 DEF WriteC0
  <2> QED BY <2>1, <2>2, <2>3 DEF HandlersFit
<1>4. ASSUME NEW val \in BDValue, WriteBDRhythm(val) PROVE HandlersFit'
  <2>1. regBD'.on /\ opl3Active' = opl3Active
    BY <1>4 DEF WriteBDRhythm
  <2>2. CASE regBD.on
    BY <1>4, <2>1, <2>2 DEF WriteBDRhythm, HandlersFit, Allowed
  <2>3. CASE ~regBD.on
    <3>1. \A c \in Chan \ {DrumChan} : synthHandler'[c] = synthHandler[c]
      BY <1>0, <1>4, <2>3 DEF WriteBDRhythm
    <3>2. synthHandler'[DrumChan] \in {"sm2Percussion", "sm3Percussion"}
      BY <1>0, <1>4, <2>3 DEF WriteBDRhythm
    <3>3. Allowed(DrumChan, synthHandler'[DrumChan], opl3Active, TRUE)
      BY <3>2 DEF Allowed, Percussion, FourOp
    <3>4. \A c \in Chan \ {DrumChan} : Allowed(c, synthHandler'[c], opl3Active, TRUE)
      BY <3>1, <2>3 DEF HandlersFit, Allowed
    <3> QED BY <2>1, <3>3, <3>4 DEF HandlersFit, Allowed
  <2> QED BY <2>2, <2>3
<1>5. ASSUME NEW val \in BDValue, WriteBDMelodic(val) PROVE HandlersFit'
  <2>1. ~regBD'.on /\ opl3Active' = opl3Active
    BY <1>5 DEF WriteBDMelodic
  <2>2. CASE ~regBD.on
    BY <1>5, <2>1, <2>2 DEF WriteBDMelodic, HandlersFit, Allowed
  <2>3. CASE regBD.on
    <3>1. \A c \in Chan \ {DrumChan} : synthHandler'[c] = synthHandler[c]
      BY <1>0, <1>5, <2>3 DEF WriteBDMelodic
    <3>2. synthHandler'[DrumChan] = TwoOpSynth(opl3Active, regC0[DrumChan].am)
      <4>1. DrumChan \notin reg104 /\ DrumChan - 1 \notin reg104
        BY <1>0, LayoutAssumption, SecondFacts DEF TypeOK, Drums
      <4> QED BY <1>0, <1>5, <2>3, <4>1 DEF WriteBDMelodic, SynthOf
    <3>3. Allowed(DrumChan, synthHandler'[DrumChan], opl3Active, FALSE)
      BY <3>2, TwoOpAllowed
    <3>4. \A c \in Chan \ {DrumChan} : Allowed(c, synthHandler'[c], opl3Active, FALSE)
      BY <3>1 DEF HandlersFit, Allowed
    <3> QED BY <2>1, <3>3, <3>4 DEF HandlersFit, Allowed
  <2> QED BY <2>2, <2>3
<1>6. ASSUME \/ \E c \in Played, lo \in FreqLo : WriteA0(c, lo)
             \/ \E c \in Played, hi \in FreqHi, key \in BOOLEAN : WriteB0(c, hi, key)
             \/ GenerateBlock \/ PlayChannel \/ FinishBlock \/ UNCHANGED chipVars
      PROVE  HandlersFit'
  BY <1>6 DEF WriteA0, WriteB0, GenerateBlock, PlayChannel, FinishBlock, chipVars,
              HandlersFit
<1> QED BY <1>1, <1>2, <1>3, <1>4, <1>5, <1>6 DEF Next

LEMMA HandlersFitInit == Init => HandlersFit
<1> SUFFICES ASSUME Init PROVE HandlersFit
  OBVIOUS
<1>1. \A c \in Chan : synthHandler[c] = TwoOpSynth(FALSE, FALSE)
  BY DEF Init, TwoOpSynth
<1>2. ~regBD.on /\ ~opl3Active
  BY DEF Init
<1> QED BY <1>1, <1>2 DEF HandlersFit, Allowed, TwoOpSynth, Percussion, FourOp

\* Percussion handlers sit on channel 6 exactly in rhythm mode, and
\* four-operator ones only on the first channel of a pair in opl3 mode.
THEOREM HandlersSafe == Spec => []HandlersFit
<1>1. TypeOK /\ HandlersFit /\ [Next]_chipVars => HandlersFit'
  BY HandlersFitNext
<1> QED BY <1>1, HandlersFitInit, TypeCorrect, PTL DEF Spec
-----------------------------------------------------------------------------
(* The C0 registers.                                                        *)

\* TRUE of a handler that follows the AM bit and the mode.
Follows(h, am, opl3) == /\ h \in AddsFirstTwo <=> am
                        /\ h \in Mono <=> ~opl3

\* The handler SynthOf chooses for a channel that is not lent follows its C0.
LEMMA SynthOfFollows ==
  ASSUME TypeOK, NEW c \in Chan, NEW opl3 \in BOOLEAN, NEW rhythm \in BOOLEAN,
         NEW c0 \in [Chan -> [am : BOOLEAN, pan : SUBSET Speakers]],
         ~(opl3 /\ c - 1 \in reg104), ~(rhythm /\ c \in Drums)
  PROVE  Follows(SynthOf(c, c0, opl3, rhythm), c0[c].am, opl3)
<1> USE DEF Follows, AddsFirstTwo, Mono
<1>1. c0[c].am \in BOOLEAN
  OBVIOUS
<1>2. CASE opl3 /\ c \in reg104
  BY <1>1, <1>2 DEF SynthOf, FourOpSynth
<1>3. CASE ~(opl3 /\ c \in reg104)
  <2>1. SynthOf(c, c0, opl3, rhythm) = TwoOpSynth(opl3, c0[c].am)
    BY <1>3 DEF SynthOf
  <2> QED BY <1>1, <2>1 DEF TwoOpSynth
<1> QED BY <1>2, <1>3

\* A channel of Restored is lent to rhythm mode only, as channel 6.
LEMMA RestoredFacts ==
  ASSUME TypeOK, NEW c \in Restored
  PROVE  c \in Chan /\ c - 1 \notin reg104 /\ (c \in Drums => c = DrumChan)
<1>1. c \in Chan /\ c \in Int
  BY DEF Restored, Chan
<1>2. (c - 1) + 1 = c
  BY <1>1
<1> QED BY <1>1, <1>2 DEF Restored, TypeOK

\* A step leaves a channel that is not lent after it sounding as its C0 says,
\* or as stale as it was.
LEMMA SoundStep ==
  ASSUME TypeOK, [Next]_chipVars, NEW c \in Chan, ~Lent(c)'
  PROVE  SoundsAsC0(c)' \/ UNCHANGED <<synthHandler[c], regC0[c], opl3Active, Lent(c)>>
                        \/ /\ UNCHANGED <<synthHandler[c], regC0[c], opl3Active>>
                           /\ c \notin Restored
<1> USE DEF modeVars, synthVars, keyVars, walkVars
<1>0. SoundsAsC0(c)' <=> Follows(synthHandler'[c], regC0'[c].am, opl3Active')
  BY DEF SoundsAsC0, Follows
<1>1. ASSUME NEW on \in BOOLEAN, Write105(on) PROVE SoundsAsC0(c)'
  <2>1. /\ synthHandler'[c] = SynthOf(c, regC0, on, regBD.on)
        /\ opl3Active' = on /\ regC0' = regC0 /\ reg104' = reg104 /\ regBD' = regBD
    BY <1>1 DEF Write105
  <2>2. ~(on /\ c - 1 \in reg104) /\ ~(regBD.on /\ c \in Drums)
    BY <2>1 DEF Lent, Muted
  <2>3. regC0 \in [Chan -> [am : BOOLEAN, pan : SUBSET Speakers]] /\ regBD.on \in BOOLEAN
    BY DEF TypeOK
  <2>4. Follows(SynthOf(c, regC0, on, regBD.on), regC0[c].am, on)
    BY <2>2, <2>3, SynthOfFollows
  <2> QED BY <1>0, <2>1, <2>4
<1>2. ASSUME NEW d \in Played, NEW val \in C0Value, WriteC0(d, val)
      PROVE  SoundsAsC0(c)' \/ UNCHANGED <<synthHandler[c], regC0[c], opl3Active, Lent(c)>>
  <2>1. regC0' \in [Chan -> [am : BOOLEAN, pan : SUBSET Speakers]]
    BY <1>2, InputAssumption DEF WriteC0, TypeOK
  <2>2. UNCHANGED <<opl3Active, reg104, regBD>> /\ opl3Active \in BOOLEAN
        /\ regBD.on \in BOOLEAN
    BY <1>2 DEF WriteC0, TypeOK
  <2>3. ~(opl3Active /\ c - 1 \in reg104) /\ ~(regBD.on /\ c \in Drums)
    BY <2>2 DEF Lent, Muted
  <2>4. CASE synthHandler'[c] = SynthOf(c, regC0', opl3Active, regBD.on)
    BY <1>0, <2>1, <2>2, <2>3, <2>4, SynthOfFollows
  <2>5. CASE synthHandler'[c] # SynthOf(c, regC0', opl3Active, regBD.on)
    <3>1. c # d /\ synthHandler'[c] = synthHandler[c]
      BY <1>2, <2>5 DEF WriteC0
    <3>2. regC0'[c] = regC0[c]
      BY <1>2, <3>1 DEF WriteC0, TypeOK
    <3> QED BY <2>2, <3>1, <3>2 DEF Lent, Muted
  <2> QED BY <2>4, <2>5
<1>3. ASSUME NEW pairs \in SUBSET FourOpFirst, Write104(pairs)
      PROVE  \/ UNCHANGED <<synthHandler[c], regC0[c], opl3Active, Lent(c)>>
             \/ /\ UNCHANGED <<synthHandler[c], regC0[c], opl3Active>>
                /\ c \notin Restored
  <2>1. UNCHANGED <<synthHandler, regC0, opl3Active, regBD>> /\ TypeOK'
    BY <1>3, TypeNext DEF Write104
  <2>2. CASE c \in Restored
    <3>1. c - 1 \notin reg104 /\ c - 1 \notin reg104'
      BY <2>1, <2>2, RestoredFacts, InputAssumption DEF Restored, TypeOK, Chan
    <3> QED BY <2>1, <3>1 DEF Lent, Muted
  <2> QED BY <2>1, <2>2
<1>4. ASSUME NEW val \in BDValue, WriteBDRhythm(val)
      PROVE  UNCHANGED <<synthHandler[c], regC0[c], opl3Active, Lent(c)>>
  <2>1. c \notin Drums /\ c # DrumChan
    BY <1>4, LayoutAssumption DEF WriteBDRhythm, Lent, Drums
  <2> QED BY <1>4, <2>1 DEF WriteBDRhythm, TypeOK, Lent, Muted
<1>5. ASSUME NEW val \in BDValue, WriteBDMelodic(val)
      PROVE  \/ SoundsAsC0(c)'
             \/ UNCHANGED <<synthHandler[c], regC0[c], opl3Active, Lent(c)>>
             \/ /\ UNCHANGED <<synthHandler[c], regC0[c], opl3Active>>
                /\ c \notin Restored
  <2>1. /\ UNCHANGED <<regC0, opl3Active, reg104>> /\ ~regBD'.on
        /\ regBD.on \in BOOLEAN /\ opl3Active \in BOOLEAN
    BY <1>5 DEF WriteBDMelodic, TypeOK
  <2>2. CASE c = DrumChan /\ regBD.on
    <3>1. synthHandler'[c] = SynthOf(c, regC0, opl3Active, FALSE)
      BY <1>5, <2>2 DEF WriteBDMelodic, TypeOK
    <3>2. ~(opl3Active /\ c - 1 \in reg104)
      BY <2>1 DEF Lent, Muted
    <3>3. Follows(SynthOf(c, regC0, opl3Active, FALSE), regC0[c].am, opl3Active)
      BY <2>1, <3>2, SynthOfFollows DEF TypeOK
    <3> QED BY <1>0, <2>1, <3>1, <3>3
  <2>3. CASE ~(c = DrumChan /\ regBD.on)
    <3>1. synthHandler'[c] = synthHandler[c]
      BY <1>5, <2>3 DEF WriteBDMelodic, TypeOK
    <3>2. CASE c \in Drums /\ regBD.on
      <4>1. c \notin Restored
        BY <2>3, <3>2, RestoredFacts
      <4> QED BY <2>1, <3>1, <4>1
    <3>3. CASE ~(c \in Drums /\ regBD.on)
      BY <2>1, <3>1, <3>3 DEF Lent, Muted
    <3> QED BY <3>2, <3>3
  <2> QED BY <2>2, <2>3
<1>6. ASSUME \/ \E d \in Played, lo \in FreqLo : WriteA0(d, lo)
             \/ \E d \in Played, hi \in FreqHi, key \in BOOLEAN : WriteB0(d, hi, key)
             \/ GenerateBlock \/ PlayChannel \/ FinishBlock \/ UNCHANGED chipVars
      PROVE  UNCHANGED <<synthHandler[c], regC0[c], opl3Active, Lent(c)>>
  <2>1. UNCHANGED <<synthHandler, regC0, opl3Active, reg104, regBD>>
    BY <1>6 DEF WriteA0, WriteB0, GenerateBlock, PlayChannel, FinishBlock, chipVars
  <2> QED BY <2>1 DEF Lent, Muted
<1> QED BY <1>1, <1>2, <1>3, <1>4, <1>5, <1>6 DEF Next

LEMMA SynthMatchesNext ==
  ASSUME TypeOK, SynthMatchesC0, [Next]_chipVars
  PROVE  SynthMatchesC0'
<1> SUFFICES ASSUME NEW c \in Restored, ~Lent(c)' PROVE SoundsAsC0(c)'
  BY DEF SynthMatchesC0, Restored
<1>1. c \in Chan
  BY DEF Restored
<1>2. SoundsAsC0(c)' \/ UNCHANGED <<synthHandler[c], regC0[c], opl3Active, Lent(c)>>
  BY <1>1, SoundStep
<1> QED BY <1>2 DEF SynthMatchesC0, SoundsAsC0

LEMMA PanMatchesNext ==
  ASSUME TypeOK, PanMatchesC0, [Next]_chipVars
  PROVE  PanMatchesC0'
<1> USE DEF modeVars, synthVars, keyVars, walkVars
<1>1. ASSUME NEW on \in BOOLEAN, Write105(on) PROVE PanMatchesC0'
  BY <1>1 DEF Write105, PanMatchesC0
<1>2. ASSUME NEW d \in Played, NEW val \in C0Value, WriteC0(d, val) PROVE PanMatchesC0'
  BY <1>2 DEF WriteC0, PanMatchesC0, TypeOK
<1>3. ASSUME NEW val \in BDValue, WriteBDRhythm(val) \/ WriteBDMelodic(val)
      PROVE  PanMatchesC0'
  BY <1>3 DEF WriteBDRhythm, WriteBDMelodic, PanMatchesC0, TypeOK
<1>4. ASSUME \/ \E pairs \in SUBSET FourOpFirst : Write104(pairs)
             \/ \E d \in Played, lo \in FreqLo : WriteA0(d, lo)
             \/ \E d \in Played, hi \in FreqHi, key \in BOOLEAN : WriteB0(d, hi, key)
             \/ GenerateBlock \/ PlayChannel \/ FinishBlock \/ UNCHANGED chipVars
      PROVE  PanMatchesC0'
  BY <1>4 DEF Write104, WriteA0, WriteB0, GenerateBlock, PlayChannel, FinishBlock,
              chipVars, PanMatchesC0
<1> QED BY <1>1, <1>2, <1>3, <1>4 DEF Next

\* What a step leaves on a channel that is not lent: the sound of its C0, or,
\* where nothing restores it, a handler that was stale before.
LEMMA SoundFollowsNext ==
  ASSUME TypeOK, SynthMatchesC0, PanMatchesC0, [Next]_chipVars
  PROVE  /\ PanMatchesC0'
         /\ \A c \in Chan : Lent(c)' \/ SoundsAsC0(c)' \/ StaysStale(c)
<1>1. PanMatchesC0' /\ SynthMatchesC0'
  BY SynthMatchesNext, PanMatchesNext
<1>2. ASSUME NEW c \in Chan, ~Lent(c)', ~SoundsAsC0(c)' PROVE StaysStale(c)
  <2>1. c \notin Restored
    BY <1>1, <1>2 DEF SynthMatchesC0, Restored
  <2>2. UNCHANGED <<synthHandler[c], regC0[c], opl3Active>>
    BY <1>2, SoundStep
  <2> QED BY <1>2, <2>1, <2>2 DEF StaysStale, SoundsAsC0
<1> QED BY <1>1, <1>2

LEMMA SoundInit == Init => SynthMatchesC0 /\ PanMatchesC0
  BY DEF Init, SynthMatchesC0, Restored, SoundsAsC0, PanMatchesC0, AddsFirstTwo, Mono

\* Every channel is panned as its C0 says.  Those that are never lent, and
\* channel 6 outside rhythm mode, have the handler their C0 asks for; any other
\* channel that is its own lacks it only from before it was given back until its
\* AM bit or panning, or the mode, changes next (Channel::WriteC0, Chip::WriteReg,
\* WriteBD).
THEOREM SoundSafe == Spec => [](SynthMatchesC0 /\ PanMatchesC0) /\ SoundFollowsC0
<1>1. TypeOK /\ SynthMatchesC0 /\ PanMatchesC0 /\ [Next]_chipVars
      => SynthMatchesC0' /\ PanMatchesC0'
  BY SynthMatchesNext, PanMatchesNext
<1>2. TypeOK /\ SynthMatchesC0 /\ PanMatchesC0 /\ [Next]_chipVars
      => [/\ PanMatchesC0'
          /\ \A c \in Chan : Lent(c)' \/ SoundsAsC0(c)' \/ StaysStale(c)]_chipVars
  BY SoundFollowsNext
<1> QED BY <1>1, <1>2, SoundInit, TypeCorrect, PTL DEF Spec, SoundFollowsC0
-----------------------------------------------------------------------------
(* The walk over the channels.                                              *)

\* One step of the walk, from a channel no earlier handler plays.
LEMMA StepStaysInBank ==
  ASSUME TypeOK, HandlersFit, WalkStaysInBank, PlayChannel
  PROVE  WalkStaysInBank'
<1> DEFINE h == synthHandler[ch]
<1>1. /\ ch \in Chan /\ ch \in Nat /\ ch < Limit
      /\ Limit \in Nat /\ DrumChan + 3 <= Limit /\ DrumChan \in Nat
  BY LayoutAssumption DEF PlayChannel, Limit, Chan, TypeOK
<1>2. UNCHANGED <<synthHandler, opl3Active>> /\ ch' = ch + Width(h)
  BY DEF PlayChannel, modeVars, synthVars
<1>3. \A c \in Chan : c \in Int
  BY DEF Chan
<1>4. \A c \in Chan : /\ synthHandler[c] \in Percussion => c = DrumChan
                      /\ synthHandler[c] \in FourOp => c \in FourOpFirst /\ opl3Active
  BY DEF HandlersFit, Allowed
<1>5. /\ \A c \in Chan : synthHandler[c] \in Percussion => ch \notin {c + 1, c + 2}
      /\ \A c \in Chan : synthHandler[c] \in FourOp => ch # c + 1
  BY DEF WalkStaysInBank
<1>6. \A f \in FourOpFirst :
        /\ f \in Int /\ f + 1 \notin FourOpFirst /\ f + 1 < NChan
        /\ f \notin DrumChan..(DrumChan + 2) /\ f + 1 \notin DrumChan..(DrumChan + 2)
  BY <1>3, LayoutAssumption DEF Chan, Drums
<1>7. SUFFICES /\ ch' <= Limit
               /\ \A c \in Chan : synthHandler[c] \in Percussion => ch' \notin {c + 1, c + 2}
               /\ \A c \in Chan : synthHandler[c] \in FourOp => ch' # c + 1
  BY <1>2 DEF WalkStaysInBank, Limit
<1>8. CASE h \in Percussion
  <2>1. ch = DrumChan /\ ch' = ch + 3
    BY <1>1, <1>2, <1>4, <1>8 DEF Width
  <2> QED BY <1>1, <1>3, <1>4, <1>6, <2>1
<1>9. CASE h \in FourOp /\ h \notin Percussion
  <2>1. ch \in FourOpFirst /\ opl3Active /\ ch' = ch + 2
    BY <1>1, <1>2, <1>4, <1>9 DEF Width
  <2>2. ch' <= Limit
    BY <1>1, <1>6, <2>1, LayoutAssumption DEF Limit
  <2> QED BY <1>1, <1>3, <1>4, <1>6, <2>1, <2>2
<1>10. CASE h \notin FourOp /\ h \notin Percussion
  <2>1. ch' = ch + 1
    BY <1>2, <1>10 DEF Width
  <2> QED BY <1>1, <1>3, <1>4, <1>5, <1>6, <1>10, <2>1
<1> QED BY <1>8, <1>9, <1>10

\* Writes happen between blocks, with the walk at rest before channel 0.
AtRest == generating \/ ch = 0

LEMMA WalkNext ==
  ASSUME TypeOK, HandlersFit, AtRest, WalkStaysInBank, [Next]_chipVars
  PROVE  AtRest' /\ WalkStaysInBank'
<1> USE DEF modeVars, synthVars, keyVars, walkVars
<1>1. \A c \in Chan : c \in Nat
  BY DEF Chan
<1>2. ASSUME ch' = 0 PROVE WalkStaysInBank'
  BY <1>1, <1>2, LayoutAssumption DEF WalkStaysInBank, Limit
<1>3. ASSUME UNCHANGED walkVars, ~generating PROVE AtRest' /\ WalkStaysInBank'
  BY <1>2, <1>3 DEF AtRest
<1>4. ASSUME \/ \E pairs \in SUBSET FourOpFirst : Write104(pairs)
             \/ \E on \in BOOLEAN : Write105(on)
             \/ \E c \in Played, val \in C0Value : WriteC0(c, val)
             \/ \E val \in BDValue : WriteBDRhythm(val) \/ WriteBDMelodic(val)
             \/ \E c \in Played, lo \in FreqLo : WriteA0(c, lo)
             \/ \E c \in Played, hi \in FreqHi, key \in BOOLEAN : WriteB0(c, hi, key)
      PROVE  UNCHANGED walkVars /\ ~generating
  BY <1>4 DEF Write104, Write105, WriteC0, WriteBDRhythm, WriteBDMelodic, WriteA0, WriteB0
<1>5. CASE GenerateBlock \/ FinishBlock
  BY <1>2, <1>5 DEF GenerateBlock, FinishBlock, AtRest
<1>6. CASE PlayChannel
  BY <1>6, StepStaysInBank DEF PlayChannel, AtRest
<1>7. CASE UNCHANGED chipVars
  BY <1>7 DEF chipVars, AtRest, WalkStaysInBank, Limit
<1> QED BY <1>3, <1>4, <1>5, <1>6, <1>7 DEF Next

\* No block runs past its bank or generates a channel twice.
THEOREM WalkSafe == Spec => []WalkStaysInBank
<1> DEFINE IInv == AtRest /\ WalkStaysInBank
<1>1. Init => IInv
  BY LayoutAssumption DEF Init, AtRest, WalkStaysInBank, Limit, Percussion, FourOp
<1>2. TypeOK /\ HandlersFit /\ IInv /\ [Next]_chipVars => IInv'
  BY WalkNext
<1> QED BY <1>1, <1>2, TypeCorrect, HandlersSafe, PTL DEF Spec
-----------------------------------------------------------------------------
(* Keys.                                                                    *)

\* The drum voices are operators of the three percussion channels.
LEMMA DrumKeysPlace ==
  ASSUME NEW keys \in SUBSET Drum, NEW c, NEW o, <<c, o>> \in DrumKeys(keys)
  PROVE  c \in Drums
<1>1. PICK d \in keys : <<c, o>> \in DrumOps(d)
  BY DEF DrumKeys
<1>2. c \in {DrumChan, DrumChan + 1, DrumChan + 2}
  BY <1>1 DEF DrumOps, Drum
<1> QED BY <1>2, LayoutAssumption DEF Drums

\* WithDrums moves the drum source to the given drums and no other source.
LEMMA WithDrumsMoves ==
  ASSUME TypeOK, DrumKeysFollowBD, NEW keys \in SUBSET Drum,
         NEW c \in Chan, NEW o \in 0..1
  PROVE  /\ "drum" \in WithDrums(keys)[c][o] <=> <<c, o>> \in DrumKeys(keys)
         /\ "chan" \in WithDrums(keys)[c][o] <=> "chan" \in keyOn[c][o]
<1>1. CASE c \in Drums
  BY <1>1 DEF WithDrums
<1>2. CASE c \notin Drums
  <2>1. WithDrums(keys)[c][o] = keyOn[c][o]
    BY <1>2 DEF WithDrums
  <2>2. <<c, o>> \notin DrumKeys(keys) /\ <<c, o>> \notin DrumKeys(regBD.keys)
    BY <1>2, DrumKeysPlace DEF TypeOK
  <2> QED BY <2>1, <2>2 DEF DrumKeysFollowBD
<1> QED BY <1>1, <1>2

\* What WriteB0 does to the keys: the drum source is left alone, and the
\* channel source of the voice it speaks for is set to the key bit.
LEMMA WriteB0Moves ==
  ASSUME TypeOK, NEW c \in Chan, NEW hi, NEW key \in BOOLEAN, WriteB0(c, hi, key),
         NEW d \in Chan, NEW o \in 0..1
  PROVE  /\ "drum" \in keyOn'[d][o] <=> "drum" \in keyOn[d][o]
         /\ "chan" \in keyOn'[d][o] <=>
              IF regB0[c] # key /\ d \in Voice(c) THEN key
              ELSE "chan" \in keyOn[d][o]
<1>1. CASE regB0[c] = key
  BY <1>1 DEF WriteB0
<1>2. CASE regB0[c] # key
  <2>1. keyOn'[d][o] = IF d \notin Voice(c) THEN keyOn[d][o]
                       ELSE IF key THEN keyOn[d][o] \cup {"chan"}
                       ELSE keyOn[d][o] \ {"chan"}
    BY <1>2 DEF WriteB0
  <2> QED BY <1>2, <2>1
<1> QED BY <1>1, <1>2

LEMMA DrumKeysNext ==
  ASSUME TypeOK, DrumKeysFollowBD, [Next]_chipVars
  PROVE  DrumKeysFollowBD'
<1> USE DEF modeVars, synthVars, keyVars, walkVars
<1>1. ASSUME NEW val \in BDValue, WriteBDRhythm(val) PROVE DrumKeysFollowBD'
  <2>1. val.keys \in SUBSET Drum /\ regBD' = val /\ val.on /\ keyOn' = WithDrums(val.keys)
    BY <1>1, InputAssumption DEF WriteBDRhythm
  <2> QED BY <2>1, WithDrumsMoves DEF DrumKeysFollowBD
<1>2. ASSUME NEW val \in BDValue, WriteBDMelodic(val) PROVE DrumKeysFollowBD'
  <2>1. regBD' = val /\ ~val.on
    BY <1>2 DEF WriteBDMelodic
  <2>2. CASE regBD.on
    <3>1. keyOn' = WithDrums({})
      BY <1>2, <2>2 DEF WriteBDMelodic
    <3>2. \A c, o : <<c, o>> \notin DrumKeys({})
      BY DEF DrumKeys
    <3> QED BY <2>1, <3>1, <3>2, WithDrumsMoves DEF DrumKeysFollowBD
  <2>3. CASE ~regBD.on
    BY <1>2, <2>1, <2>3 DEF WriteBDMelodic, DrumKeysFollowBD
  <2> QED BY <2>2, <2>3
<1>3. ASSUME NEW c \in Played, NEW hi \in FreqHi, NEW key \in BOOLEAN,
             WriteB0(c, hi, key)
      PROVE  DrumKeysFollowBD'
  <2>1. c \in Chan /\ regBD' = regBD
    BY <1>3, InputAssumption DEF WriteB0
  <2> QED BY <1>3, <2>1, WriteB0Moves DEF DrumKeysFollowBD
<1>4. ASSUME \/ \E pairs \in SUBSET FourOpFirst : Write104(pairs)
             \/ \E on \in BOOLEAN : Write105(on)
             \/ \E c \in Played, val \in C0Value : WriteC0(c, val)
             \/ \E c \in Played, lo \in FreqLo : WriteA0(c, lo)
             \/ GenerateBlock \/ PlayChannel \/ FinishBlock \/ UNCHANGED chipVars
      PROVE  DrumKeysFollowBD'
  BY <1>4 DEF Write104, Write105, WriteC0, WriteA0, GenerateBlock, PlayChannel,
              FinishBlock, chipVars, DrumKeysFollowBD
<1> QED BY <1>1, <1>2, <1>3, <1>4 DEF Next

\* A drum is held exactly when register 0xBD says so.
THEOREM DrumKeysSafe == Spec => []DrumKeysFollowBD
<1>1. Init => DrumKeysFollowBD
  BY DEF Init, DrumKeysFollowBD
<1>2. TypeOK /\ DrumKeysFollowBD /\ [Next]_chipVars => DrumKeysFollowBD'
  BY DrumKeysNext
<1> QED BY <1>1, <1>2, TypeCorrect, PTL DEF Spec

\* The second channel of a pair, muted or not, follows another.
LEMMA SecondFollows ==
  ASSUME TypeOK, NEW c \in Chan, Muted(c)
  PROVE  c - 1 \in Chan
BY LayoutAssumption DEF TypeOK, Muted

\* A change of modes alone moves a governor only to the other of the pair.
LEMMA SwapIsExcused ==
  ASSUME NEW c \in Chan, NEW o \in 0..1, UNCHANGED <<regB0, keyOn>>,
         Governed(c, o), ~Governed(c, o)'
  PROVE  Muted(c) # Muted(c)' /\ regB0[c - 1] # regB0[c]
<1>1. Governor(c) # Governor(c)' /\ regB0[Governor(c)] # regB0[Governor(c)']
  BY DEF Governed
<1> QED BY <1>1 DEF Governor

LEMMA GovernedStays ==
  ASSUME TypeOK, DrumKeysFollowBD, [Next]_chipVars, NEW c \in Chan, NEW o \in 0..1,
         Governed(c, o), ~Governed(c, o)'
  PROVE  Muted(c) # Muted(c)' /\ regB0[c - 1] # regB0[c]
<1> USE DEF modeVars, synthVars, keyVars, walkVars
<1>1. CASE \/ \E pairs \in SUBSET FourOpFirst : Write104(pairs)
           \/ \E on \in BOOLEAN : Write105(on)
  BY <1>1, SwapIsExcused DEF Write104, Write105
<1>2. ASSUME NEW d \in Played, NEW hi \in FreqHi, NEW key \in BOOLEAN,
             WriteB0(d, hi, key)
      PROVE  FALSE
  <2>1. /\ d \in Chan /\ ~Muted(d) /\ regB0' = [regB0 EXCEPT ![d] = key]
        /\ UNCHANGED <<opl3Active, reg104>>
    BY <1>2, InputAssumption DEF WriteB0
  <2>2. c \in Voice(d) <=> Governor(c) = d
    <3>1. d \in Int /\ c \in Int
      BY <2>1, LayoutAssumption DEF Chan
    <3> QED BY <2>1, <3>1 DEF Voice, Governor, Muted
  <2>3. Governor(c) \in Chan /\ Governor(c)' = Governor(c)
    BY <2>1, SecondFollows DEF Governor, Muted
  <2>4. "chan" \in keyOn'[c][o] <=> regB0'[Governor(c)]
    <3>1. "chan" \in keyOn[c][o] <=> regB0[Governor(c)]
      BY DEF Governed
    <3>2. regB0'[Governor(c)] = IF Governor(c) = d THEN key ELSE regB0[Governor(c)]
      BY <2>1, <2>3 DEF TypeOK
    <3> QED BY <1>2, <2>1, <2>2, <3>1, <3>2, WriteB0Moves DEF TypeOK
  <2> QED BY <2>3, <2>4 DEF Governed
<1>3. ASSUME NEW val \in BDValue, WriteBDRhythm(val) \/ WriteBDMelodic(val)
      PROVE  FALSE
  <2>1. val.keys \in SUBSET Drum /\ {} \in SUBSET Drum
    BY InputAssumption
  <2>2. \A d \in Chan, n \in 0..1 : "chan" \in keyOn'[d][n] <=> "chan" \in keyOn[d][n]
    BY <1>3, <2>1, WithDrumsMoves DEF WriteBDRhythm, WriteBDMelodic
  <2>3. UNCHANGED <<opl3Active, reg104, regB0>>
    BY <1>3 DEF WriteBDRhythm, WriteBDMelodic
  <2> QED BY <2>2, <2>3 DEF Governed, Governor, Muted
<1>4. ASSUME \/ \E d \in Played, val \in C0Value : WriteC0(d, val)
             \/ \E d \in Played, lo \in FreqLo : WriteA0(d, lo)
             \/ GenerateBlock \/ PlayChannel \/ FinishBlock \/ UNCHANGED chipVars
      PROVE  FALSE
  <2>1. UNCHANGED <<opl3Active, reg104, regB0, keyOn>>
    BY <1>4 DEF WriteC0, WriteA0, GenerateBlock, PlayChannel, FinishBlock, chipVars
  <2> QED BY <2>1 DEF Governed, Governor, Muted
<1> QED BY <1>1, <1>2, <1>3, <1>4 DEF Next

\* NoStuckNote: key bits and operators part only at a change of a pair's mode
\* with one of its two key bits set (Channel::WriteB0, Chip::WriteReg).
THEOREM NoNoteSticks == Spec => NoStuckNote
<1>1. TypeOK /\ DrumKeysFollowBD /\ [Next]_chipVars
      => [\A c \in Chan, o \in 0..1 :
            Governed(c, o) /\ ~Governed(c, o)'
              => Muted(c) # Muted(c)' /\ regB0[c - 1] # regB0[c]]_chipVars
  BY GovernedStays
<1> QED BY <1>1, TypeCorrect, DrumKeysSafe, PTL DEF Spec, NoStuckNote
-----------------------------------------------------------------------------
(* Pairs.                                                                   *)

\* A first channel speaks for the two of its pair, and no other channel that
\* is heard speaks for either.
LEMMA PairSpeaks ==
  ASSUME TypeOK, NEW f \in FourOpFirst, f \in reg104, opl3Active,
         NEW c \in Chan, ~Muted(c)
  PROVE  /\ f \in Chan /\ f + 1 \in Chan /\ Muted(f + 1)
         /\ f \in Voice(c) <=> c = f
         /\ f + 1 \in Voice(c) <=> c = f
<1>1. f \in Int /\ c \in Int /\ f \in Chan /\ f + 1 \in Chan
  BY LayoutAssumption DEF Chan
<1>2. (f + 1) - 1 = f /\ (f - 1) + 1 = f
  BY <1>1
<1>3. Muted(f + 1) /\ c # f + 1
  BY <1>2 DEF Muted
<1>4. f - 1 \notin FourOpFirst
  BY <1>2, LayoutAssumption
<1>5. c \in reg104 => c # f - 1
  BY <1>4 DEF TypeOK
<1>6. Voice(c) = {c} \/ (Voice(c) = {c, c + 1} /\ c \in reg104)
  BY DEF Voice
<1>7. Voice(f) = {f, f + 1}
  BY DEF Voice
<1> QED BY <1>1, <1>3, <1>5, <1>6, <1>7

LEMMA PairNext ==
  ASSUME TypeOK, DrumKeysFollowBD, [Next]_chipVars, NEW f \in FourOpFirst,
         f \in reg104, opl3Active, InStep(f)
  PROVE  InStep(f)'
<1> USE DEF modeVars, synthVars, keyVars, walkVars
<1>1. ASSUME NEW c \in Played, NEW lo \in FreqLo, WriteA0(c, lo) PROVE InStep(f)'
  <2>1. c \in Chan /\ ~Muted(c) /\ UNCHANGED <<regB0, keyOn>>
    BY <1>1, InputAssumption DEF WriteA0
  <2>2. chanData'[f + 1] = chanData'[f]
    <3>1. chanData' = Forward(c, [chanData[c] EXCEPT !.lo = lo])
      BY <1>1 DEF WriteA0
    <3>2. chanData[f + 1] = chanData[f]
      BY DEF InStep
    <3> QED BY <2>1, <3>1, <3>2, PairSpeaks DEF Forward
  <2> QED BY <2>1, <2>2 DEF InStep
<1>2. ASSUME NEW c \in Played, NEW hi \in FreqHi, NEW key \in BOOLEAN,
             WriteB0(c, hi, key)
      PROVE  InStep(f)'
  <2>1. c \in Chan /\ ~Muted(c) /\ regB0' = [regB0 EXCEPT ![c] = key]
    BY <1>2, InputAssumption DEF WriteB0
  <2>2. f \in Chan /\ f + 1 \in Chan
        /\ (f \in Voice(c) <=> c = f) /\ (f + 1 \in Voice(c) <=> c = f)
    BY <2>1, PairSpeaks
  <2>3. chanData'[f + 1] = chanData'[f]
    <3>1. \/ chanData' = chanData
          \/ chanData' = Forward(c, [chanData[c] EXCEPT !.hi = hi])
      BY <1>2 DEF WriteB0
    <3>2. chanData[f + 1] = chanData[f]
      BY DEF InStep
    <3> QED BY <2>2, <3>1, <3>2 DEF Forward
  <2>4. ASSUME NEW o \in 0..1 PROVE "chan" \in keyOn'[f + 1][o] <=> regB0'[f]
    <3>1. "chan" \in keyOn[f + 1][o] <=> regB0[f]
      BY DEF InStep
    <3>2. regB0'[f] = IF c = f THEN key ELSE regB0[f]
      BY <2>1, <2>2 DEF TypeOK
    <3>3. "chan" \in keyOn'[f + 1][o] <=>
            IF regB0[c] # key /\ c = f THEN key ELSE "chan" \in keyOn[f + 1][o]
      BY <1>2, <2>1, <2>2, WriteB0Moves
    <3> QED BY <3>1, <3>2, <3>3
  <2> QED BY <2>3, <2>4 DEF InStep
<1>3. ASSUME NEW val \in BDValue, WriteBDRhythm(val) \/ WriteBDMelodic(val)
      PROVE  InStep(f)'
  <2>1. val.keys \in SUBSET Drum /\ {} \in SUBSET Drum /\ f + 1 \in Chan
    BY InputAssumption, LayoutAssumption
  <2>2. \A o \in 0..1 : "chan" \in keyOn'[f + 1][o] <=> "chan" \in keyOn[f + 1][o]
    BY <1>3, <2>1, WithDrumsMoves DEF WriteBDRhythm, WriteBDMelodic
  <2>3. UNCHANGED <<chanData, regB0>>
    BY <1>3 DEF WriteBDRhythm, WriteBDMelodic
  <2> QED BY <2>2, <2>3 DEF InStep
<1>4. ASSUME \/ \E pairs \in SUBSET FourOpFirst : Write104(pairs)
             \/ \E on \in BOOLEAN : Write105(on)
             \/ \E c \in Played, val \in C0Value : WriteC0(c, val)
             \/ GenerateBlock \/ PlayChannel \/ FinishBlock \/ UNCHANGED chipVars
      PROVE  InStep(f)'
  BY <1>4 DEF Write104, Write105, WriteC0, GenerateBlock, PlayChannel, FinishBlock,
              chipVars, InStep
<1> QED BY <1>1, <1>2, <1>3, <1>4 DEF Next

\* A pair that sounds one note goes on doing so (Channel::WriteA0, WriteB0).
THEOREM PairsSafe == Spec => PairStaysInStep
<1>1. TypeOK /\ DrumKeysFollowBD /\ [Next]_chipVars
      => [\A f \in FourOpFirst :
            /\ f \in reg104 /\ f \in reg104' /\ opl3Active /\ opl3Active'
            /\ InStep(f)
            => InStep(f)']_chipVars
  BY PairNext
<1> QED BY <1>1, TypeCorrect, DrumKeysSafe, PTL DEF Spec, PairStaysInStep
=============================================================================
