-------------------------------- MODULE Chip --------------------------------
(***************************************************************************)
(* The chip's channels (struct Chip and struct Channel, opl/dbopl.h:158-246 *)
(* and opl/dbopl.cpp:629-1203): the mode registers 0x104, 0x105 and 0xBD,  *)
(* the synth handler each channel plays its block with, the frequency and  *)
(* key writes that a four-operator pair shares, and the walk over the      *)
(* channels that generates a block.                                        *)
(*                                                                         *)
(* Of an operator only keyOn, its set of key sources, is kept: Operator    *)
(* models the rest.  Channels are numbered as Chip::chan is, after the     *)
(* reordering of ChanOffsetTable that puts the two of a pair side by side. *)
(* Feedback and the tremolo and vibrato depths of 0xBD are data.           *)
(***************************************************************************)
EXTENDS Integers

CONSTANTS
  NChan,        \* channels of the chip: 18
  Opl2Chan,     \* channels generated in opl2 mode: 9
  FourOpFirst,  \* the channels whose fourMask names them the first of a pair
  DrumChan,     \* the first of the three percussion channels: 6
  Played,       \* the channels the program writes to
  FreqLo, FreqHi, C0Value, BDValue    \* the values it writes

Chan  == 0..(NChan - 1)
Drums == DrumChan..(DrumChan + 2)
Speakers == {"left", "right"}
Drum  == {"bass", "hihat", "snare", "tom", "cymbal"}

\* Chip::Setup's fourMask table (dbopl.cpp:1292-1311), of which only this is
\* used: pairs are disjoint, of one bank, and hold no drum.
ASSUME LayoutAssumption ==
  /\ NChan \in Nat /\ Opl2Chan \in 1..NChan
  /\ DrumChan \in Nat /\ DrumChan + 2 < Opl2Chan
  /\ FourOpFirst \subseteq Chan
  /\ \A f \in FourOpFirst :
       /\ f + 1 \in Chan /\ f + 1 \notin FourOpFirst
       /\ f \notin Drums /\ f + 1 \notin Drums
       /\ f + 1 # Opl2Chan

ASSUME InputAssumption ==
  /\ Played \subseteq Chan
  /\ FreqLo \subseteq Nat /\ FreqHi \subseteq Nat
  /\ C0Value \subseteq [am : BOOLEAN, pan : SUBSET Speakers]
  /\ BDValue \subseteq [on : BOOLEAN, keys : SUBSET Drum]

VARIABLES
  opl3Active, reg104, regBD,    \* mode registers; reg104: enabled pairs
  regC0, synthHandler, mask,    \* per channel: C0, handler, speakers let through
  regB0, chanData, keyOn,       \* per channel: key bit, frequency, keys of its ops
  generating, ch                \* inside GenerateBlock2 or 3, at channel ch

modeVars  == <<opl3Active, reg104, regBD>>
synthVars == <<regC0, synthHandler, mask>>
keyVars   == <<regB0, chanData, keyOn>>
walkVars  == <<generating, ch>>
chipVars  == <<modeVars, synthVars, keyVars, walkVars>>
-----------------------------------------------------------------------------
(* Synth handlers: the instances of BlockTemplate.                          *)

Mono       == {"sm2AM", "sm2FM", "sm2Percussion"}
FourOp     == {"sm3FMFM", "sm3AMFM", "sm3FMAM", "sm3AMAM"}
Percussion == {"sm2Percussion", "sm3Percussion"}
SynthMode  == Mono \cup FourOp \cup {"sm3AM", "sm3FM", "sm3Percussion"}

\* Mutant: a percussion handler steps over its own channel only.
WidthOfPercussionOne(h) == IF h \in FourOp THEN 2 ELSE 1

\* The channels a handler plays, and BlockTemplate's return value steps over.
Width(h) == IF h \in Percussion THEN 3 ELSE IF h \in FourOp THEN 2 ELSE 1

TwoOpSynth(opl3, am) ==
  IF opl3 THEN (IF am THEN "sm3AM" ELSE "sm3FM")
          ELSE (IF am THEN "sm2AM" ELSE "sm2FM")

\* Mutant: the AM bits of the two channels are swapped.
FourOpSynthSwapped(am0, am1) ==
  IF am1 THEN (IF am0 THEN "sm3AMAM" ELSE "sm3AMFM")
         ELSE (IF am0 THEN "sm3FMAM" ELSE "sm3FMFM")

\* Mutant: the marker that precedes the four-operator modes in the enum.
FourOpSynthOffByOne(am0, am1) ==
  IF am0 THEN (IF am1 THEN "sm3FMAM" ELSE "sm3FMFM")
         ELSE (IF am1 THEN "sm3AMFM" ELSE "sm4Start")

FourOpSynth(am0, am1) ==
  IF am0 THEN (IF am1 THEN "sm3AMAM" ELSE "sm3AMFM")
         ELSE (IF am1 THEN "sm3FMAM" ELSE "sm3FMFM")

\* Mutant: the test for a percussion channel in use is missing.
SynthOfIgnoresRhythm(c, c0, opl3, rhythm) ==
  IF opl3 /\ c \in reg104 THEN FourOpSynth(c0[c].am, c0[c + 1].am)
  ELSE IF opl3 /\ c - 1 \in reg104 THEN synthHandler[c]
  ELSE TwoOpSynth(opl3, c0[c].am)

\* The handler WriteC0 leaves on channel c: the first of an enabled pair
\* takes a four-operator one, the second and a drum in use keep theirs.
SynthOf(c, c0, opl3, rhythm) ==
  IF opl3 /\ c \in reg104 THEN FourOpSynth(c0[c].am, c0[c + 1].am)
  ELSE IF (opl3 /\ c - 1 \in reg104) \/ (rhythm /\ c \in Drums)
       THEN synthHandler[c]
  ELSE TwoOpSynth(opl3, c0[c].am)

\* Mutant: the second channel of a pair is not silenced.
MutedNever(c) == FALSE

\* fourOp > 0x80: the second of an enabled pair ignores key and frequency.
Muted(c) == opl3Active /\ c - 1 \in reg104

\* Mutant: the second channel is not told.
VoiceAlone(c) == {c}

\* fourOp & 0x3f: the first of an enabled pair speaks for both.
Voice(c) == IF opl3Active /\ c \in reg104 THEN {c, c + 1} ELSE {c}

\* The operators a drum key of 0xBD plays.
DrumOps(d) ==
  CASE d = "bass"   -> {<<DrumChan, 0>>, <<DrumChan, 1>>}
    [] d = "hihat"  -> {<<DrumChan + 1, 0>>}
    [] d = "snare"  -> {<<DrumChan + 1, 1>>}
    [] d = "tom"    -> {<<DrumChan + 2, 0>>}
    [] d = "cymbal" -> {<<DrumChan + 2, 1>>}

DrumKeys(keys) == UNION {DrumOps(d) : d \in keys}

\* The keys after the drum source has been moved to exactly the given drums.
WithDrums(keys) ==
  [c \in Chan |-> [o \in 0..1 |->
    IF c \notin Drums THEN keyOn[c][o]
    ELSE IF <<c, o>> \in DrumKeys(keys) THEN keyOn[c][o] \cup {"drum"}
    ELSE keyOn[c][o] \ {"drum"}]]
-----------------------------------------------------------------------------
(* The chip as Setup leaves it.                                             *)

Init ==
  /\ opl3Active = FALSE
  /\ reg104 = {}
  /\ regBD = [on |-> FALSE, keys |-> {}]
  /\ regC0 = [c \in Chan |-> [am |-> FALSE, pan |-> {}]]
  /\ synthHandler = [c \in Chan |-> "sm2FM"]
  /\ mask = [c \in Chan |-> {}]
  /\ regB0 = [c \in Chan |-> FALSE]
  /\ chanData = [c \in Chan |-> [lo |-> 0, hi |-> 0]]
  /\ keyOn = [c \in Chan |-> [o \in 0..1 |-> {}]]
  /\ generating = FALSE /\ ch = 0

Write104(pairs) ==
  /\ ~generating
  /\ reg104 # pairs
  /\ reg104' = pairs
  /\ UNCHANGED <<opl3Active, regBD, synthVars, keyVars, walkVars>>

\* Every channel rewrites its C0, ResetC0 having made the value look new.
Write105(on) ==
  /\ ~generating
  /\ opl3Active # on
  /\ opl3Active' = on
  /\ synthHandler' = [c \in Chan |-> SynthOf(c, regC0, on, regBD.on)]
  /\ mask' = IF on THEN [c \in Chan |-> regC0[c].pan] ELSE mask
  /\ UNCHANGED <<reg104, regBD, regC0, keyVars, walkVars>>

\* A write that changes feedback alone selects the handler again.
WriteC0(c, val) ==
  /\ ~generating
  /\ regC0' = [regC0 EXCEPT ![c] = val]
  /\ synthHandler' = [d \in Chan |->
       IF d = c \/ (d + 1 = c /\ Muted(c))
       THEN SynthOf(d, regC0', opl3Active, regBD.on) ELSE synthHandler[d]]
  /\ mask' = IF opl3Active THEN [mask EXCEPT ![c] = val.pan] ELSE mask
  /\ UNCHANGED <<modeVars, keyVars, walkVars>>

\* Rhythm mode on: the drum keys follow the register.
WriteBDRhythm(val) ==
  /\ ~generating
  /\ regBD # val /\ val.on
  /\ regBD' = val
  /\ synthHandler' = IF regBD.on THEN synthHandler
       ELSE [synthHandler EXCEPT ![DrumChan] =
               IF opl3Active THEN "sm3Percussion" ELSE "sm2Percussion"]
  /\ keyOn' = WithDrums(val.keys)
  /\ UNCHANGED <<opl3Active, reg104, regC0, mask, regB0, chanData, walkVars>>

\* Mutant: leaving rhythm mode restores the handler and forgets the keys.
WriteBDMelodicKeepsKeys(val) ==
  /\ ~generating
  /\ regBD # val /\ ~val.on
  /\ regBD' = val
  /\ synthHandler' = IF regBD.on
       THEN [synthHandler EXCEPT ![DrumChan] =
               SynthOf(DrumChan, regC0, opl3Active, FALSE)]
       ELSE synthHandler
  /\ UNCHANGED <<opl3Active, reg104, regC0, mask, keyOn, regB0, chanData, walkVars>>

\* Rhythm mode off: only a change of the bit resets channel 6 and the keys.
WriteBDMelodic(val) ==
  /\ ~generating
  /\ regBD # val /\ ~val.on
  /\ regBD' = val
  /\ IF regBD.on
     THEN /\ synthHandler' = [synthHandler EXCEPT ![DrumChan] =
                                SynthOf(DrumChan, regC0, opl3Active, FALSE)]
          /\ mask' = IF opl3Active
                     THEN [mask EXCEPT ![DrumChan] = regC0[DrumChan].pan] ELSE mask
          /\ keyOn' = WithDrums({})
     ELSE UNCHANGED <<synthHandler, mask, keyOn>>
  /\ UNCHANGED <<opl3Active, reg104, regC0, regB0, chanData, walkVars>>

\* SetChanData on the channel and, for the first of a pair, on the second.
Forward(c, data) ==
  [d \in Chan |-> IF d \in Voice(c) THEN data ELSE chanData[d]]

WriteA0(c, lo) ==
  /\ ~generating /\ ~Muted(c)
  /\ chanData[c].lo # lo
  /\ chanData' = Forward(c, [chanData[c] EXCEPT !.lo = lo])
  /\ UNCHANGED <<modeVars, synthVars, regB0, keyOn, walkVars>>

WriteB0(c, hi, key) ==
  /\ ~generating /\ ~Muted(c)
  /\ chanData' = IF chanData[c].hi = hi THEN chanData
                 ELSE Forward(c, [chanData[c] EXCEPT !.hi = hi])
  /\ regB0' = [regB0 EXCEPT ![c] = key]
  /\ keyOn' = IF regB0[c] = key THEN keyOn
              ELSE [d \in Chan |-> [o \in 0..1 |->
                     IF d \notin Voice(c) THEN keyOn[d][o]
                     ELSE IF key THEN keyOn[d][o] \cup {"chan"}
                     ELSE keyOn[d][o] \ {"chan"}]]
  /\ UNCHANGED <<modeVars, synthVars, walkVars>>
-----------------------------------------------------------------------------
(* GenerateBlock2 and GenerateBlock3: each handler returns the next channel. *)

Limit == IF opl3Active THEN NChan ELSE Opl2Chan

GenerateBlock ==
  /\ ~generating
  /\ generating' = TRUE /\ ch' = 0
  /\ UNCHANGED <<modeVars, synthVars, keyVars>>

PlayChannel ==
  /\ generating /\ ch < Limit
  /\ ch' = ch + Width(synthHandler[ch])
  /\ UNCHANGED <<modeVars, synthVars, keyVars, generating>>

FinishBlock ==
  /\ generating /\ ch >= Limit
  /\ generating' = FALSE /\ ch' = 0
  /\ UNCHANGED <<modeVars, synthVars, keyVars>>

Next ==
  \/ \E pairs \in SUBSET FourOpFirst : Write104(pairs)
  \/ \E on \in BOOLEAN : Write105(on)
  \/ \E c \in Played, val \in C0Value : WriteC0(c, val)
  \/ \E val \in BDValue : WriteBDRhythm(val) \/ WriteBDMelodic(val)
  \/ \E c \in Played, lo \in FreqLo : WriteA0(c, lo)
  \/ \E c \in Played, hi \in FreqHi, key \in BOOLEAN : WriteB0(c, hi, key)
  \/ GenerateBlock \/ PlayChannel \/ FinishBlock

Spec == Init /\ [][Next]_chipVars
-----------------------------------------------------------------------------
TypeOK ==
  /\ opl3Active \in BOOLEAN /\ reg104 \in SUBSET FourOpFirst
  /\ regBD \in [on : BOOLEAN, keys : SUBSET Drum]
  /\ regC0 \in [Chan -> [am : BOOLEAN, pan : SUBSET Speakers]]
  /\ synthHandler \in [Chan -> SynthMode]
  /\ mask \in [Chan -> SUBSET Speakers]
  /\ regB0 \in [Chan -> BOOLEAN]
  /\ chanData \in [Chan -> [lo : Nat, hi : Nat]]
  /\ keyOn \in [Chan -> [0..1 -> SUBSET {"chan", "drum"}]]
  /\ generating \in BOOLEAN /\ ch \in Nat

\* TRUE of a handler that channel c may have.
Allowed(c, h, opl3, rhythm) ==
  /\ h \in Percussion <=> (c = DrumChan /\ rhythm)
  /\ h \in FourOp => c \in FourOpFirst /\ opl3

\* Every handler fits its channel, whatever the C0 writes and mode switches in
\* between.  Channel 6 plays percussion exactly while rhythm mode is on: each
\* write must know that the handler is lent out (dbopl.cpp:762, 775, 1031-1040,
\* 1073-1076).  A four-operator handler sits on no channel but the first of a
\* pair, though a write to either installs it (dbopl.cpp:735-760), and on none
\* at all in opl2 mode.
HandlersFit == \A c \in Chan : Allowed(c, synthHandler[c], opl3Active, regBD.on)

\* The walk over the channels stays in the bank of the mode and never stops
\* on a channel that the handler of an earlier one plays, so that no operator
\* is generated twice or past the array (dbopl.cpp:951-968, 1183-1185,
\* 1197-1199).
WalkStaysInBank ==
  /\ ch <= Limit
  /\ \A c \in Chan : synthHandler[c] \in Percussion => ch \notin {c + 1, c + 2}
  /\ \A c \in Chan : synthHandler[c] \in FourOp => ch # c + 1

\* The channels whose handler the writes leave alone, because a pair or rhythm
\* mode has it: the second of an enabled pair, and the drums in rhythm mode.
Lent(c) == Muted(c) \/ (regBD.on /\ c \in Drums)

\* Channel c adds its first two operators exactly if the AM bit last written
\* says so, and is stereo exactly in opl3 mode.
AddsFirstTwo == {"sm2AM", "sm3AM", "sm3AMFM", "sm3AMAM"}
SoundsAsC0(c) ==
  /\ synthHandler[c] \in AddsFirstTwo <=> regC0[c].am
  /\ synthHandler[c] \in Mono <=> ~opl3Active

\* The channels that are never lent, and channel 6, which WriteBD resets when
\* rhythm mode gives it back.
Restored == Chan \ ((Drums \ {DrumChan}) \cup {f + 1 : f \in FourOpFirst})
SynthMatchesC0 == \A c \in Restored : Lent(c) \/ SoundsAsC0(c)

\* In opl3 mode every channel is panned as its C0 says, also one whose write
\* was made in opl2 mode or left the handler alone (dbopl.cpp:762-763).
PanMatchesC0 == opl3Active => \A c \in Chan : mask[c] = regC0[c].pan

\* A handler that was of another C0 or mode, and that nothing was written to.
StaysStale(c) ==
  c \notin Restored /\ ~SoundsAsC0(c) /\ UNCHANGED <<regC0[c], opl3Active>>

\* Panning follows C0 on every channel, and so does the handler, while the
\* channel is its own, on those of Restored.  On the others, 7, 8 and the second
\* channels, the code does fail: nothing rebuilds their handler when rhythm mode
\* or the pair gives them back (dbopl.cpp:735-760, 1071-1076, 1106-1111), and
\* they go on with the one of before, of the wrong mode or with the wrong first
\* two operators.  That is the only way: a channel that is not lent parts from
\* its C0 in no step, and the next change of its AM bit or panning, or of the
\* mode, puts it right (dbopl.cpp:720-790, 1114-1120).  Whether the other two
\* operators of a pair play too is outside this property: 104h alone changes no
\* handler.
SoundFollowsC0 ==
  [][/\ PanMatchesC0'
     /\ \A c \in Chan : Lent(c)' \/ SoundsAsC0(c)' \/ StaysStale(c)]_chipVars

\* A drum operator is held by rhythm mode exactly when the 0xBD register says
\* so: leaving rhythm mode releases them all, and channel keys do not
\* interfere (dbopl.cpp:1023-1083).
DrumKeysFollowBD ==
  \A c \in Chan, o \in 0..1 :
    "drum" \in keyOn[c][o] <=> (regBD.on /\ <<c, o>> \in DrumKeys(regBD.keys))

\* The channel whose key bit governs channel c.
Governor(c) == IF Muted(c) THEN c - 1 ELSE c

\* An operator held exactly while the key bit that governs it is set stays
\* so, but for a change of its pair's mode while only one of the two key bits
\* is set: nothing else makes a note stick or loses one.  That one change
\* does, as the source suspects (dbopl.cpp:32: "Keyon in 4op, switch to 2op
\* without keyoff").
Governed(c, o) == "chan" \in keyOn[c][o] <=> regB0[Governor(c)]
NoStuckNote ==
  [][\A c \in Chan, o \in 0..1 :
       Governed(c, o) /\ ~Governed(c, o)'
         => Muted(c) # Muted(c)' /\ regB0[c - 1] # regB0[c]]_chipVars

\* Two channels that sound the same note go on doing so for as long as they
\* stay a pair, whichever of the two the program writes to
\* (dbopl.cpp:659-718).
InStep(f) == /\ chanData[f + 1] = chanData[f]
             /\ \A o \in 0..1 : "chan" \in keyOn[f + 1][o] <=> regB0[f]

PairStaysInStep ==
  [][\A f \in FourOpFirst :
       /\ f \in reg104 /\ f \in reg104' /\ opl3Active /\ opl3Active'
       /\ InStep(f)
       => InStep(f)']_chipVars

\* The comment at dbopl.cpp:1117 says of a mode switch: "Update the 0xc0
\* register for all channels to signal the switch to mono/stereo handlers".
\* Stated of the channels the walk may play, second channels left out.
ModeSwitchReachesAllChannels ==
  [][opl3Active' # opl3Active =>
       \A c \in Chan : c - 1 \notin reg104 =>
         (synthHandler'[c] \in Mono <=> ~opl3Active')]_chipVars
=============================================================================
