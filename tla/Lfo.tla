-------------------------------- MODULE Lfo --------------------------------
(***************************************************************************)
(* The chip's low-frequency oscillator and its noise (opl/dbopl.cpp:       *)
(* 973-1021, 1026-1029, 1177-1218, 1417-1422).  A block of samples is      *)
(* played in chunks, each no longer than vibrato and tremolo stay as they  *)
(* are.  The noise is a shift register of which percussion takes one bit   *)
(* for each sample; it is kept as the set of its bits that are one.        *)
(***************************************************************************)
EXTENDS Integers

CONSTANTS
  LfoMax,          \* LFO_MAX, 256 << LFO_SH
  lfoAdd,          \* what a sample adds to the counters: 1 << LFO_SH, scaled
  VibratoTable,    \* eight times [shift, sign]
  TremoloHalf,     \* half of TREMOLO_TABLE, 26
  NoiseUnit,       \* 1 << LFO_SH, one step of the noise
  NoiseWrap,       \* WAVE_MASK + 1
  NoiseTop,        \* 23: the register has the bits below it
  Taps             \* the bits of 0x800302

VibratoSteps == 32
TremoloSteps == 2 * TremoloHalf

\* Any rate for which Setup's conversions leave lfoAdd in its range: above
\* 200 Hz or so.  The highest tap shifts into the register's highest bit.
ASSUME LfoAssumption ==
  /\ LfoMax \in Nat /\ lfoAdd \in 1..LfoMax
  /\ TremoloHalf \in Nat \ {0}
  /\ VibratoTable \in [0..7 -> [shift : 0..7, sign : {0, -1}]]
  /\ NoiseUnit \in Nat \ {0} /\ NoiseWrap \in Nat \ {0}
  /\ NoiseTop \in Nat \ {0} /\ Taps \subseteq 1..NoiseTop /\ NoiseTop \in Taps

VARIABLES
  lfoCounter, vibratoIndex, tremoloIndex,
  vibratoStrength, tremoloStrength,          \* shifts, from bits 6 and 7 of BDh
  vibratoSign, vibratoShift, tremoloValue,   \* what the operators are prepared with
  total, samples,                            \* left of the block; of the chunk
  noiseCounter, noiseValue, noiseCount       \* shifts left of a ForwardNoise

indices    == <<lfoCounter, vibratoIndex, tremoloIndex>>
strengths  == <<vibratoStrength, tremoloStrength>>
prepared   == <<vibratoSign, vibratoShift, tremoloValue>>
blockVars  == <<total, samples>>
noiseVars  == <<noiseCounter, noiseValue, noiseCount>>
lfoVars    == <<indices, strengths, prepared, blockVars, noiseVars>>

Min(a, b) == IF a < b THEN a ELSE b

\* A triangle of shifts: InitTables fills it from both ends.
TremoloTable == [i \in 0..(TremoloSteps - 1) |-> Min(i, TremoloSteps - 1 - i)]

\* As Setup leaves it before its first write.  The strengths are whatever the
\* memory held, and the values prepared are not read before the first chunk.
LfoInit ==
  /\ lfoCounter = 0 /\ vibratoIndex = 0 /\ tremoloIndex = 0
  /\ vibratoStrength \in {0, 1} /\ tremoloStrength \in {0, 2}
  /\ vibratoSign = 0 /\ vibratoShift = 0 /\ tremoloValue = 0
  /\ total = 0 /\ samples = 0
  /\ noiseCounter = 0 /\ noiseValue = {0} /\ noiseCount = 0

\* WriteBD: deep vibrato is unshifted, deep tremolo too.
WriteDepth(deepVibrato, deepTremolo) ==
  /\ total = 0
  /\ vibratoStrength' = IF deepVibrato THEN 0 ELSE 1
  /\ tremoloStrength' = IF deepTremolo THEN 0 ELSE 2
  /\ UNCHANGED <<indices, prepared, blockVars, noiseVars>>
-----------------------------------------------------------------------------
(* GenerateBlock2 and GenerateBlock3, as far as the oscillator goes.        *)

BeginBlock(n) ==
  /\ total = 0
  /\ total' = n
  /\ UNCHANGED <<indices, strengths, prepared, samples, noiseVars>>

\* Samples until the counter reaches LFO_MAX, rounded up; mutant: down.
UntilWrapFloor == (LfoMax - lfoCounter) \div lfoAdd
UntilWrap == (LfoMax - lfoCounter + lfoAdd - 1) \div lfoAdd

\* Mutant: a chunk that ends with the block does not wrap.
WrapsInBlockShort(n) == UntilWrap < n
WrapsInBlock(n) == UntilWrap <= n

Prepare ==
  /\ vibratoSign' = VibratoTable[vibratoIndex \div 4].sign
  /\ vibratoShift' = VibratoTable[vibratoIndex \div 4].shift + vibratoStrength
  /\ tremoloValue' = TremoloTable[tremoloIndex] \div 2^tremoloStrength

\* The chunk is the rest of the block: nothing changes in it.
ForwardLFOToEnd ==
  /\ total > 0 /\ samples = 0
  /\ ~WrapsInBlock(total)
  /\ Prepare
  /\ samples' = total
  /\ lfoCounter' = lfoCounter + total * lfoAdd
  /\ UNCHANGED <<vibratoIndex, tremoloIndex, strengths, total, noiseVars>>

\* The chunk ends where the counter wraps.
ForwardLFOToWrap ==
  /\ total > 0 /\ samples = 0
  /\ WrapsInBlock(total)
  /\ Prepare
  /\ samples' = UntilWrap
  /\ lfoCounter' = (lfoCounter + UntilWrap * lfoAdd) % LfoMax
  /\ vibratoIndex' = (vibratoIndex + 1) % VibratoSteps
  /\ tremoloIndex' = IF tremoloIndex + 1 < TremoloSteps THEN tremoloIndex + 1 ELSE 0
  /\ UNCHANGED <<strengths, total, noiseVars>>

ForwardLFO == ForwardLFOToEnd \/ ForwardLFOToWrap

\* The channels have played the chunk.
EndChunk ==
  /\ samples > 0 /\ noiseCount = 0
  /\ total' = total - samples
  /\ samples' = 0
  /\ UNCHANGED <<indices, strengths, prepared, noiseVars>>
-----------------------------------------------------------------------------
(* The noise.  The counter is not reduced by the steps that are taken.      *)

ForwardNoise ==
  /\ samples > 0 /\ noiseCount = 0
  /\ noiseCount' = (noiseCounter + lfoAdd) \div NoiseUnit
  /\ noiseCounter' = (noiseCounter + lfoAdd) % NoiseWrap
  /\ UNCHANGED <<indices, strengths, prepared, blockVars, noiseValue>>

\* Mutant: the low bit is fed back after the shift.
FedBackLate(v) ==
  LET w == {b - 1 : b \in v \ {0}}
  IN  IF 0 \in w THEN (w \ Taps) \cup (Taps \ w) ELSE w

FedBack(v) ==
  LET w == IF 0 \in v THEN (v \ Taps) \cup (Taps \ v) ELSE v
  IN  {b - 1 : b \in w \ {0}}

ShiftNoise ==
  /\ noiseCount > 0
  /\ noiseCount' = noiseCount - 1
  /\ noiseValue' = FedBack(noiseValue)
  /\ UNCHANGED <<indices, strengths, prepared, blockVars, noiseCounter>>

LfoNext ==
  \/ \E deepVibrato, deepTremolo \in BOOLEAN : WriteDepth(deepVibrato, deepTremolo)
  \/ \E n \in Nat : BeginBlock(n)
  \/ ForwardLFO \/ EndChunk
  \/ ForwardNoise \/ ShiftNoise

LfoSpec == LfoInit /\ [][LfoNext]_lfoVars
-----------------------------------------------------------------------------
LfoTypeOK ==
  /\ lfoCounter \in 0..(LfoMax - 1)
  /\ vibratoIndex \in 0..(VibratoSteps - 1)
  /\ tremoloIndex \in 0..(TremoloSteps - 1)
  /\ vibratoStrength \in {0, 1} /\ tremoloStrength \in {0, 2}
  /\ vibratoSign \in {0, -1} /\ vibratoShift \in 0..8
  /\ tremoloValue \in 0..(TremoloHalf - 1)
  /\ total \in Nat /\ samples \in 0..total
  /\ noiseCounter \in 0..(NoiseWrap - 1) /\ noiseCount \in Nat

\* The noise never runs dry: the shift register, whose highest tap lies just
\* above it, is never all zeros, from which no shift would bring it back
\* (dbopl.cpp:984-994).
NoiseNeverDies == noiseValue # {} /\ noiseValue \subseteq 0..(NoiseTop - 1)

\* Every sample is played with the vibrato and tremolo of its own moment,
\* whatever the blocks ask for (dbopl.cpp:996-1021): chunk by chunk, ForwardLFO
\* implements the clock that runs from sample to sample.
Clock == INSTANCE SampleClock WITH
  Max <- LfoMax, Add <- lfoAdd, Vibrato <- VibratoTable, Half <- TremoloHalf,
  clock <- lfoCounter, vibrato <- vibratoIndex, tremolo <- tremoloIndex,
  depth <- [vibrato |-> vibratoStrength, tremolo |-> tremoloStrength],
  played <- [sign |-> vibratoSign, shift |-> vibratoShift, level |-> tremoloValue]
LfoContract == Clock!Spec
=============================================================================
