---------------------------- MODULE HandlerProofs ----------------------------
(***************************************************************************)
(* Theorems about the oscillator, its noise and the whole chip, at every   *)
(* sample rate the code's conversions allow.  The oscillator is proved to  *)
(* implement the clock that runs from sample to sample, and the steps of   *)
(* the whole chip to be steps of the oscillator and of the channels, so    *)
(* that what is proved of those holds of it.                               *)
(***************************************************************************)
EXTENDS Handler, ChipProofs

-----------------------------------------------------------------------------
(* Arithmetic.                                                              *)

\* Division rounds down.
LEMMA Rounds ==
  ASSUME NEW m \in Nat, NEW d \in Nat \ {0}
  PROVE  /\ m \div d \in Nat
         /\ (m \div d) * d \in Nat
         /\ (m \div d) * d <= m /\ m < (m \div d) * d + d
<1>1. m \div d \in Nat /\ m % d \in 0..(d - 1) /\ m = d * (m \div d) + (m % d)
  OBVIOUS
<1>2. \A q \in Nat : d * q = q * d /\ q * d \in Nat
  OBVIOUS
<1> QED BY <1>1, <1>2

\* Below a second multiple, a division gives 0 or 1.
LEMMA FirstMultiple ==
  ASSUME NEW x \in Nat, NEW m \in Nat \ {0}
  PROVE  /\ x < m => x \div m = 0 /\ x % m = x
         /\ m <= x /\ x < 2 * m => x \div m = 1 /\ x % m = x - m
<1>1. x \div m \in Nat /\ x % m \in 0..(m - 1) /\ x = m * (x \div m) + (x % m)
  OBVIOUS
<1>2. ASSUME NEW q \in Nat, q >= 2 PROVE m * q \in Nat /\ m * q >= 2 * m
  BY <1>2
<1>3. m * 0 = 0 /\ m * 1 = m
  OBVIOUS
<1>4. ASSUME x < m PROVE x \div m = 0 /\ x % m = x
  <2>1. x \div m # 1
    BY <1>1, <1>3, <1>4
  <2>2. ~(x \div m >= 2)
    BY <1>1, <1>2, <1>4
  <2>3. x \div m = 0
    BY <1>1, <2>1, <2>2
  <2> QED BY <1>1, <1>3, <2>3
<1>5. ASSUME m <= x, x < 2 * m PROVE x \div m = 1 /\ x % m = x - m
  <2>1. x \div m # 0
    BY <1>1, <1>3, <1>5
  <2>2. ~(x \div m >= 2)
    BY <1>1, <1>2, <1>5
  <2>3. x \div m = 1
    BY <1>1, <2>1, <2>2
  <2> QED BY <1>1, <1>3, <2>3
<1> QED BY <1>4, <1>5

\* Fewer samples move the clock less.
LEMMA Slower ==
  ASSUME NEW j \in Nat, NEW k \in Nat, NEW a \in Nat, j <= k
  PROVE  j * a \in Nat /\ k * a \in Nat /\ j * a <= k * a
OBVIOUS
-----------------------------------------------------------------------------
(* The oscillator.                                                          *)

\* The chunk that ends at the wrap is not empty and is the shortest that
\* reaches it, and the counter wraps once in it.
LEMMA UntilWrapReaches ==
  ASSUME LfoTypeOK
  PROVE  /\ UntilWrap \in 1..LfoMax
         /\ \A k \in Nat : k < UntilWrap =>
              k * lfoAdd \in Nat /\ lfoCounter + k * lfoAdd < LfoMax
         /\ UntilWrap * lfoAdd \in Nat
         /\ LfoMax <= lfoCounter + UntilWrap * lfoAdd
         /\ lfoCounter + UntilWrap * lfoAdd < 2 * LfoMax
<1> DEFINE rest == LfoMax - lfoCounter
           u == UntilWrap
<1>1. /\ lfoCounter \in Nat /\ lfoAdd \in Nat \ {0} /\ LfoMax \in Nat
      /\ rest \in Nat /\ rest >= 1 /\ rest <= LfoMax /\ lfoAdd <= LfoMax
  BY LfoAssumption DEF LfoTypeOK
<1>2. rest + lfoAdd - 1 \in Nat
  BY <1>1
<1>3. /\ u \in Nat /\ u * lfoAdd \in Nat
      /\ u * lfoAdd <= rest + lfoAdd - 1
      /\ rest + lfoAdd - 1 < u * lfoAdd + lfoAdd
  <2> HIDE DEF rest
  <2>1. u = (rest + lfoAdd - 1) \div lfoAdd
    BY DEF UntilWrap, rest
  <2> QED BY <1>1, <1>2, <2>1, Rounds
<1>4. 0 * lfoAdd = 0
  BY <1>1
<1>5. u >= 1
  BY <1>1, <1>3, <1>4
<1>6. ASSUME NEW k \in Nat, k < u PROVE k * lfoAdd \in Nat /\ k * lfoAdd < rest
  <2>1. (k + 1) * lfoAdd = k * lfoAdd + lfoAdd /\ k * lfoAdd \in Nat
    BY <1>1
  <2>2. (k + 1) * lfoAdd <= u * lfoAdd
    BY <1>1, <1>3, <1>6, Slower
  <2> QED BY <1>1, <1>3, <2>1, <2>2
<1>7. u <= LfoMax
  <2>1. u - 1 \in Nat /\ u - 1 < u
    BY <1>3, <1>5
  <2>2. (u - 1) * lfoAdd < rest
    BY <1>6, <2>1
  <2>3. u - 1 <= (u - 1) * lfoAdd /\ (u - 1) * lfoAdd \in Nat
    BY <1>1, <2>1
  <2> QED BY <1>1, <1>3, <2>2, <2>3
<1>8. \A k \in Nat : k < u => k * lfoAdd \in Nat /\ lfoCounter + k * lfoAdd < LfoMax
  BY <1>1, <1>6
<1>9. LfoMax <= lfoCounter + u * lfoAdd /\ lfoCounter + u * lfoAdd < 2 * LfoMax
  BY <1>1, <1>3
<1> QED BY <1>3, <1>5, <1>7, <1>8, <1>9

\* What a chunk is prepared with has the range of the tables.
LEMMA PrepareType ==
  ASSUME LfoTypeOK, Prepare
  PROVE  /\ vibratoSign' \in {0, -1} /\ vibratoShift' \in 0..8
         /\ tremoloValue' \in 0..(TremoloHalf - 1)
<1>1. vibratoIndex \div 4 \in 0..7
  BY DEF LfoTypeOK, VibratoSteps
<1>2. VibratoTable[vibratoIndex \div 4] \in [shift : 0..7, sign : {0, -1}]
  BY <1>1, LfoAssumption
<1>3. vibratoSign' \in {0, -1} /\ vibratoShift' \in 0..8
  BY <1>2 DEF Prepare, LfoTypeOK
<1>4. TremoloTable[tremoloIndex] \in 0..(TremoloHalf - 1)
  BY LfoAssumption DEF TremoloTable, TremoloSteps, Min, LfoTypeOK
<1>5. 2^tremoloStrength \in {1, 4}
  <2>1. 2^0 = 1 /\ 2^2 = 4
    OBVIOUS
  <2> QED BY <2>1 DEF LfoTypeOK
<1>6. \A x \in 0..(TremoloHalf - 1) :
        x \div 1 \in 0..(TremoloHalf - 1) /\ x \div 4 \in 0..(TremoloHalf - 1)
  BY LfoAssumption
<1> QED BY <1>3, <1>4, <1>5, <1>6 DEF Prepare

LEMMA LfoTypeInit == LfoInit => LfoTypeOK
BY LfoAssumption DEF LfoInit, LfoTypeOK, VibratoSteps, TremoloSteps

LEMMA LfoTypeNext ==
  ASSUME LfoTypeOK, [LfoNext]_lfoVars
  PROVE  LfoTypeOK'
<1> USE DEF indices, strengths, prepared, blockVars, noiseVars
<1>0. /\ LfoMax \in Nat \ {0} /\ lfoAdd \in Nat /\ TremoloHalf \in Nat \ {0}
      /\ NoiseUnit \in Nat \ {0} /\ NoiseWrap \in Nat \ {0}
  BY LfoAssumption
<1>1. ASSUME NEW v \in BOOLEAN, NEW t \in BOOLEAN, WriteDepth(v, t) PROVE LfoTypeOK'
  BY <1>1 DEF WriteDepth, LfoTypeOK
<1>2. ASSUME NEW n \in Nat, BeginBlock(n) PROVE LfoTypeOK'
  BY <1>2 DEF BeginBlock, LfoTypeOK
<1>3. CASE ForwardLFOToEnd
  <2>1. lfoCounter' \in 0..(LfoMax - 1)
    <3>1. total \in Nat /\ total < UntilWrap
      BY <1>3, UntilWrapReaches DEF ForwardLFOToEnd, WrapsInBlock, LfoTypeOK
    <3>2. total * lfoAdd \in Nat /\ lfoCounter + total * lfoAdd < LfoMax
      BY <3>1, UntilWrapReaches
    <3> QED BY <1>0, <1>3, <3>2 DEF ForwardLFOToEnd, LfoTypeOK
  <2> QED BY <1>3, <2>1, PrepareType DEF ForwardLFOToEnd, LfoTypeOK
<1>4. CASE ForwardLFOToWrap
  <2>1. lfoCounter' \in 0..(LfoMax - 1)
    <3>1. lfoCounter + UntilWrap * lfoAdd \in Nat
      BY UntilWrapReaches DEF LfoTypeOK
    <3>2. \A x \in Nat : x % LfoMax \in 0..(LfoMax - 1)
      BY <1>0
    <3> QED BY <1>4, <3>1, <3>2 DEF ForwardLFOToWrap
  <2>2. samples' \in 0..total'
    BY <1>4, UntilWrapReaches DEF ForwardLFOToWrap, WrapsInBlock, LfoTypeOK
  <2>3. /\ vibratoIndex' \in 0..(VibratoSteps - 1)
        /\ tremoloIndex' \in 0..(TremoloSteps - 1)
    BY <1>0, <1>4 DEF ForwardLFOToWrap, LfoTypeOK, VibratoSteps, TremoloSteps
  <2> QED BY <1>4, <2>1, <2>2, <2>3, PrepareType DEF ForwardLFOToWrap, LfoTypeOK
<1>5. CASE EndChunk
  BY <1>5 DEF EndChunk, LfoTypeOK
<1>6. CASE ForwardNoise
  <2>1. noiseCounter + lfoAdd \in Nat
    BY <1>0 DEF LfoTypeOK
  <2>2. noiseCount' \in Nat
    BY <1>0, <1>6, <2>1, Rounds DEF ForwardNoise
  <2>3. noiseCounter' \in 0..(NoiseWrap - 1)
    BY <1>0, <1>6, <2>1 DEF ForwardNoise
  <2> QED BY <1>6, <2>2, <2>3 DEF ForwardNoise, LfoTypeOK
<1>7. CASE ShiftNoise
  BY <1>7 DEF ShiftNoise, LfoTypeOK
<1>8. CASE UNCHANGED lfoVars
  BY <1>8 DEF lfoVars, LfoTypeOK
<1> QED BY <1>1, <1>2, <1>3, <1>4, <1>5, <1>6, <1>7, <1>8 DEF LfoNext, ForwardLFO

\* The oscillator is well typed: no index leaves its table, at any rate.
THEOREM OscillatorTyped == LfoSpec => []LfoTypeOK
BY LfoTypeInit, LfoTypeNext, PTL DEF LfoSpec
-----------------------------------------------------------------------------
(* The noise.                                                               *)

LEMMA ShiftKeepsNoise ==
  ASSUME NEW v, v # {}, v \subseteq 0..(NoiseTop - 1)
  PROVE  FedBack(v) # {} /\ FedBack(v) \subseteq 0..(NoiseTop - 1)
<1> DEFINE w == IF 0 \in v THEN (v \ Taps) \cup (Taps \ v) ELSE v
<1>0. NoiseTop \in Nat \ {0} /\ Taps \subseteq 1..NoiseTop /\ NoiseTop \in Taps
  BY LfoAssumption
<1>1. w \subseteq 0..NoiseTop
  BY <1>0
<1>2. \E b \in w : b # 0
  <2>1. CASE 0 \in v
    <3>1. NoiseTop \in w /\ NoiseTop # 0
      BY <1>0, <2>1
    <3> QED BY <3>1
  <2>2. CASE 0 \notin v
    BY <2>2
  <2> QED BY <2>1, <2>2
<1>3. FedBack(v) = {b - 1 : b \in w \ {0}}
  BY DEF FedBack
<1>4. FedBack(v) # {}
  BY <1>2, <1>3
<1>5. FedBack(v) \subseteq 0..(NoiseTop - 1)
  BY <1>0, <1>1, <1>3
<1> QED BY <1>4, <1>5

LEMMA NoiseNext ==
  ASSUME NoiseNeverDies, [LfoNext]_lfoVars
  PROVE  NoiseNeverDies'
<1>1. CASE ShiftNoise
  BY <1>1, ShiftKeepsNoise DEF ShiftNoise, NoiseNeverDies
<1>2. ASSUME \/ \E v, t \in BOOLEAN : WriteDepth(v, t)
             \/ \E n \in Nat : BeginBlock(n)
             \/ ForwardLFO \/ EndChunk \/ ForwardNoise \/ UNCHANGED lfoVars
      PROVE  noiseValue' = noiseValue
  BY <1>2 DEF WriteDepth, BeginBlock, ForwardLFO, ForwardLFOToEnd, ForwardLFOToWrap,
              EndChunk, ForwardNoise, lfoVars, noiseVars
<1> QED BY <1>1, <1>2 DEF LfoNext, NoiseNeverDies

\* No number of shifts empties the noise register.
THEOREM NoiseAlive == LfoSpec => []NoiseNeverDies
<1>1. LfoInit => NoiseNeverDies
  BY LfoAssumption DEF LfoInit, NoiseNeverDies
<1>2. NoiseNeverDies /\ [LfoNext]_lfoVars => NoiseNeverDies'
  BY NoiseNext
<1> QED BY <1>1, <1>2, PTL DEF LfoSpec
-----------------------------------------------------------------------------
(* The oscillator implements the sample clock.                              *)

\* What a chunk is prepared with is the sound of the clock's moment.
LEMMA PreparedIsSound ==
  ASSUME LfoTypeOK, Prepare
  PROVE  [sign |-> vibratoSign', shift |-> vibratoShift', level |-> tremoloValue']
           = Clock!Sound
<1>1. tremoloIndex \in 0..(2 * TremoloHalf - 1) /\ TremoloHalf \in Nat \ {0}
  BY LfoAssumption DEF LfoTypeOK, TremoloSteps
<1>2. TremoloTable[tremoloIndex] = IF tremoloIndex < TremoloHalf THEN tremoloIndex
                                   ELSE 2 * TremoloHalf - 1 - tremoloIndex
  BY <1>1 DEF TremoloTable, TremoloSteps, Min
<1> QED BY <1>2 DEF Prepare, Clock!Sound

\* Inside the chunk that ForwardLFO prepares the clock does not wrap.
LEMMA ChunkToEnd ==
  ASSUME LfoTypeOK, ForwardLFOToEnd
  PROVE  total \in 1..LfoMax /\ Clock!Play(total)
<1> USE DEF indices, strengths, prepared, blockVars, noiseVars
<1>0. LfoMax \in Nat \ {0} /\ lfoCounter \in Nat /\ lfoAdd \in Nat
  BY LfoAssumption DEF LfoTypeOK
<1>1. total \in Nat \ {0} /\ total < UntilWrap /\ total \in 1..LfoMax
  <2>1. UntilWrap \in 1..LfoMax
    BY UntilWrapReaches
  <2>2. total \in Nat /\ total > 0 /\ ~(UntilWrap <= total)
    BY DEF ForwardLFOToEnd, WrapsInBlock, LfoTypeOK
  <2> QED BY <1>0, <2>1, <2>2
<1>2. /\ total * lfoAdd \in Nat /\ lfoCounter + total * lfoAdd < LfoMax
      /\ (total - 1) * lfoAdd \in Nat /\ lfoCounter + (total - 1) * lfoAdd < LfoMax
  <2>1. total - 1 \in Nat /\ total - 1 < UntilWrap
    BY <1>1, UntilWrapReaches
  <2> QED BY <1>1, <2>1, UntilWrapReaches
<1>3. /\ (lfoCounter + total * lfoAdd) \div LfoMax = 0
      /\ (lfoCounter + total * lfoAdd) % LfoMax = lfoCounter + total * lfoAdd
      /\ (lfoCounter + (total - 1) * lfoAdd) \div LfoMax = 0
  <2> DEFINE last == (total - 1) * lfoAdd
             all == total * lfoAdd
  <2>1. /\ lfoCounter + all \in Nat /\ lfoCounter + all < LfoMax
        /\ lfoCounter + last \in Nat /\ lfoCounter + last < LfoMax
    BY <1>0, <1>2
  <2> HIDE DEF last, all
  <2>2. /\ (lfoCounter + all) \div LfoMax = 0
        /\ (lfoCounter + all) % LfoMax = lfoCounter + all
        /\ (lfoCounter + last) \div LfoMax = 0
    BY <1>0, <2>1, FirstMultiple
  <2> QED BY <2>2 DEF last, all
<1>4. Clock!Wraps(total - 1) = 0 /\ Clock!Wraps(total) = 0
  BY <1>3 DEF Clock!Wraps
<1>5. lfoCounter' = (lfoCounter + total * lfoAdd) % LfoMax
  BY <1>3 DEF ForwardLFOToEnd
<1>6. /\ vibratoIndex' = (vibratoIndex + 0) % 32
      /\ tremoloIndex' = (tremoloIndex + 0) % (2 * TremoloHalf)
  <2>1. /\ vibratoIndex \in Nat /\ vibratoIndex < 32
        /\ tremoloIndex \in Nat /\ tremoloIndex < 2 * TremoloHalf
        /\ 2 * TremoloHalf \in Nat \ {0} /\ 32 \in Nat \ {0}
    BY LfoAssumption DEF LfoTypeOK, VibratoSteps, TremoloSteps
  <2>2. vibratoIndex % 32 = vibratoIndex
    BY <2>1, FirstMultiple
  <2>3. tremoloIndex % (2 * TremoloHalf) = tremoloIndex
    BY <2>1, FirstMultiple
  <2> QED BY <2>1, <2>2, <2>3 DEF ForwardLFOToEnd
<1>7. Prepare /\ UNCHANGED strengths
  BY DEF ForwardLFOToEnd
<1> QED BY <1>1, <1>4, <1>5, <1>6, <1>7, PreparedIsSound DEF Clock!Play

\* The chunk that ends where the counter wraps holds the wrap in its last
\* sample.
LEMMA ChunkToWrap ==
  ASSUME LfoTypeOK, ForwardLFOToWrap
  PROVE  UntilWrap \in 1..LfoMax /\ Clock!Play(UntilWrap)
<1> USE DEF indices, strengths, prepared, blockVars, noiseVars
<1> DEFINE u == UntilWrap
<1>0. LfoMax \in Nat \ {0} /\ lfoCounter \in Nat /\ lfoAdd \in Nat
  BY LfoAssumption DEF LfoTypeOK
<1>1. /\ u \in 1..LfoMax /\ u * lfoAdd \in Nat
      /\ LfoMax <= lfoCounter + u * lfoAdd
      /\ lfoCounter + u * lfoAdd < 2 * LfoMax
  BY UntilWrapReaches
<1>2. (u - 1) * lfoAdd \in Nat /\ lfoCounter + (u - 1) * lfoAdd < LfoMax
  <2>1. u - 1 \in Nat /\ u - 1 < u
    BY <1>1
  <2> QED BY <2>1, UntilWrapReaches
<1>3. (lfoCounter + u * lfoAdd) \div LfoMax = 1
  <2> HIDE DEF u
  <2> QED BY <1>0, <1>1, FirstMultiple
<1>4. (lfoCounter + (u - 1) * lfoAdd) \div LfoMax = 0
  <2> HIDE DEF u
  <2> QED BY <1>0, <1>2, FirstMultiple
<1>5. Clock!Wraps(u - 1) = 0 /\ Clock!Wraps(u) = 1
  BY <1>3, <1>4 DEF Clock!Wraps
<1>6. lfoCounter' = (lfoCounter + u * lfoAdd) % LfoMax
  BY DEF ForwardLFOToWrap
<1>7. /\ vibratoIndex' = (vibratoIndex + 1) % 32
      /\ tremoloIndex' = (tremoloIndex + 1) % (2 * TremoloHalf)
  <2>1. vibratoIndex' = (vibratoIndex + 1) % 32
    BY DEF ForwardLFOToWrap, VibratoSteps
  <2>2. /\ tremoloIndex \in Nat /\ tremoloIndex < 2 * TremoloHalf
        /\ 2 * TremoloHalf \in Nat \ {0}
    BY LfoAssumption DEF LfoTypeOK, TremoloSteps
  <2>3. tremoloIndex' = IF tremoloIndex + 1 < 2 * TremoloHalf THEN tremoloIndex + 1 ELSE 0
    BY DEF ForwardLFOToWrap, TremoloSteps
  <2>4. tremoloIndex + 1 < 2 * TremoloHalf =>
          (tremoloIndex + 1) % (2 * TremoloHalf) = tremoloIndex + 1
    BY <2>2, FirstMultiple
  <2>5. tremoloIndex + 1 = 2 * TremoloHalf => (tremoloIndex + 1) % (2 * TremoloHalf) = 0
    BY <2>2, FirstMultiple
  <2> QED BY <2>1, <2>2, <2>3, <2>4, <2>5
<1>8. Prepare /\ UNCHANGED strengths
  BY DEF ForwardLFOToWrap
<1> QED BY <1>1, <1>5, <1>6, <1>7, <1>8, PreparedIsSound DEF Clock!Play

LEMMA ClockInit == LfoInit => Clock!Init
BY DEF LfoInit, Clock!Init

LEMMA ClockNext ==
  ASSUME LfoTypeOK, [LfoNext]_lfoVars
  PROVE  [Clock!Next]_Clock!clockVars
<1> USE DEF indices, strengths, prepared, blockVars, noiseVars
<1>1. ASSUME NEW v \in BOOLEAN, NEW t \in BOOLEAN, WriteDepth(v, t)
      PROVE  Clock!SetDepth
  BY <1>1 DEF WriteDepth, Clock!SetDepth
<1>2. CASE ForwardLFOToEnd
  BY <1>2, ChunkToEnd DEF Clock!Next
<1>3. CASE ForwardLFOToWrap
  BY <1>3, ChunkToWrap DEF Clock!Next
<1>4. ASSUME \/ \E n \in Nat : BeginBlock(n)
             \/ EndChunk \/ ForwardNoise \/ ShiftNoise \/ UNCHANGED lfoVars
      PROVE  UNCHANGED Clock!clockVars
  BY <1>4 DEF BeginBlock, EndChunk, ForwardNoise, ShiftNoise, lfoVars,
              Clock!clockVars
<1> QED BY <1>1, <1>2, <1>3, <1>4 DEF LfoNext, ForwardLFO, Clock!Next

\* Every sample has the vibrato and tremolo of its moment, however blocks are
\* cut: the oscillator implements the clock (Chip::ForwardLFO).
THEOREM ImplementsClock == LfoSpec => LfoContract
<1>1. LfoTypeOK /\ [LfoNext]_lfoVars => [Clock!Next]_Clock!clockVars
  BY ClockNext
<1> QED BY <1>1, ClockInit, OscillatorTyped, PTL DEF LfoSpec, LfoContract, Clock!Spec
-----------------------------------------------------------------------------
(* What WriteReg decodes is what the channels take.                         *)

LEMMA ChanAtIsChan ==
  ASSUME NEW i \in Nat
  PROVE  ChanAt(i) \subseteq Chan
<1> DEFINE index == i % 16
           place == IF index < 6 THEN (index % 3) * 2 + (index \div 3) ELSE index
<1>1. index \in 0..15
  OBVIOUS
<1>2. index < 9 => place \in 0..8
  <2> HIDE DEF index
  <2> QED BY <1>1
<1>3. ChanAt(i) = IF index >= 9 THEN {} ELSE {place + (IF i >= 16 THEN 9 ELSE 0)}
  BY DEF ChanAt
<1> HIDE DEF index, place
<1> QED BY <1>1, <1>2, <1>3, HandlerAssumption DEF Chan

LEMMA DecodedValues ==
  ASSUME NEW val \in Byte
  PROVE  /\ Pairs(val) \in SUBSET FourOpFirst
         /\ C0Of(val) \in C0Value /\ BDOf(val) \in BDValue
         /\ val % 32 \in FreqHi /\ val \in FreqLo
<1>1. Pairs(val) \in SUBSET FourOpFirst
  <2>1. \A n \in 0..5 : PairOfBit(n) \in {0, 2, 4, 9, 11, 13}
    BY DEF PairOfBit
  <2> QED BY <2>1, HandlerAssumption DEF Pairs
<1>2. C0Of(val) \in C0Value
  <2>1. Bit(val, 0) \in BOOLEAN
    BY DEF Bit
  <2>2. (IF Bit(val, 4) THEN {"left"} ELSE {}) \cup (IF Bit(val, 5) THEN {"right"} ELSE {})
          \in SUBSET Speakers
    BY DEF Speakers
  <2> QED BY <2>1, <2>2, HandlerAssumption DEF C0Of
<1>3. BDOf(val) \in BDValue
  <2>1. Bit(val, 5) \in BOOLEAN
    BY DEF Bit
  <2>2. /\ DrumOfBit[1] \in Drum /\ DrumOfBit[2] \in Drum /\ DrumOfBit[3] \in Drum
        /\ DrumOfBit[4] \in Drum /\ DrumOfBit[5] \in Drum
    BY DEF DrumOfBit, Drum
  <2>3. \A n \in 1..5 : DrumOfBit[n] \in Drum
    <3>1. \A n \in 1..5 : n = 1 \/ n = 2 \/ n = 3 \/ n = 4 \/ n = 5
      OBVIOUS
    <3> QED BY <2>2, <3>1
  <2> QED BY <2>1, <2>3, HandlerAssumption DEF BDOf
<1>4. val % 32 \in FreqHi /\ val \in FreqLo
  BY HandlerAssumption DEF Byte
<1> QED BY <1>1, <1>2, <1>3, <1>4

\* A write to any register is a step of the channels, of the depths, or both.
LEMMA WriteRegSteps ==
  ASSUME NEW r \in Nat, NEW val \in Byte, WriteReg(r, val)
  PROVE  [Next]_chipVars /\ [LfoNext]_lfoVars
<1>1. CASE OfChip(r) /\ WriteMode(r, val) /\ UNCHANGED lfoVars
  <2>1. CASE UNCHANGED chipVars
    BY <1>1, <2>1
  <2>2. CASE Write104(Pairs(val))
    BY <1>1, <2>2, DecodedValues DEF Next
  <2>3. CASE Write105(Bit(val, 0))
    BY <1>1, <2>3 DEF Next, Bit
  <2> QED BY <1>1, <2>1, <2>2, <2>3 DEF WriteMode
<1>2. CASE OfRhythm(r) /\ WriteBD(val)
  <2>1. [LfoNext]_lfoVars
    BY <1>2 DEF WriteBD, LfoNext, Bit
  <2>2. \/ UNCHANGED chipVars
        \/ WriteBDRhythm(BDOf(val)) \/ WriteBDMelodic(BDOf(val))
    BY <1>2 DEF WriteBD
  <2> QED BY <2>1, <2>2, DecodedValues DEF Next
<1>3. CASE OfChannel(r) /\ WriteChan(r, val) /\ UNCHANGED lfoVars
  <2>1. RegChan(r) \subseteq Played
    <3>1. (r \div 256) * 16 + (r % 16) \in Nat
      OBVIOUS
    <3> QED BY <3>1, ChanAtIsChan, HandlerAssumption DEF RegChan
  <2>2. PICK c \in RegChan(r) :
          CASE (r \div 16) % 16 = 10 ->
                 IF Muted(c) \/ chanData[c].lo = val THEN UNCHANGED chipVars
                 ELSE WriteA0(c, val)
            [] (r \div 16) % 16 = 11 ->
                 IF Muted(c) THEN UNCHANGED chipVars
                 ELSE WriteB0(c, val % 32, Bit(val, 5))
            [] (r \div 16) % 16 = 12 ->
                 \/ regC0[c] = C0Of(val) /\ UNCHANGED chipVars
                 \/ WriteC0(c, C0Of(val))
    BY <1>3 DEF WriteChan
  <2>3. c \in Played
    BY <2>1
  <2>4. \/ UNCHANGED chipVars \/ WriteA0(c, val)
        \/ WriteB0(c, val % 32, Bit(val, 5)) \/ WriteC0(c, C0Of(val))
    BY <1>3, <2>2 DEF OfChannel
  <2>5. Bit(val, 5) \in BOOLEAN
    BY DEF Bit
  <2> QED BY <1>3, <2>3, <2>4, <2>5, DecodedValues DEF Next
<1>4. CASE UNCHANGED <<chipVars, lfoVars>>
  BY <1>4
<1> QED BY <1>1, <1>2, <1>3, <1>4 DEF WriteReg

\* So is every step of the whole chip.
LEMMA HandlerSteps ==
  ASSUME reg \in Nat, [HandlerNext]_handlerVars
  PROVE  reg' \in Nat /\ [Next]_chipVars /\ [LfoNext]_lfoVars
<1>1. CASE EnterOpl3 \/ EnterOpl2
  <2>1. WriteReg(261, 1) \/ WriteReg(261, 0)
    BY <1>1 DEF EnterOpl3, EnterOpl2
  <2> QED BY <1>1, <2>1, WriteRegSteps DEF EnterOpl3, EnterOpl2, Byte
<1>2. CASE Sweep
  <2>1. WriteReg(reg, 255) \/ WriteReg(reg, 0)
    BY <1>2 DEF Sweep
  <2> QED BY <1>2, <2>1, WriteRegSteps DEF Sweep, Byte
<1>3. CASE SetupDone
  BY <1>3 DEF SetupDone
<1>4. ASSUME NEW w \in PortWrites, WritePort(w)
      PROVE  reg' \in Nat /\ [Next]_chipVars /\ [LfoNext]_lfoVars
  <2>1. w.port \in {0, 1, 2, 3} /\ w.index \in 0..255 /\ w.val \in Byte
    BY HandlerAssumption DEF Byte
  <2>2. WriteAddr(w.port, w.index) \in Nat
    <3>1. w.index \in Nat /\ 256 + w.index \in Nat
      BY <2>1
    <3> QED BY <3>1 DEF WriteAddr
  <2> QED BY <1>4, <2>1, <2>2, WriteRegSteps DEF WritePort
<1>5. ASSUME NEW n \in Requests, Generate(n)
      PROVE  reg' \in Nat /\ [Next]_chipVars /\ [LfoNext]_lfoVars
  <2>1. BlockOf(n) \in Nat
    BY HandlerAssumption DEF BlockOf, Min
  <2> QED BY <1>5, <2>1 DEF Generate, LfoNext
<1>6. CASE NextChunk
  BY <1>6 DEF NextChunk, sweepVars, Next, LfoNext
<1>7. CASE PlayVoice \/ DrumsPlayed
  BY <1>7 DEF PlayVoice, DrumsPlayed, sweepVars, Next
<1>8. CASE PlayDrums \/ DrumNoise
  BY <1>8 DEF PlayDrums, DrumNoise, sweepVars, LfoNext
<1>9. CASE ChunkPlayed
  BY <1>9 DEF ChunkPlayed, sweepVars, Next, LfoNext
<1>10. CASE AddSamples
  BY <1>10 DEF AddSamples
<1>11. CASE UNCHANGED handlerVars
  BY <1>11 DEF handlerVars, sweepVars
<1> QED BY <1>1, <1>2, <1>3, <1>4, <1>5, <1>6, <1>7, <1>8, <1>9, <1>10, <1>11
        DEF HandlerNext, Playing

\* The whole chip runs its oscillator as the oscillator's own specification
\* allows, and its channels as theirs does after their start.
LEMMA HandlerRuns == HandlerSpec => LfoSpec /\ [][Next]_chipVars
<1>1. HandlerInit => reg \in Nat /\ LfoInit
  BY DEF HandlerInit
<1>2. reg \in Nat /\ [HandlerNext]_handlerVars
        => (reg \in Nat)' /\ [Next]_chipVars /\ [LfoNext]_lfoVars
  BY HandlerSteps
<1> QED BY <1>1, <1>2, PTL DEF HandlerSpec, LfoSpec
-----------------------------------------------------------------------------
(* What holds of the parts holds of the whole chip.                         *)

\* The whole chip plays every sample with the vibrato and tremolo of its
\* moment, and its noise never dies.
THEOREM ChipImplementsClock == HandlerSpec => LfoContract /\ []NoiseNeverDies
BY HandlerRuns, ImplementsClock, NoiseAlive, PTL

\* As the chip is made its channels satisfy what their writes preserve.
LEMMA MadeSound ==
  HandlerInit => /\ TypeOK /\ HandlersFit /\ SynthMatchesC0 /\ PanMatchesC0
                 /\ DrumKeysFollowBD /\ AtRest /\ WalkStaysInBank
<1> SUFFICES ASSUME HandlerInit
             PROVE  /\ TypeOK /\ HandlersFit /\ SynthMatchesC0 /\ PanMatchesC0
                    /\ DrumKeysFollowBD /\ AtRest /\ WalkStaysInBank
  OBVIOUS
<1> USE DEF HandlerInit
<1>1. TypeOK
  <2>1. synthHandler \in [Chan -> SynthMode]
    BY DEF SynthMode, Mono
  <2>2. /\ regC0 \in [Chan -> [am : BOOLEAN, pan : SUBSET Speakers]]
        /\ mask \in [Chan -> SUBSET Speakers]
        /\ chanData \in [Chan -> [lo : Nat, hi : Nat]]
        /\ regBD \in [on : BOOLEAN, keys : SUBSET Drum]
    OBVIOUS
  <2>3. keyOn \in [Chan -> [0..1 -> SUBSET {"chan", "drum"}]]
    OBVIOUS
  <2> QED BY <2>1, <2>2, <2>3 DEF TypeOK
<1>2. HandlersFit /\ SynthMatchesC0 /\ PanMatchesC0
  <2>1. \A c \in Chan : synthHandler[c] = "sm2FM" /\ ~regC0[c].am
    OBVIOUS
  <2>2. ~regBD.on /\ ~opl3Active
    OBVIOUS
  <2> QED BY <2>1, <2>2 DEF HandlersFit, Allowed, Percussion, FourOp, SynthMatchesC0,
                            Restored, SoundsAsC0, PanMatchesC0, AddsFirstTwo, Mono
<1>3. DrumKeysFollowBD
  BY DEF DrumKeysFollowBD
<1>4. AtRest /\ WalkStaysInBank
  <2>1. ch = 0 /\ \A c \in Chan : c \in Nat /\ synthHandler[c] = "sm2FM"
    BY DEF Chan
  <2> QED BY <2>1, LayoutAssumption DEF AtRest, WalkStaysInBank, Limit, Percussion, FourOp
<1> QED BY <1>1, <1>2, <1>3, <1>4

\* From power on, through the sweep over all registers and any program, the
\* handlers fit, a channel that is its own sounds as its C0 says or as stale as
\* when it was given back, the drums are held as BDh says, and the walk of a
\* block stays in its bank.
THEOREM ChipStaysSound ==
  HandlerSpec => /\ [](HandlersFit /\ SynthMatchesC0 /\ PanMatchesC0)
                 /\ [](DrumKeysFollowBD /\ WalkStaysInBank)
                 /\ SoundFollowsC0
<1> DEFINE IInv == /\ TypeOK /\ HandlersFit /\ SynthMatchesC0 /\ PanMatchesC0
                   /\ DrumKeysFollowBD /\ AtRest /\ WalkStaysInBank
<1>1. HandlerInit => IInv
  BY MadeSound
<1>2. IInv /\ [Next]_chipVars => IInv'
  <2>1. TypeOK /\ [Next]_chipVars => TypeOK'
    BY TypeNext
  <2>2. TypeOK /\ HandlersFit /\ [Next]_chipVars => HandlersFit'
    BY HandlersFitNext
  <2>3. TypeOK /\ SynthMatchesC0 /\ PanMatchesC0 /\ [Next]_chipVars
        => SynthMatchesC0' /\ PanMatchesC0'
    BY SynthMatchesNext, PanMatchesNext
  <2>4. TypeOK /\ DrumKeysFollowBD /\ [Next]_chipVars => DrumKeysFollowBD'
    BY DrumKeysNext
  <2>5. TypeOK /\ HandlersFit /\ AtRest /\ WalkStaysInBank /\ [Next]_chipVars
        => AtRest' /\ WalkStaysInBank'
    BY WalkNext
  <2> QED BY <2>1, <2>2, <2>3, <2>4, <2>5
<1>3. IInv /\ [Next]_chipVars
      => [/\ PanMatchesC0'
          /\ \A c \in Chan : Lent(c)' \/ SoundsAsC0(c)' \/ StaysStale(c)]_chipVars
  BY SoundFollowsNext
<1>4. HandlerSpec => HandlerInit
  BY DEF HandlerSpec
<1> QED BY <1>1, <1>2, <1>3, <1>4, HandlerRuns, PTL DEF SoundFollowsC0

\* Through the sweep, too, and whatever the program writes afterwards, no note
\* sticks but at the one change the source suspects, and a pair that sounds one
\* note goes on doing so.
THEOREM ChipKeepsNotes == HandlerSpec => NoStuckNote /\ PairStaysInStep
<1>1. HandlerInit => TypeOK /\ DrumKeysFollowBD
  BY MadeSound
<1>2. TypeOK /\ DrumKeysFollowBD /\ [Next]_chipVars => TypeOK' /\ DrumKeysFollowBD'
  BY TypeNext, DrumKeysNext
<1>3. TypeOK /\ DrumKeysFollowBD /\ [Next]_chipVars
      => [\A c \in Chan, o \in 0..1 :
            Governed(c, o) /\ ~Governed(c, o)'
              => Muted(c) # Muted(c)' /\ regB0[c - 1] # regB0[c]]_chipVars
  BY GovernedStays
<1>4. TypeOK /\ DrumKeysFollowBD /\ [Next]_chipVars
      => [\A f \in FourOpFirst :
            /\ f \in reg104 /\ f \in reg104' /\ opl3Active /\ opl3Active'
            /\ InStep(f)
            => InStep(f)']_chipVars
  BY PairNext
<1>5. HandlerSpec => HandlerInit
  BY DEF HandlerSpec
<1> QED BY <1>1, <1>2, <1>3, <1>4, <1>5, HandlerRuns, PTL DEF NoStuckNote, PairStaysInStep
-----------------------------------------------------------------------------
(* The samples of a block.                                                  *)

\* A block is as long as the buffers allow, and what is not yet in the buffer
\* is what GenerateBlock has still to play.
BlockInv == block \in 0..MaxSamples /\ (phase = "block" => out + total = block /\ out \in Nat)

LEMMA BlockInit == HandlerInit => BlockInv
BY HandlerAssumption DEF HandlerInit, BlockInv

LEMMA BlockNext ==
  ASSUME LfoTypeOK, BlockInv, [HandlerNext]_handlerVars
  PROVE  BlockInv'
<1> USE DEF BlockInv, outVars, sweepVars, lfoVars, blockVars
<1>1. CASE EnterOpl3 \/ Sweep \/ EnterOpl2 \/ SetupDone
  BY <1>1 DEF EnterOpl3, Sweep, EnterOpl2, SetupDone
<1>2. ASSUME NEW w \in PortWrites, WritePort(w) PROVE BlockInv'
  BY <1>2 DEF WritePort
<1>3. ASSUME NEW n \in Requests, Generate(n) PROVE BlockInv'
  <2>1. BlockOf(n) \in 0..MaxSamples
    BY HandlerAssumption DEF BlockOf, Min
  <2>2. block' = BlockOf(n) /\ out' = 0 /\ total' = BlockOf(n)
    BY <1>3 DEF Generate, BeginBlock
  <2> QED BY <2>1, <2>2
<1>4. CASE NextChunk
  BY <1>4 DEF NextChunk, ForwardLFO, ForwardLFOToEnd, ForwardLFOToWrap
<1>5. CASE PlayVoice \/ DrumsPlayed
  BY <1>5 DEF PlayVoice, DrumsPlayed
<1>6. CASE PlayDrums \/ DrumNoise
  BY <1>6 DEF PlayDrums, DrumNoise, ForwardNoise, ShiftNoise
<1>7. CASE ChunkPlayed
  BY <1>7 DEF ChunkPlayed, EndChunk, LfoTypeOK
<1>8. CASE AddSamples
  BY <1>8 DEF AddSamples
<1>9. CASE UNCHANGED handlerVars
  BY <1>9 DEF handlerVars
<1> QED BY <1>1, <1>2, <1>3, <1>4, <1>5, <1>6, <1>7, <1>8, <1>9
        DEF HandlerNext, Playing

\* No sample is lost, played twice or put past the buffers, at any rate and
\* for any request (Handler::Generate, Chip::GenerateBlock2 and 3).
THEOREM SamplesKept == HandlerSpec => []SamplesWhole
<1>1. LfoTypeOK /\ BlockInv /\ [HandlerNext]_handlerVars => BlockInv'
  BY BlockNext
<1>2. LfoTypeOK /\ BlockInv => SamplesWhole
  <2> SUFFICES ASSUME LfoTypeOK, BlockInv, phase = "block"
               PROVE  /\ out + total = block /\ samples <= total
                      /\ 2 * block <= 2 * MaxSamples
                      /\ 2 * OutChannels * block <= BufLen
    BY DEF SamplesWhole
  <2>1. out + total = block /\ samples <= total /\ block \in 0..MaxSamples
    BY DEF BlockInv, LfoTypeOK
  <2>2. MaxSamples \in Nat /\ OutChannels \in {1, 2} /\ BufLen \in Nat
        /\ 2 * OutChannels * MaxSamples <= BufLen
    BY HandlerAssumption
  <2>3. CASE OutChannels = 1
    BY <2>1, <2>2, <2>3
  <2>4. CASE OutChannels = 2
    BY <2>1, <2>2, <2>4
  <2> QED BY <2>1, <2>2, <2>3, <2>4
<1>3. HandlerSpec => HandlerInit /\ [][HandlerNext]_handlerVars
  BY DEF HandlerSpec
<1> QED BY <1>1, <1>2, <1>3, BlockInit, HandlerRuns, OscillatorTyped, PTL
-----------------------------------------------------------------------------
(* Type correctness of the whole chip.                                      *)

\* Samples are owed only inside a block, and drums have been played only while
\* the walk stands at the percussion channel: every other step finds no beat.
BeatInv ==
  /\ phase \in {"made", "opl3", "opl2", "ready", "block"}
  /\ reg \in 0..512 /\ fill \in BOOLEAN
  /\ phase \in {"made", "opl2"} => reg <= 255
  /\ unset \subseteq Chan \X (0..1) \X OpReg
  /\ out \in 0..MaxSamples
  /\ total > 0 => phase = "block"
  /\ beats \in 0..samples
  /\ beats # 0 => ch < Limit /\ synthHandler[ch] \in Percussion

LEMMA BeatInit == HandlerInit => BeatInv
BY HandlerAssumption DEF HandlerInit, LfoInit, BeatInv

\* A write leaves the block alone and only takes away from unset.
LEMMA WriteRegLeaves ==
  ASSUME NEW r \in Nat, NEW val, WriteReg(r, val)
  PROVE  unset' \subseteq unset /\ UNCHANGED blockVars
BY DEF WriteReg, WriteOp, WriteBD, WriteDepth, lfoVars

LEMMA BeatNext ==
  ASSUME TypeOK, LfoTypeOK, BlockInv, BeatInv, [HandlerNext]_handlerVars
  PROVE  BeatInv'
<1> USE DEF sweepVars, outVars, blockVars
<1>0. /\ total \in Nat /\ samples \in 0..total /\ MaxSamples \in Nat
      /\ (total = 0 => samples = 0)
  BY HandlerAssumption DEF LfoTypeOK
<1>1. ASSUME phase # "block" PROVE total = 0 /\ samples = 0 /\ beats = 0
  BY <1>0, <1>1 DEF BeatInv
<1>2. CASE EnterOpl3
  <2>1. unset' \subseteq unset /\ UNCHANGED blockVars
    BY <1>2, WriteRegLeaves DEF EnterOpl3
  <2> QED BY <1>1, <1>2, <2>1 DEF EnterOpl3, BeatInv
<1>3. CASE Sweep
  <2>1. unset' \subseteq unset /\ UNCHANGED blockVars
    BY <1>3, WriteRegLeaves DEF Sweep, BeatInv
  <2>2. reg' \in 0..512 /\ fill' \in BOOLEAN /\ (phase = "opl2" => reg' <= 255)
    BY <1>3 DEF Sweep, SweepEnd, BeatInv
  <2> QED BY <1>1, <1>3, <2>1, <2>2 DEF Sweep, BeatInv
<1>4. CASE EnterOpl2
  <2>1. unset' \subseteq unset /\ UNCHANGED blockVars
    BY <1>4, WriteRegLeaves DEF EnterOpl2
  <2> QED BY <1>1, <1>4, <2>1 DEF EnterOpl2, BeatInv
<1>5. CASE SetupDone
  BY <1>1, <1>5 DEF SetupDone, BeatInv, lfoVars
<1>6. ASSUME NEW w \in PortWrites, WritePort(w) PROVE BeatInv'
  <2>1. WriteAddr(w.port, w.index) \in Nat
    BY HandlerAssumption DEF WriteAddr
  <2>2. unset' \subseteq unset /\ UNCHANGED blockVars
    BY <1>6, <2>1, WriteRegLeaves DEF WritePort
  <2> QED BY <1>1, <1>6, <2>2 DEF WritePort, BeatInv
<1>7. ASSUME NEW n \in Requests, Generate(n) PROVE BeatInv'
  BY <1>1, <1>7, <1>0 DEF Generate, BeginBlock, BeatInv
<1>8. CASE NextChunk
  <2>1. samples = 0 /\ samples' \in Nat /\ total' = total
    BY <1>8, <1>0, UntilWrapReaches
       DEF NextChunk, ForwardLFO, ForwardLFOToEnd, ForwardLFOToWrap
  <2> QED BY <1>8, <2>1 DEF NextChunk, BeatInv
<1>9. CASE PlayVoice
  <2>1. beats = 0
    BY <1>9 DEF PlayVoice, BeatInv
  <2> QED BY <1>9, <2>1 DEF PlayVoice, BeatInv, lfoVars
<1>10. CASE PlayDrums
  BY <1>10, <1>0 DEF PlayDrums, ForwardNoise, BeatInv, chipVars, modeVars, synthVars,
                     walkVars, Limit
<1>11. CASE DrumNoise
  BY <1>11 DEF DrumNoise, ShiftNoise, BeatInv, chipVars, modeVars, synthVars,
               walkVars, Limit
<1>12. CASE DrumsPlayed
  BY <1>12, <1>0 DEF DrumsPlayed, BeatInv, lfoVars
<1>13. CASE ChunkPlayed
  <2>1. phase = "block" /\ out + samples <= block /\ block <= MaxSamples
    BY <1>13, <1>0 DEF ChunkPlayed, EndChunk, BeatInv, BlockInv
  <2>2. beats = 0
    <3>1. ch >= Limit
      BY <1>13 DEF ChunkPlayed, FinishBlock
    <3>2. ch \in Nat /\ Limit \in Nat
      BY HandlerAssumption DEF TypeOK, Limit
    <3> QED BY <3>1, <3>2 DEF BeatInv
  <2>3. /\ UNCHANGED <<phase, reg, fill, unset, beats>>
        /\ samples' = 0 /\ out' = out + samples
    BY <1>13 DEF ChunkPlayed, EndChunk
  <2>4. out' \in 0..MaxSamples
    BY <1>0, <2>1, <2>3 DEF BeatInv, BlockInv
  <2> QED BY <2>1, <2>2, <2>3, <2>4 DEF BeatInv
<1>14. CASE AddSamples
  BY <1>14, <1>0 DEF AddSamples, BeatInv, lfoVars
<1>15. CASE UNCHANGED handlerVars
  BY <1>15 DEF handlerVars, BeatInv, lfoVars, chipVars, modeVars, synthVars, walkVars,
               Limit
<1> QED BY <1>2, <1>3, <1>4, <1>5, <1>6, <1>7, <1>8, <1>9, <1>10, <1>11, <1>12, <1>13,
           <1>14, <1>15 DEF HandlerNext, Playing

\* The whole chip is well typed: no index leaves its table and no count its
\* block, in the sweep, under any program and in every chunk.
THEOREM ChipTyped == HandlerSpec => []HandlerTypeOK
<1>1. HandlerInit => TypeOK
  BY MadeSound
<1>2. TypeOK /\ [Next]_chipVars => TypeOK'
  BY TypeNext
<1>3. LfoTypeOK /\ BlockInv /\ [HandlerNext]_handlerVars => BlockInv'
  BY BlockNext
<1>4. TypeOK /\ LfoTypeOK /\ BlockInv /\ BeatInv /\ [HandlerNext]_handlerVars => BeatInv'
  BY BeatNext
<1>5. TypeOK /\ LfoTypeOK /\ BlockInv /\ BeatInv => HandlerTypeOK
  BY DEF BlockInv, BeatInv, HandlerTypeOK
<1>6. HandlerSpec => HandlerInit /\ [][HandlerNext]_handlerVars
  BY DEF HandlerSpec
<1> QED BY <1>1, <1>2, <1>3, <1>4, <1>5, <1>6, BlockInit, BeatInit, HandlerRuns,
           OscillatorTyped, PTL
-----------------------------------------------------------------------------
(* The end of a block.                                                      *)

\* The channels are walked exactly while a chunk is played.
ChunkInv == generating <=> samples > 0

LEMMA WriteRegRests ==
  ASSUME NEW r \in Nat, NEW val, WriteReg(r, val)
  PROVE  UNCHANGED walkVars
<1>1. ASSUME NEW c,
             \/ WriteA0(c, val) \/ WriteB0(c, val % 32, Bit(val, 5))
             \/ WriteC0(c, C0Of(val))
      PROVE  UNCHANGED walkVars
  BY <1>1 DEF WriteA0, WriteB0, WriteC0
<1>2. CASE OfChannel(r) /\ WriteChan(r, val)
  BY <1>1, <1>2 DEF OfChannel, WriteChan, chipVars
<1>3. CASE WriteMode(r, val)
  BY <1>3 DEF WriteMode, Write104, Write105, chipVars
<1>4. CASE WriteBD(val)
  BY <1>4 DEF WriteBD, WriteBDRhythm, WriteBDMelodic, chipVars
<1>5. CASE UNCHANGED chipVars
  BY <1>5 DEF chipVars
<1> QED BY <1>2, <1>3, <1>4, <1>5 DEF WriteReg

LEMMA ChunkNext ==
  ASSUME reg \in Nat, LfoTypeOK, ChunkInv, [HandlerNext]_handlerVars
  PROVE  ChunkInv'
<1> USE DEF walkVars, blockVars
<1>1. ASSUME NEW r \in Nat, NEW val, WriteReg(r, val) PROVE ChunkInv'
  BY <1>1, WriteRegRests, WriteRegLeaves DEF ChunkInv
<1>2. CASE EnterOpl3 \/ Sweep \/ EnterOpl2
  BY <1>1, <1>2 DEF EnterOpl3, Sweep, EnterOpl2
<1>3. ASSUME NEW w \in PortWrites, WritePort(w) PROVE ChunkInv'
  <2>1. WriteAddr(w.port, w.index) \in Nat
    BY HandlerAssumption DEF WriteAddr
  <2> QED BY <1>1, <1>3, <2>1 DEF WritePort
<1>4. CASE NextChunk
  <2>1. generating' = TRUE
    BY <1>4 DEF NextChunk, GenerateBlock
  <2>2. samples' > 0
    BY <1>4, UntilWrapReaches
       DEF NextChunk, ForwardLFO, ForwardLFOToEnd, ForwardLFOToWrap, LfoTypeOK
  <2> QED BY <2>1, <2>2 DEF ChunkInv
<1>5. CASE ChunkPlayed
  BY <1>5 DEF ChunkPlayed, FinishBlock, EndChunk, ChunkInv
<1>6. CASE \/ SetupDone \/ PlayVoice \/ PlayDrums \/ DrumNoise \/ DrumsPlayed \/ AddSamples
           \/ (\E n \in Requests : Generate(n)) \/ UNCHANGED handlerVars
  <2>1. UNCHANGED <<generating, samples>>
    BY <1>6 DEF SetupDone, PlayVoice, PlayDrums, DrumNoise, DrumsPlayed, AddSamples, Generate,
                BeginBlock, PlayChannel, ForwardNoise, ShiftNoise, handlerVars, chipVars,
                lfoVars
  <2> QED BY <2>1 DEF ChunkInv
<1> QED BY <1>2, <1>3, <1>4, <1>5, <1>6 DEF HandlerNext, Playing

\* Every step inside a block goes down in one order: fewer samples are owed;
\* or a chunk begins; or the walk is further on in its bank; or the drums have
\* played one more sample of the chunk; or one more step of the noise is done.
\* Each of these is bounded (ChipTyped, ChipStaysSound), so that a block
\* cannot go on for ever (dbopl.cpp:1002-1006, 1177-1203).
BlockShrinks ==
  [][phase = "block" /\ phase' = "block" =>
       \/ total' < total
       \/ total' = total /\ ~generating /\ generating'
       \/ UNCHANGED <<total, generating>> /\ ch' > ch
       \/ UNCHANGED <<total, generating, ch>> /\ beats' > beats /\ beats' <= samples'
       \/ UNCHANGED <<total, generating, ch, beats>> /\ noiseCount' < noiseCount]_handlerVars

LEMMA ShrinksNext ==
  ASSUME TypeOK, LfoTypeOK, BeatInv, HandlerNext, phase = "block", phase' = "block"
  PROVE  \/ total' < total
         \/ total' = total /\ ~generating /\ generating'
         \/ UNCHANGED <<total, generating>> /\ ch' > ch
         \/ UNCHANGED <<total, generating, ch>> /\ beats' > beats /\ beats' <= samples'
         \/ UNCHANGED <<total, generating, ch, beats>> /\ noiseCount' < noiseCount
<1> USE DEF outVars, blockVars, walkVars
<1>1. CASE NextChunk
  BY <1>1 DEF NextChunk, GenerateBlock, ForwardLFO, ForwardLFOToEnd, ForwardLFOToWrap
<1>2. CASE PlayVoice \/ DrumsPlayed
  <2>1. ch' = ch + Width(synthHandler[ch]) /\ UNCHANGED <<generating, total>>
    BY <1>2 DEF PlayVoice, DrumsPlayed, PlayChannel, lfoVars
  <2>2. Width(synthHandler[ch]) \in {1, 2, 3} /\ ch \in Nat
    BY DEF Width, TypeOK
  <2> QED BY <2>1, <2>2
<1>3. CASE PlayDrums
  <2>1. beats' = beats + 1 /\ beats < samples
        /\ UNCHANGED <<generating, ch, total, samples>>
    BY <1>3 DEF PlayDrums, ForwardNoise, chipVars
  <2>2. beats \in Nat /\ samples \in Nat
    BY DEF BeatInv, LfoTypeOK
  <2> QED BY <2>1, <2>2
<1>4. CASE DrumNoise
  <2>1. noiseCount' = noiseCount - 1 /\ noiseCount > 0
        /\ UNCHANGED <<generating, ch, total, beats>>
    BY <1>4 DEF DrumNoise, ShiftNoise, chipVars
  <2>2. noiseCount \in Nat
    BY DEF LfoTypeOK
  <2> QED BY <2>1, <2>2
<1>5. CASE ChunkPlayed
  <2>1. samples > 0 /\ total' = total - samples
    BY <1>5 DEF ChunkPlayed, EndChunk
  <2>2. samples \in Nat /\ total \in Nat
    BY DEF LfoTypeOK
  <2> QED BY <2>1, <2>2
<1>6. CASE \/ EnterOpl3 \/ Sweep \/ EnterOpl2 \/ SetupDone \/ AddSamples
           \/ (\E w \in PortWrites : WritePort(w)) \/ \E n \in Requests : Generate(n)
  BY <1>6 DEF EnterOpl3, Sweep, EnterOpl2, SetupDone, AddSamples, WritePort, Generate
<1> QED BY <1>1, <1>2, <1>3, <1>4, <1>5, <1>6 DEF HandlerNext, Playing

\* Inside a block one of the steps of Playing always finds its guard true; the
\* disjuncts are those guards, in the order of the steps.
BlockGoesOn ==
  phase = "block" =>
    \/ total > 0 /\ samples = 0 /\ ~generating
    \/ generating /\ ch < Limit /\ synthHandler[ch] \notin Percussion
    \/ /\ generating /\ ch < Limit /\ synthHandler[ch] \in Percussion
       /\ samples > 0 /\ noiseCount = 0 /\ beats < samples
    \/ generating /\ noiseCount > 0
    \/ /\ generating /\ ch < Limit /\ synthHandler[ch] \in Percussion
       /\ noiseCount = 0 /\ beats = samples
    \/ generating /\ ch >= Limit /\ samples > 0 /\ noiseCount = 0
    \/ total = 0

LEMMA NeverStuck == TypeOK /\ LfoTypeOK /\ BeatInv /\ ChunkInv => BlockGoesOn
<1> SUFFICES ASSUME TypeOK, LfoTypeOK, BeatInv, ChunkInv PROVE BlockGoesOn
  OBVIOUS
<1>1. /\ total \in Nat /\ samples \in Nat /\ beats \in 0..samples /\ noiseCount \in Nat
      /\ ch \in Nat /\ Limit \in Nat
  BY HandlerAssumption DEF TypeOK, LfoTypeOK, BeatInv, Limit
<1> QED BY <1>1 DEF ChunkInv, BlockGoesOn

\* The two together are why a block ends (BlockEnds): what is left to the runs
\* is that a step whose guard is true is taken.
THEOREM BlocksEnd == HandlerSpec => BlockShrinks /\ []BlockGoesOn
<1>1. HandlerInit => TypeOK
  BY MadeSound
<1>2. TypeOK /\ [Next]_chipVars => TypeOK'
  BY TypeNext
<1>3. LfoTypeOK /\ BlockInv /\ [HandlerNext]_handlerVars => BlockInv'
  BY BlockNext
<1>4. TypeOK /\ LfoTypeOK /\ BlockInv /\ BeatInv /\ [HandlerNext]_handlerVars => BeatInv'
  BY BeatNext
<1>5. HandlerInit => ChunkInv
  BY DEF HandlerInit, LfoInit, ChunkInv
<1>6. LfoTypeOK /\ BeatInv /\ ChunkInv /\ [HandlerNext]_handlerVars => ChunkInv'
  BY ChunkNext DEF BeatInv
<1>7. TypeOK /\ LfoTypeOK /\ BeatInv /\ [HandlerNext]_handlerVars
      => [phase = "block" /\ phase' = "block" =>
            \/ total' < total
            \/ total' = total /\ ~generating /\ generating'
            \/ UNCHANGED <<total, generating>> /\ ch' > ch
            \/ UNCHANGED <<total, generating, ch>> /\ beats' > beats /\ beats' <= samples'
            \/ UNCHANGED <<total, generating, ch, beats>> /\ noiseCount' < noiseCount]_handlerVars
  BY ShrinksNext
<1>8. HandlerSpec => HandlerInit /\ [][HandlerNext]_handlerVars
  BY DEF HandlerSpec
<1> QED BY <1>1, <1>2, <1>3, <1>4, <1>5, <1>6, <1>7, <1>8, BlockInit, BeatInit, NeverStuck,
           HandlerRuns, OscillatorTyped, PTL DEF BlockShrinks
-----------------------------------------------------------------------------
(* The tables of offsets.                                                   *)

\* Where the registers of a kind begin; 0 stands for the table itself.
OpBase == {0, 32, 64, 96, 128, 224}

\* OpOffsetTable finds for every operator register the channel that
\* ChanOffsetTable has for it, and numbers its two operators alike.
LEMMA OperatorMeets ==
  ASSUME NEW b \in 0..1, NEW n \in 0..8, NEW o \in 0..1, NEW k \in OpBase
  PROVE  RegOp(b * 256 + k + (n \div 3) * 8 + (n % 3) + 3 * o)
           = {<<c, o>> : c \in RegChan(b * 256 + n)}
<1> DEFINE q == n \div 3
           m == n % 3
           low == 8 * q + m + 3 * o
           r == b * 256 + k + q * 8 + m + 3 * o
           i == b * 32 + low
<1>1. q \in 0..2 /\ m \in 0..2 /\ n = 3 * q + m
  OBVIOUS
<1> HIDE DEF q, m
<1>2. r \div 256 = b /\ r % 32 = low
  <2>1. k \in {0, 32, 64, 96, 128, 224}
    BY DEF OpBase
  <2>2. r = 256 * b + (k + low) /\ k + low \in 0..255 /\ low \in 0..31
    BY <1>1, <2>1
  <2>3. r \div 256 = b
    BY <2>2
  <2>4. r % 32 = low
    BY <1>1, <2>1
  <2> QED BY <2>3, <2>4
<1>3. RegOp(r) = OpAt(i)
  <2>1. (r \div 256) * 32 + (r % 32) = i
    BY <1>1, <1>2
  <2> QED BY <2>1 DEF RegOp
<1>4. i % 8 = m + 3 * o /\ i \div 8 = 4 * b + q /\ (i \div 8) % 4 = q
  BY <1>1
<1>5. /\ (m + 3 * o) % 3 = m /\ (m + 3 * o) \div 3 = o /\ m + 3 * o < 6
  BY <1>1
<1>6. (4 * b + q) * 3 + m = 12 * b + n
  BY <1>1
<1>7. (IF 12 * b + n >= 12 THEN 12 * b + n + 4 ELSE 12 * b + n) = 16 * b + n
  BY <1>1
<1>8. OpAt(i) = {<<c, o>> : c \in ChanAt(16 * b + n)}
  <2>1. ~(i % 8 >= 6) /\ (i \div 8) % 4 # 3
    BY <1>1, <1>4, <1>5
  <2>2. (i \div 8) * 3 + ((i % 8) % 3) = 12 * b + n /\ (i % 8) \div 3 = o
    BY <1>4, <1>5, <1>6
  <2> HIDE DEF i
  <2> QED BY <1>7, <2>1, <2>2 DEF OpAt
<1>9. RegChan(b * 256 + n) = ChanAt(16 * b + n)
  <2>1. (b * 256 + n) \div 256 = b /\ (b * 256 + n) % 16 = n
    OBVIOUS
  <2>2. ((b * 256 + n) \div 256) * 16 + ((b * 256 + n) % 16) = 16 * b + n
    BY <2>1
  <2> QED BY <2>2 DEF RegChan
<1> QED BY <1>3, <1>8, <1>9 DEF q, m

\* The pair of a bit of 0x104 is the two channels whose registers lie three
\* apart, neighbours after the reordering.
LEMMA PairMeets ==
  ASSUME NEW n \in 0..5
  PROVE  /\ ChanAt(Bank(n) + (n % 3)) = {PairOfBit(n)}
         /\ ChanAt(Bank(n) + (n % 3) + 3) = {PairOfBit(n) + 1}
<1>1. n = 0 \/ n = 1 \/ n = 2 \/ n = 3 \/ n = 4 \/ n = 5
  OBVIOUS
<1>2. Bank(n) + (n % 3) = IF n < 3 THEN n ELSE n + 13
  BY <1>1 DEF Bank
<1>3. Bank(n) + (n % 3) + 3 = IF n < 3 THEN n + 3 ELSE n + 16
  BY <1>2
<1>4. ChanAt(IF n < 3 THEN n ELSE n + 13) = {PairOfBit(n)}
  BY <1>1 DEF ChanAt, PairOfBit
<1>5. ChanAt(IF n < 3 THEN n + 3 ELSE n + 16) = {PairOfBit(n) + 1}
  BY <1>1 DEF ChanAt, PairOfBit
<1> QED BY <1>2, <1>3, <1>4, <1>5

\* The three tables agree in every mode the chip may be in.
LEMMA TablesMeet == RegistersMeet
<1>1. ASSUME NEW b \in 0..1, NEW n \in 0..8, NEW o \in 0..1
      PROVE  RegOp(b * 256 + (n \div 3) * 8 + (n % 3) + 3 * o)
               = {<<c, o>> : c \in RegChan(b * 256 + n)}
  <2>1. RegOp(b * 256 + 0 + (n \div 3) * 8 + (n % 3) + 3 * o)
          = {<<c, o>> : c \in RegChan(b * 256 + n)}
    <3>1. 0 \in OpBase
      BY DEF OpBase
    <3> QED BY <3>1, OperatorMeets
  <2>2. b * 256 + 0 = b * 256
    OBVIOUS
  <2> QED BY <2>1, <2>2, Zenon
<1>2. ASSUME NEW n \in 0..5
      PROVE  LET first == ChanAt(Bank(n) + (n % 3))
                 second == ChanAt(Bank(n) + (n % 3) + 3)
             IN  opl3Active /\ PairOfBit(n) \in reg104 =>
                   /\ \A c \in first : Voice(c) = first \cup second
                   /\ \A c \in second : Muted(c)
  <2> DEFINE f == PairOfBit(n)
  <2>1. f \in Int
    BY DEF PairOfBit
  <2> HIDE DEF f
  <2>2. (f + 1) - 1 = f
    BY <2>1
  <2>3. Muted(f + 1) = (opl3Active /\ f \in reg104)
    BY <2>2 DEF Muted
  <2>4. opl3Active /\ f \in reg104 => Voice(f) = {f} \cup {f + 1} /\ Muted(f + 1)
    BY <2>3 DEF Voice
  <2> QED BY <2>4, PairMeets DEF f
<1> QED BY <1>1, <1>2 DEF RegistersMeet

\* The registers of a channel, those of its operators and the bit that joins
\* it to a pair mean the same two operators, whatever was written before.
THEOREM RegistersAlwaysMeet == HandlerSpec => []RegistersMeet
BY TablesMeet, PTL
-----------------------------------------------------------------------------
(* The sweep.  It writes 0xff and at once 0 to each register, so that at    *)
(* every step the chip holds nothing but the register under way.            *)

\* What the two bytes of the sweep mean to WriteReg.
LEMMA Bytes ==
  /\ \A n \in 0..7 : ~Bit(0, n) /\ Bit(255, n)
  /\ C0Of(0) = [am |-> FALSE, pan |-> {}] /\ C0Of(255) = [am |-> TRUE, pan |-> Speakers]
  /\ BDOf(0) = [on |-> FALSE, keys |-> {}] /\ BDOf(255) = [on |-> TRUE, keys |-> Drum]
  /\ Pairs(0) = {} /\ 0 % 32 = 0 /\ 255 % 32 = 31
<1>1. ASSUME NEW n \in 0..7 PROVE (0 \div 2^n) % 2 = 0 /\ (255 \div 2^n) % 2 = 1
  <2>1. n = 0 \/ n = 1 \/ n = 2 \/ n = 3 \/ n = 4 \/ n = 5 \/ n = 6 \/ n = 7
    OBVIOUS
  <2>2. (0 \div 2^0) % 2 = 0 /\ (255 \div 2^0) % 2 = 1
    OBVIOUS
  <2>3. (0 \div 2^1) % 2 = 0 /\ (255 \div 2^1) % 2 = 1
    OBVIOUS
  <2>4. (0 \div 2^2) % 2 = 0 /\ (255 \div 2^2) % 2 = 1
    OBVIOUS
  <2>5. (0 \div 2^3) % 2 = 0 /\ (255 \div 2^3) % 2 = 1
    OBVIOUS
  <2>6. (0 \div 2^4) % 2 = 0 /\ (255 \div 2^4) % 2 = 1
    OBVIOUS
  <2>7. (0 \div 2^5) % 2 = 0 /\ (255 \div 2^5) % 2 = 1
    OBVIOUS
  <2>8. (0 \div 2^6) % 2 = 0 /\ (255 \div 2^6) % 2 = 1
    OBVIOUS
  <2>9. (0 \div 2^7) % 2 = 0 /\ (255 \div 2^7) % 2 = 1
    OBVIOUS
  <2> QED BY <2>1, <2>2, <2>3, <2>4, <2>5, <2>6, <2>7, <2>8, <2>9, Zenon
<1>2. \A n \in 0..7 : ~Bit(0, n) /\ Bit(255, n)
  <2>1. 0 # 1
    OBVIOUS
  <2> QED BY <1>1, <2>1, Zenon DEF Bit
<1>3. C0Of(0) = [am |-> FALSE, pan |-> {}] /\ C0Of(255) = [am |-> TRUE, pan |-> Speakers]
  <2>1. Bit(0, 0) = FALSE /\ Bit(255, 0) = TRUE
    BY <1>1 DEF Bit
  <2>2. ~Bit(0, 4) /\ ~Bit(0, 5) /\ Bit(255, 4) /\ Bit(255, 5)
    BY <1>2
  <2> QED BY <2>1, <2>2 DEF C0Of, Speakers
<1>4. Pairs(0) = {}
  <2>1. {m \in 0..5 : Bit(0, m)} = {}
    BY <1>2
  <2> QED BY <2>1 DEF Pairs
<1>5. BDOf(0) = [on |-> FALSE, keys |-> {}] /\ BDOf(255) = [on |-> TRUE, keys |-> Drum]
  <2>1. Bit(0, 5) = FALSE /\ Bit(255, 5) = TRUE
    BY <1>1 DEF Bit
  <2>2. \A m \in 1..5 : m - 1 \in 0..7
    OBVIOUS
  <2>3. {m \in 1..5 : Bit(0, m - 1)} = {}
    BY <1>2, <2>2
  <2>4. {m \in 1..5 : Bit(255, m - 1)} = 1..5
    BY <1>2, <2>2
  <2>5. 1..5 = {1, 2, 3, 4, 5}
    OBVIOUS
  <2>6. {DrumOfBit[n] : n \in {1, 2, 3, 4, 5}} = Drum
    BY DEF DrumOfBit, Drum
  <2> QED BY <2>1, <2>3, <2>4, <2>5, <2>6 DEF BDOf
<1> QED BY <1>2, <1>3, <1>4, <1>5

\* The chip holds zeros, but 0xff in A0h of the channels h.lo, in B0h of
\* h.hi, in C0h of h.c0, and in BDh if h.drums.
Holds(h) ==
  /\ regBD = [on |-> h.drums, keys |-> IF h.drums THEN Drum ELSE {}]
  /\ chanData = [c \in Chan |-> [lo |-> IF c \in h.lo THEN 255 ELSE 0,
                                 hi |-> IF c \in h.hi THEN 31 ELSE 0]]
  /\ regB0 = [c \in Chan |-> IF c \in h.hi THEN TRUE ELSE FALSE]
  /\ keyOn = [c \in Chan |-> [o \in 0..1 |->
               (IF c \in h.hi THEN {"chan"} ELSE {})
                 \cup (IF h.drums /\ c \in Drums THEN {"drum"} ELSE {})]]
  /\ regC0 = [c \in Chan |-> IF c \in h.c0 THEN [am |-> TRUE, pan |-> Speakers]
                                         ELSE [am |-> FALSE, pan |-> {}]]
  /\ mask = [c \in Chan |-> IF opl3Active /\ c \in h.c0 THEN Speakers ELSE {}]
  /\ synthHandler = [c \in Chan |->
       IF h.drums /\ c = DrumChan
       THEN IF opl3Active THEN "sm3Percussion" ELSE "sm2Percussion"
       ELSE IF opl3Active THEN IF c \in h.c0 THEN "sm3AM" ELSE "sm3FM"
                          ELSE IF c \in h.c0 THEN "sm2AM" ELSE "sm2FM"]

\* A write of either byte to A0h of a channel that no pair mutes.
LEMMA HoldsA0 ==
  ASSUME NEW c \in Chan, NEW lo \in {{}, {c}}, NEW val \in {0, 255},
         NEW h, NEW after,
         h = [lo |-> lo, hi |-> {}, c0 |-> {}, drums |-> FALSE],
         after = [lo |-> IF val = 255 THEN {c} ELSE {}, hi |-> {}, c0 |-> {}, drums |-> FALSE],
         reg104 = {}, Holds(h),
         IF Muted(c) \/ chanData[c].lo = val THEN UNCHANGED chipVars ELSE WriteA0(c, val)
  PROVE  /\ Holds(after)'
         /\ UNCHANGED <<opl3Active, reg104, walkVars>>
<1> USE DEF modeVars, synthVars, keyVars, walkVars
<1>1. ~Muted(c) /\ Voice(c) = {c}
  BY DEF Muted, Voice
<1>2. chanData[c] = [lo |-> IF c \in lo THEN 255 ELSE 0, hi |-> 0]
  BY DEF Holds
<1>3. CASE chanData[c].lo = val /\ UNCHANGED chipVars
  <2>1. (IF c \in lo THEN 255 ELSE 0) = val
    BY <1>2, <1>3
  <2>2. lo = IF val = 255 THEN {c} ELSE {}
    BY <2>1
  <2>3. UNCHANGED <<opl3Active, regBD, chanData, regB0, keyOn, regC0, mask, synthHandler>>
    BY <1>3 DEF chipVars
  <2> QED BY <1>3, <2>2, <2>3 DEF chipVars, Holds
<1>4. CASE WriteA0(c, val)
  <2>1. chanData' = [d \in Chan |-> IF d = c THEN [lo |-> val, hi |-> 0] ELSE chanData[d]]
    BY <1>1, <1>2, <1>4 DEF WriteA0, Forward
  <2>2. \A d \in Chan : d # c => chanData[d] = [lo |-> 0, hi |-> 0]
    BY DEF Holds
  <2>3. chanData' = [d \in Chan |-> [lo |-> IF d \in (IF val = 255 THEN {c} ELSE {})
                                           THEN 255 ELSE 0,
                                    hi |-> IF d \in {} THEN 31 ELSE 0]]
    BY <2>1, <2>2
  <2>4. UNCHANGED <<opl3Active, regBD, synthVars, regB0, keyOn, reg104, walkVars>>
    BY <1>4 DEF WriteA0
  <2>5. after.lo = (IF val = 255 THEN {c} ELSE {}) /\ after.hi = h.hi
        /\ after.c0 = h.c0 /\ after.drums = h.drums /\ h.hi = {}
    OBVIOUS
  <2> QED BY <2>3, <2>4, <2>5 DEF Holds
<1> QED BY <1>1, <1>3, <1>4

\* To B0h: the key goes with the byte's bit 5.
LEMMA HoldsB0 ==
  ASSUME NEW c \in Chan, NEW hi \in {{}, {c}}, NEW val \in {0, 255},
         NEW h, NEW after,
         h = [lo |-> {}, hi |-> hi, c0 |-> {}, drums |-> FALSE],
         after = [lo |-> {}, hi |-> IF val = 255 THEN {c} ELSE {}, c0 |-> {}, drums |-> FALSE],
         reg104 = {}, Holds(h),
         IF Muted(c) THEN UNCHANGED chipVars ELSE WriteB0(c, val % 32, Bit(val, 5))
  PROVE  /\ Holds(after)'
         /\ UNCHANGED <<opl3Active, reg104, walkVars>>
<1> USE DEF modeVars, synthVars, keyVars, walkVars
<1> DEFINE key == IF val = 255 THEN TRUE ELSE FALSE
           now == IF val = 255 THEN {c} ELSE {}
<1>1. ~Muted(c) /\ Voice(c) = {c}
  BY DEF Muted, Voice
<1>2. WriteB0(c, IF val = 255 THEN 31 ELSE 0, key)
  <2>1. val % 32 = IF val = 255 THEN 31 ELSE 0
    BY Bytes
  <2>2. Bit(0, 5) = FALSE /\ Bit(255, 5) = TRUE
    BY Bytes DEF Bit
  <2>3. Bit(val, 5) = key
    BY <2>2
  <2> QED BY <1>1, <2>1, <2>3
<1>3. /\ chanData[c] = [lo |-> 0, hi |-> IF c \in hi THEN 31 ELSE 0]
      /\ regB0[c] = IF c \in hi THEN TRUE ELSE FALSE
      /\ \A o \in 0..1 : keyOn[c][o] = IF c \in hi THEN {"chan"} ELSE {}
      /\ \A d \in Chan : d # c => /\ chanData[d] = [lo |-> 0, hi |-> 0]
                                 /\ \A o \in 0..1 : keyOn[d][o] = {}
  BY DEF Holds
<1>4. chanData' = [d \in Chan |-> [lo |-> IF d \in {} THEN 255 ELSE 0,
                                  hi |-> IF d \in now THEN 31 ELSE 0]]
  <2>1. CASE c \in hi <=> val = 255
    <3>1. chanData' = chanData /\ hi = now
      BY <1>2, <1>3, <2>1 DEF WriteB0
    <3> QED BY <3>1 DEF Holds
  <2>2. CASE ~(c \in hi <=> val = 255)
    <3>1. chanData' = [d \in Chan |-> IF d = c
                                     THEN [lo |-> 0, hi |-> IF val = 255 THEN 31 ELSE 0]
                                     ELSE chanData[d]]
      <4> DEFINE high == IF val = 255 THEN 31 ELSE 0
      <4>1. chanData[c].hi # high /\ [chanData[c] EXCEPT !.hi = high] = [lo |-> 0, hi |-> high]
        BY <1>3, <2>2
      <4> HIDE DEF high
      <4>2. chanData' = [d \in Chan |-> IF d \in {c} THEN [lo |-> 0, hi |-> high]
                                       ELSE chanData[d]]
        BY <1>1, <1>2, <4>1 DEF WriteB0, Forward, high
      <4> QED BY <4>2 DEF high
    <3> QED BY <1>3, <3>1
  <2> QED BY <2>1, <2>2
<1>5. regB0' = [d \in Chan |-> IF d \in now THEN TRUE ELSE FALSE]
  BY <1>2 DEF WriteB0, Holds
<1>6. keyOn' = [d \in Chan |-> [o \in 0..1 |->
                 (IF d \in now THEN {"chan"} ELSE {})
                   \cup (IF FALSE /\ d \in Drums THEN {"drum"} ELSE {})]]
  <2>1. CASE c \in hi <=> val = 255
    <3>1. keyOn' = keyOn /\ hi = now
      BY <1>2, <1>3, <2>1 DEF WriteB0
    <3> QED BY <3>1 DEF Holds
  <2>2. CASE ~(c \in hi <=> val = 255)
    <3>1. keyOn' = [d \in Chan |-> [o \in 0..1 |->
                     IF d # c THEN keyOn[d][o]
                     ELSE IF key THEN keyOn[d][o] \cup {"chan"}
                     ELSE keyOn[d][o] \ {"chan"}]]
      BY <1>1, <1>2, <1>3, <2>2 DEF WriteB0
    <3>2. \A d \in Chan, o \in 0..1 :
            keyOn'[d][o] = IF d \in now THEN {"chan"} ELSE {}
      <4>1. \A d \in Chan, o \in 0..1 : d # c => keyOn'[d][o] = {}
        BY <1>3, <3>1
      <4>2. \A o \in 0..1 : keyOn'[c][o] = IF key THEN keyOn[c][o] \cup {"chan"}
                                                ELSE keyOn[c][o] \ {"chan"}
        BY <3>1
      <4>3. \A o \in 0..1 : keyOn'[c][o] = IF val = 255 THEN {"chan"} ELSE {}
        <5>1. CASE val = 255
          <6>1. \A o \in 0..1 : keyOn[c][o] = {}
            BY <1>3, <2>2, <5>1
          <6> QED BY <4>2, <5>1, <6>1
        <5>2. CASE val = 0
          <6>1. \A o \in 0..1 : keyOn[c][o] = {"chan"}
            BY <1>3, <2>2, <5>2
          <6> QED BY <4>2, <5>2, <6>1
        <5> QED BY <5>1, <5>2
      <4>4. \A d \in Chan : d \in now <=> d = c /\ val = 255
        OBVIOUS
      <4>5. ASSUME NEW d \in Chan, NEW o \in 0..1
            PROVE  keyOn'[d][o] = IF d \in now THEN {"chan"} ELSE {}
        <5>1. CASE d = c
          <6>1. keyOn'[c][o] = IF val = 255 THEN {"chan"} ELSE {}
            BY <4>3
          <6> QED BY <4>4, <5>1, <6>1
        <5>2. CASE d # c
          BY <4>1, <4>4, <5>2
        <5> QED BY <5>1, <5>2
      <4> QED BY <4>5
    <3>3. keyOn' = [d \in Chan |-> [o \in 0..1 |-> keyOn'[d][o]]]
      BY <3>1
    <3> QED BY <3>2, <3>3
  <2> QED BY <2>1, <2>2
<1>7. UNCHANGED <<modeVars, synthVars, walkVars>>
  BY <1>2 DEF WriteB0
<1> QED BY <1>4, <1>5, <1>6, <1>7 DEF Holds

\* To C0h: the handler and the speakers follow at once.
LEMMA HoldsC0 ==
  ASSUME NEW c \in Chan, NEW c0 \in {{}, {c}}, NEW val \in {0, 255},
         NEW h, NEW after,
         h = [lo |-> {}, hi |-> {}, c0 |-> c0, drums |-> FALSE],
         after = [lo |-> {}, hi |-> {}, c0 |-> IF val = 255 THEN {c} ELSE {}, drums |-> FALSE],
         reg104 = {}, opl3Active \in BOOLEAN, Holds(h),
         \/ regC0[c] = C0Of(val) /\ UNCHANGED chipVars
         \/ WriteC0(c, C0Of(val))
  PROVE  /\ Holds(after)'
         /\ UNCHANGED <<opl3Active, reg104, walkVars>>
<1> USE DEF modeVars, synthVars, keyVars, walkVars
<1> DEFINE now == IF val = 255 THEN {c} ELSE {}
           byte == IF val = 255 THEN [am |-> TRUE, pan |-> Speakers]
                                ELSE [am |-> FALSE, pan |-> {}]
<1>1. C0Of(val) = byte
  BY Bytes
<1>2. CASE regC0[c] = C0Of(val) /\ UNCHANGED chipVars
  <2>1. c0 = now
    BY <1>1, <1>2 DEF Holds
  <2>2. UNCHANGED <<opl3Active, regBD, chanData, regB0, keyOn, regC0, mask, synthHandler>>
    BY <1>2 DEF chipVars
  <2> QED BY <1>2, <2>1, <2>2 DEF chipVars, Holds
<1>3. CASE WriteC0(c, C0Of(val))
  <2>1. regC0' = [d \in Chan |-> IF d \in now THEN [am |-> TRUE, pan |-> Speakers]
                                            ELSE [am |-> FALSE, pan |-> {}]]
    BY <1>1, <1>3 DEF WriteC0, Holds
  <2>2. mask' = [d \in Chan |-> IF opl3Active /\ d \in now THEN Speakers ELSE {}]
    <3>1. mask = [d \in Chan |-> IF opl3Active /\ d \in c0 THEN Speakers ELSE {}]
      BY DEF Holds
    <3>2. mask' = IF opl3Active THEN [mask EXCEPT ![c] = byte.pan] ELSE mask
      BY <1>1, <1>3 DEF WriteC0
    <3>3. CASE opl3Active
      BY <3>1, <3>2, <3>3
    <3>4. CASE ~opl3Active
      BY <3>1, <3>2, <3>4
    <3> QED BY <3>3, <3>4
  <2>3. SynthOf(c, regC0', opl3Active, regBD.on) = TwoOpSynth(opl3Active, byte.am)
    BY <2>1 DEF SynthOf, Holds
  <2>4. synthHandler' = [d \in Chan |-> IF d = c THEN TwoOpSynth(opl3Active, byte.am)
                                               ELSE synthHandler[d]]
    <3>1. ~Muted(c)
      BY DEF Muted
    <3>2. synthHandler' = [d \in Chan |->
            IF d = c \/ (d + 1 = c /\ Muted(c))
            THEN SynthOf(d, regC0', opl3Active, regBD.on) ELSE synthHandler[d]]
      BY <1>3 DEF WriteC0
    <3> QED BY <2>3, <3>1, <3>2
  <2>5. synthHandler' = [d \in Chan |->
          IF FALSE /\ d = DrumChan
          THEN IF opl3Active THEN "sm3Percussion" ELSE "sm2Percussion"
          ELSE IF opl3Active THEN IF d \in now THEN "sm3AM" ELSE "sm3FM"
                             ELSE IF d \in now THEN "sm2AM" ELSE "sm2FM"]
    BY <2>4 DEF Holds, TwoOpSynth
  <2>6. UNCHANGED <<modeVars, keyVars, walkVars>>
    BY <1>3 DEF WriteC0
  <2> QED BY <2>1, <2>2, <2>5, <2>6 DEF Holds
<1> QED BY <1>2, <1>3

\* The keys of the drums, all of them or none, when no other key is held.
DrumsHeld(drums) ==
  [c \in Chan |-> [o \in 0..1 |->
    (IF c \in {} THEN {"chan"} ELSE {}) \cup (IF drums /\ c \in Drums THEN {"drum"} ELSE {})]]

\* Every operator of the drum channels has a drum, and there is nothing else
\* to a drum key.
LEMMA AllDrums ==
  ASSUME NEW drums \in BOOLEAN, keyOn = DrumsHeld(drums)
  PROVE  WithDrums(Drum) = DrumsHeld(TRUE) /\ WithDrums({}) = DrumsHeld(FALSE)
<1>1. \A c \in Drums, o \in 0..1 : <<c, o>> \in DrumKeys(Drum)
  <2> SUFFICES ASSUME NEW c \in Drums, NEW o \in 0..1 PROVE <<c, o>> \in DrumKeys(Drum)
    OBVIOUS
  <2>1. c \in {DrumChan, DrumChan + 1, DrumChan + 2} /\ o \in {0, 1}
    BY HandlerAssumption DEF Drums
  <2>2. \E d \in Drum : <<c, o>> \in DrumOps(d)
    <3>1. CASE c = DrumChan
      BY <2>1, <3>1 DEF DrumOps, Drum
    <3>2. CASE c = DrumChan + 1 /\ o = 0
      BY <3>2 DEF DrumOps, Drum
    <3>3. CASE c = DrumChan + 1 /\ o = 1
      BY <3>3 DEF DrumOps, Drum
    <3>4. CASE c = DrumChan + 2 /\ o = 0
      BY <3>4 DEF DrumOps, Drum
    <3>5. CASE c = DrumChan + 2 /\ o = 1
      BY <3>5 DEF DrumOps, Drum
    <3> QED BY <2>1, <3>1, <3>2, <3>3, <3>4, <3>5
  <2> QED BY <2>2 DEF DrumKeys
<1>2. \A c, o : <<c, o>> \notin DrumKeys({})
  BY DEF DrumKeys
<1>3. \A c \in Chan, o \in 0..1 :
        keyOn[c][o] = IF drums /\ c \in Drums THEN {"drum"} ELSE {}
  BY DEF DrumsHeld
<1>4. WithDrums(Drum) = DrumsHeld(TRUE)
  <2>1. \A c \in Chan, o \in 0..1 :
          (IF c \notin Drums THEN keyOn[c][o]
           ELSE IF <<c, o>> \in DrumKeys(Drum) THEN keyOn[c][o] \cup {"drum"}
           ELSE keyOn[c][o] \ {"drum"})
            = (IF c \in {} THEN {"chan"} ELSE {})
              \cup (IF TRUE /\ c \in Drums THEN {"drum"} ELSE {})
    BY <1>1, <1>3
  <2> QED BY <2>1 DEF WithDrums, DrumsHeld
<1>5. WithDrums({}) = DrumsHeld(FALSE)
  <2>1. \A c \in Chan, o \in 0..1 :
          (IF c \notin Drums THEN keyOn[c][o]
           ELSE IF <<c, o>> \in DrumKeys({}) THEN keyOn[c][o] \cup {"drum"}
           ELSE keyOn[c][o] \ {"drum"})
            = (IF c \in {} THEN {"chan"} ELSE {})
              \cup (IF FALSE /\ c \in Drums THEN {"drum"} ELSE {})
    BY <1>2, <1>3
  <2> QED BY <2>1 DEF WithDrums, DrumsHeld
<1> QED BY <1>4, <1>5

\* To BDh: the drum keys and the handler of channel 6 come and go with it.
LEMMA HoldsBD ==
  ASSUME NEW drums \in BOOLEAN, NEW val \in {0, 255},
         NEW h, NEW after,
         h = [lo |-> {}, hi |-> {}, c0 |-> {}, drums |-> drums],
         after = [lo |-> {}, hi |-> {}, c0 |-> {}, drums |-> IF val = 255 THEN TRUE ELSE FALSE],
         reg104 = {}, opl3Active \in BOOLEAN, Holds(h), WriteBD(val)
  PROVE  /\ Holds(after)'
         /\ UNCHANGED <<opl3Active, reg104, walkVars>>
<1> USE DEF modeVars, synthVars, keyVars, walkVars
<1>1. /\ regBD = [on |-> drums, keys |-> IF drums THEN Drum ELSE {}]
      /\ keyOn = DrumsHeld(drums)
  BY DEF Holds, DrumsHeld
<1>2. CASE regBD = BDOf(val) /\ UNCHANGED chipVars
  <2>1. drums = IF val = 255 THEN TRUE ELSE FALSE
    <3>1. regBD.on = drums /\ BDOf(0).on = FALSE /\ BDOf(255).on = TRUE
      BY <1>1, Bytes
    <3>2. val = 255 => drums = TRUE
      BY <1>2, <3>1
    <3>3. val = 0 => drums = FALSE
      BY <1>2, <3>1
    <3> QED BY <3>2, <3>3
  <2>2. UNCHANGED <<opl3Active, regBD, chanData, regB0, keyOn, regC0, mask, synthHandler>>
    BY <1>2 DEF chipVars
  <2> QED BY <1>2, <2>1, <2>2 DEF chipVars, Holds
<1>3. CASE WriteBDRhythm(BDOf(val))
  <2>1. val = 255 /\ BDOf(val) = [on |-> TRUE, keys |-> Drum]
    BY <1>3, Bytes DEF WriteBDRhythm
  <2>2. drums = FALSE
    BY <1>1, <1>3, <2>1 DEF WriteBDRhythm
  <2>3. regBD' = [on |-> TRUE, keys |-> Drum] /\ keyOn' = DrumsHeld(TRUE)
    <3>1. regBD' = BDOf(val) /\ keyOn' = WithDrums(BDOf(val).keys)
      BY <1>3 DEF WriteBDRhythm
    <3>2. WithDrums(Drum) = DrumsHeld(TRUE)
      BY <1>1, AllDrums
    <3> QED BY <2>1, <3>1, <3>2
  <2>4. synthHandler' = [synthHandler EXCEPT ![DrumChan] =
                           IF opl3Active THEN "sm3Percussion" ELSE "sm2Percussion"]
    BY <1>1, <1>3, <2>2 DEF WriteBDRhythm
  <2>5. UNCHANGED <<opl3Active, reg104, regC0, mask, regB0, chanData, walkVars>>
    BY <1>3 DEF WriteBDRhythm
  <2> QED BY <2>1, <2>2, <2>3, <2>4, <2>5 DEF Holds, DrumsHeld
<1>4. CASE WriteBDMelodic(BDOf(val))
  <2>1. val = 0 /\ BDOf(val) = [on |-> FALSE, keys |-> {}]
    BY <1>4, Bytes DEF WriteBDMelodic
  <2>2. drums = TRUE
    BY <1>1, <1>4, <2>1 DEF WriteBDMelodic
  <2>3. regBD' = [on |-> FALSE, keys |-> {}] /\ keyOn' = DrumsHeld(FALSE)
    BY <1>1, <1>4, <2>1, <2>2, AllDrums DEF WriteBDMelodic
  <2>4. regC0[DrumChan] = [am |-> FALSE, pan |-> {}]
    BY HandlerAssumption DEF Holds, Chan
  <2>5. mask' = mask
    <3>1. mask = [c \in Chan |-> {}]
      BY DEF Holds
    <3>2. mask' \in {mask, [mask EXCEPT ![DrumChan] = {}]}
      BY <1>1, <1>4, <2>2, <2>4 DEF WriteBDMelodic
    <3> QED BY <3>1, <3>2
  <2>6. synthHandler' = [synthHandler EXCEPT ![DrumChan] =
                           IF opl3Active THEN "sm3FM" ELSE "sm2FM"]
    <3>1. synthHandler' = [synthHandler EXCEPT ![DrumChan] =
                             SynthOf(DrumChan, regC0, opl3Active, FALSE)]
      BY <1>1, <1>4, <2>2 DEF WriteBDMelodic
    <3>2. SynthOf(DrumChan, regC0, opl3Active, FALSE)
            = IF opl3Active THEN "sm3FM" ELSE "sm2FM"
      BY <2>4 DEF SynthOf, TwoOpSynth
    <3> QED BY <3>1, <3>2
  <2>7. UNCHANGED <<opl3Active, reg104, regC0, regB0, chanData, walkVars>>
    BY <1>4 DEF WriteBDMelodic
  <2>8. after.lo = {} /\ after.hi = {} /\ after.c0 = {} /\ after.drums = FALSE
        /\ h.lo = {} /\ h.hi = {} /\ h.c0 = {} /\ h.drums = TRUE
    BY <2>1, <2>2
  <2>9. synthHandler' = [c \in Chan |->
          IF after.drums /\ c = DrumChan
          THEN IF opl3Active THEN "sm3Percussion" ELSE "sm2Percussion"
          ELSE IF opl3Active THEN IF c \in after.c0 THEN "sm3AM" ELSE "sm3FM"
                             ELSE IF c \in after.c0 THEN "sm2AM" ELSE "sm2FM"]
    BY <2>6, <2>8 DEF Holds
  <2>10. keyOn' = [c \in Chan |-> [o \in 0..1 |->
           (IF c \in after.hi THEN {"chan"} ELSE {})
             \cup (IF after.drums /\ c \in Drums THEN {"drum"} ELSE {})]]
    BY <2>3, <2>8 DEF DrumsHeld
  <2>11. regBD' = [on |-> after.drums, keys |-> IF after.drums THEN Drum ELSE {}]
    BY <2>3, <2>8
  <2> QED BY <2>5, <2>7, <2>8, <2>9, <2>10, <2>11 DEF Holds
<1> QED BY <1>2, <1>3, <1>4 DEF WriteBD

\* What the chip holds does not depend on the rest of its state.
LEMMA HoldsKept ==
  ASSUME NEW h, Holds(h), UNCHANGED <<opl3Active, regBD, synthVars, keyVars>>
  PROVE  Holds(h)'
BY DEF Holds, synthVars, keyVars

\* The channels whose register in row n of the map holds 0xff, when r is the
\* register under way and has got it (full).
Written(n, r, full) == IF full /\ (r \div 16) % 16 = n THEN RegChan(r) ELSE {}

\* What the chip holds then.
Content(r, full) ==
  [lo |-> Written(10, r, full), hi |-> Written(11, r, full), c0 |-> Written(12, r, full),
   drums |-> IF full /\ r = 189 THEN TRUE ELSE FALSE]

Held(r, full) ==
  /\ Holds(Content(r, full))
  /\ reg104 = {} \/ (full /\ r = 260)

\* A register decodes to no more than one channel.
LEMMA OneChannel ==
  ASSUME NEW r \in 0..511, NEW c \in RegChan(r)
  PROVE  RegChan(r) = {c} /\ c \in Chan
<1>1. (r \div 256) * 16 + (r % 16) \in Nat
  OBVIOUS
<1>2. RegChan(r) \subseteq Chan
  BY <1>1, ChanAtIsChan DEF RegChan
<1>3. \A d, e \in RegChan(r) : d = e
  BY DEF RegChan, ChanAt
<1> QED BY <1>2, <1>3

\* How the rows of the map lie.
LEMMA Rows ==
  ASSUME NEW r \in 0..511
  PROVE  /\ r = 260 => (r \div 16) % 16 = 0
         /\ r = 189 => (r \div 16) % 16 = 11 /\ RegChan(r) = {}
         /\ OfOp(r) => (r \div 16) % 16 \notin {0, 10, 11, 12}
<1>1. 260 \div 16 = 16 /\ 16 % 16 = 0 /\ 189 \div 16 = 11 /\ 11 % 16 = 11
  OBVIOUS
<1>2. RegChan(189) = {}
  <2>1. (189 \div 256) * 16 + (189 % 16) = 13 /\ 13 % 16 = 13
    OBVIOUS
  <2> QED BY <2>1 DEF RegChan, ChanAt
<1>3. OfOp(r) => (r \div 16) % 16 \notin {0, 10, 11, 12}
  <2>1. (r \div 32) % 8 = ((r \div 16) % 16) \div 2
    OBVIOUS
  <2>2. 0 \div 2 = 0 /\ 10 \div 2 = 5 /\ 11 \div 2 = 5 /\ 12 \div 2 = 6
    OBVIOUS
  <2> QED BY <2>1, <2>2 DEF OfOp
<1> QED BY <1>1, <1>2, <1>3

\* The row of the map that a register lies in.
Row(r) == (r \div 16) % 16

\* A register of no channel and no drums.
Elsewhere(r) == (Row(r) \notin {10, 11, 12} \/ RegChan(r) = {}) /\ r # 189

\* What each register leaves behind: one of no channel nothing, ...
LEMMA NoContent ==
  ASSUME NEW r \in 0..511, NEW full \in BOOLEAN
  PROVE  Elsewhere(r) =>
           Content(r, full) = [lo |-> {}, hi |-> {}, c0 |-> {}, drums |-> FALSE]
<1> SUFFICES ASSUME Elsewhere(r)
             PROVE  Content(r, full) = [lo |-> {}, hi |-> {}, c0 |-> {}, drums |-> FALSE]
  OBVIOUS
<1>1. \A n \in {10, 11, 12} : Written(n, r, full) = {}
  BY DEF Written, Row, Elsewhere
<1>2. (IF full /\ r = 189 THEN TRUE ELSE FALSE) = FALSE
  BY DEF Elsewhere
<1> QED BY <1>1, <1>2 DEF Content

\* ... one of a channel its byte, ...
LEMMA FrequencyContent ==
  ASSUME NEW r \in 0..511, NEW full \in BOOLEAN
  PROVE  Row(r) = 10 /\ r # 189 =>
           Content(r, full) = [lo |-> IF full THEN RegChan(r) ELSE {}, hi |-> {},
                               c0 |-> {}, drums |-> FALSE]
<1> SUFFICES ASSUME Row(r) = 10 /\ r # 189
             PROVE  Content(r, full) = [lo |-> IF full THEN RegChan(r) ELSE {}, hi |-> {},
                                        c0 |-> {}, drums |-> FALSE]
  OBVIOUS
<1> DEFINE chans == IF full THEN RegChan(r) ELSE {}
<1>1. /\ Written(10, r, full) = chans /\ Written(11, r, full) = {}
      /\ Written(12, r, full) = {}
  BY DEF Written, Row
<1>2. (IF full /\ r = 189 THEN TRUE ELSE FALSE) = FALSE
  OBVIOUS
<1> QED BY <1>1, <1>2 DEF Content

LEMMA KeyContent ==
  ASSUME NEW r \in 0..511, NEW full \in BOOLEAN
  PROVE  Row(r) = 11 /\ r # 189 =>
           Content(r, full) = [lo |-> {}, hi |-> IF full THEN RegChan(r) ELSE {},
                               c0 |-> {}, drums |-> FALSE]
<1> SUFFICES ASSUME Row(r) = 11 /\ r # 189
             PROVE  Content(r, full) = [lo |-> {}, hi |-> IF full THEN RegChan(r) ELSE {},
                                        c0 |-> {}, drums |-> FALSE]
  OBVIOUS
<1> DEFINE chans == IF full THEN RegChan(r) ELSE {}
<1>1. /\ Written(10, r, full) = {} /\ Written(11, r, full) = chans
      /\ Written(12, r, full) = {}
  BY DEF Written, Row
<1>2. (IF full /\ r = 189 THEN TRUE ELSE FALSE) = FALSE
  OBVIOUS
<1> QED BY <1>1, <1>2 DEF Content

LEMMA FeedbackContent ==
  ASSUME NEW r \in 0..511, NEW full \in BOOLEAN
  PROVE  Row(r) = 12 /\ r # 189 =>
           Content(r, full) = [lo |-> {}, hi |-> {},
                               c0 |-> IF full THEN RegChan(r) ELSE {}, drums |-> FALSE]
<1> SUFFICES ASSUME Row(r) = 12 /\ r # 189
             PROVE  Content(r, full) = [lo |-> {}, hi |-> {},
                                        c0 |-> IF full THEN RegChan(r) ELSE {}, drums |-> FALSE]
  OBVIOUS
<1> DEFINE chans == IF full THEN RegChan(r) ELSE {}
<1>1. /\ Written(10, r, full) = {} /\ Written(11, r, full) = {}
      /\ Written(12, r, full) = chans
  BY DEF Written, Row
<1>2. (IF full /\ r = 189 THEN TRUE ELSE FALSE) = FALSE
  OBVIOUS
<1> QED BY <1>1, <1>2 DEF Content

\* ... and BDh the drums.
LEMMA RhythmContent ==
  ASSUME NEW full \in BOOLEAN
  PROVE  Content(189, full) = [lo |-> {}, hi |-> {}, c0 |-> {}, drums |-> full]
<1>1. \A n : Written(n, 189, full) = {}
  BY Rows DEF Written
<1>2. Content(189, full) = [lo |-> {}, hi |-> {}, c0 |-> {},
                            drums |-> IF full /\ 189 = 189 THEN TRUE ELSE FALSE]
  BY <1>1 DEF Content
<1>3. CASE full = TRUE
  BY <1>2, <1>3
<1>4. CASE full = FALSE
  BY <1>2, <1>4
<1> QED BY <1>3, <1>4

\* Whatever one register held of the two bytes, a write of either leaves the
\* chip with that byte in it and zeros elsewhere.
LEMMA WriteHolds ==
  ASSUME NEW r \in 0..511, NEW full \in BOOLEAN, NEW now \in BOOLEAN, NEW val
  PROVE  r # 261 /\ val = (IF now THEN 255 ELSE 0) /\ opl3Active \in BOOLEAN
         /\ Held(r, full) /\ WriteReg(r, val)
           => Held(r, now)' /\ UNCHANGED <<opl3Active, walkVars>>
<1>f. /\ Elsewhere(r) =>
           Content(r, full) = [lo |-> {}, hi |-> {}, c0 |-> {}, drums |-> FALSE]
      /\ Row(r) = 10 /\ r # 189 =>
           Content(r, full) = [lo |-> IF full THEN RegChan(r) ELSE {}, hi |-> {}, c0 |-> {},
                               drums |-> FALSE]
      /\ Row(r) = 11 /\ r # 189 =>
           Content(r, full) = [lo |-> {}, hi |-> IF full THEN RegChan(r) ELSE {}, c0 |-> {},
                               drums |-> FALSE]
      /\ Row(r) = 12 /\ r # 189 =>
           Content(r, full) = [lo |-> {}, hi |-> {}, c0 |-> IF full THEN RegChan(r) ELSE {},
                               drums |-> FALSE]
  <2>1. Elsewhere(r) =>
          Content(r, full) = [lo |-> {}, hi |-> {}, c0 |-> {}, drums |-> FALSE]
    BY NoContent, Zenon
  <2>2. Row(r) = 10 /\ r # 189 =>
          Content(r, full) = [lo |-> IF full THEN RegChan(r) ELSE {}, hi |-> {}, c0 |-> {},
                              drums |-> FALSE]
    BY FrequencyContent, Zenon
  <2>3. Row(r) = 11 /\ r # 189 =>
          Content(r, full) = [lo |-> {}, hi |-> IF full THEN RegChan(r) ELSE {}, c0 |-> {},
                              drums |-> FALSE]
    BY KeyContent, Zenon
  <2>4. Row(r) = 12 /\ r # 189 =>
          Content(r, full) = [lo |-> {}, hi |-> {}, c0 |-> IF full THEN RegChan(r) ELSE {},
                              drums |-> FALSE]
    BY FeedbackContent, Zenon
  <2> QED BY <2>1, <2>2, <2>3, <2>4, Zenon
<1>n. /\ Elsewhere(r) =>
           Content(r, now) = [lo |-> {}, hi |-> {}, c0 |-> {}, drums |-> FALSE]
      /\ Row(r) = 10 /\ r # 189 =>
           Content(r, now) = [lo |-> IF now THEN RegChan(r) ELSE {}, hi |-> {}, c0 |-> {},
                               drums |-> FALSE]
      /\ Row(r) = 11 /\ r # 189 =>
           Content(r, now) = [lo |-> {}, hi |-> IF now THEN RegChan(r) ELSE {}, c0 |-> {},
                               drums |-> FALSE]
      /\ Row(r) = 12 /\ r # 189 =>
           Content(r, now) = [lo |-> {}, hi |-> {}, c0 |-> IF now THEN RegChan(r) ELSE {},
                               drums |-> FALSE]
  <2>1. Elsewhere(r) =>
          Content(r, now) = [lo |-> {}, hi |-> {}, c0 |-> {}, drums |-> FALSE]
    BY NoContent, Zenon
  <2>2. Row(r) = 10 /\ r # 189 =>
          Content(r, now) = [lo |-> IF now THEN RegChan(r) ELSE {}, hi |-> {}, c0 |-> {},
                              drums |-> FALSE]
    BY FrequencyContent, Zenon
  <2>3. Row(r) = 11 /\ r # 189 =>
          Content(r, now) = [lo |-> {}, hi |-> IF now THEN RegChan(r) ELSE {}, c0 |-> {},
                              drums |-> FALSE]
    BY KeyContent, Zenon
  <2>4. Row(r) = 12 /\ r # 189 =>
          Content(r, now) = [lo |-> {}, hi |-> {}, c0 |-> IF now THEN RegChan(r) ELSE {},
                              drums |-> FALSE]
    BY FeedbackContent, Zenon
  <2> QED BY <2>1, <2>2, <2>3, <2>4, Zenon
<1>r. /\ r = 189 => Content(r, full) = [lo |-> {}, hi |-> {}, c0 |-> {}, drums |-> full]
      /\ r = 189 => Content(r, now) = [lo |-> {}, hi |-> {}, c0 |-> {}, drums |-> now]
  BY RhythmContent, Zenon
<1> SUFFICES ASSUME r # 261, val = (IF now THEN 255 ELSE 0), opl3Active \in BOOLEAN,
                    Held(r, full), WriteReg(r, val)
             PROVE  Held(r, now)' /\ UNCHANGED <<opl3Active, walkVars>>
  OBVIOUS
<1> USE DEF modeVars, walkVars
<1> DEFINE h == Content(r, full)
           after == Content(r, now)
<1>1. Holds(h) /\ (reg104 = {} \/ (full /\ r = 260))
  BY DEF Held
<1>2. val \in {0, 255} /\ (val = 255 <=> now)
  OBVIOUS
<1>4. ASSUME Holds(after)', reg104' = {} \/ (now /\ r = 260) PROVE Held(r, now)'
  BY <1>4 DEF Held
<1> HIDE DEF h, after
<1>5. ASSUME Elsewhere(r) PROVE h = after
  <2>1. Content(r, full) = [lo |-> {}, hi |-> {}, c0 |-> {}, drums |-> FALSE]
    BY <1>5, <1>f
  <2>2. Content(r, now) = [lo |-> {}, hi |-> {}, c0 |-> {}, drums |-> FALSE]
    BY <1>5, <1>n
  <2> QED BY <2>1, <2>2 DEF h, after
<1>6. ASSUME Elsewhere(r),
             UNCHANGED <<opl3Active, regBD, synthVars, keyVars, walkVars>>,
             reg104' = {} \/ (now /\ r = 260)
      PROVE  Held(r, now)' /\ UNCHANGED <<opl3Active, walkVars>>
  <2>1. Holds(after)
    BY <1>1, <1>5, <1>6
  <2>2. Holds(after)'
    BY <1>6, <2>1, HoldsKept
  <2> QED BY <1>4, <1>6, <2>2
<1>7. CASE OfChip(r) /\ WriteMode(r, val)
  <2>1. Row(r) = 0 /\ r # 189
    BY <1>7, Rows DEF OfChip, Row
  <2>2. UNCHANGED <<opl3Active, regBD, synthVars, keyVars, walkVars>>
    BY <1>7 DEF WriteMode, Write104, chipVars
  <2>3. r # 260 => reg104' = {}
    BY <1>1, <1>7 DEF WriteMode, chipVars
  <2>4. r = 260 => reg104' = Pairs(val)
    BY <1>7 DEF WriteMode, Write104, chipVars
  <2>5. reg104' = {} \/ (now /\ r = 260)
    BY <1>2, <2>3, <2>4, Bytes
  <2> QED BY <1>6, <2>1, <2>2, <2>5, 0 # 10, 0 # 11, 0 # 12 DEF Elsewhere
<1>8. CASE OfRhythm(r) /\ WriteBD(val)
  <2>1. r = 189 /\ RegChan(r) = {}
    BY <1>8, Rows DEF OfRhythm
  <2>2. h = [lo |-> {}, hi |-> {}, c0 |-> {}, drums |-> full]
    <3>1. Content(r, full) = [lo |-> {}, hi |-> {}, c0 |-> {}, drums |-> full]
      BY <2>1, <1>r
    <3> QED BY <3>1 DEF h
  <2>3. after = [lo |-> {}, hi |-> {}, c0 |-> {},
                 drums |-> IF val = 255 THEN TRUE ELSE FALSE]
    <3>1. after = [lo |-> {}, hi |-> {}, c0 |-> {}, drums |-> now]
      <4>1. Content(r, now) = [lo |-> {}, hi |-> {}, c0 |-> {}, drums |-> now]
        BY <2>1, <1>r
      <4> QED BY <4>1 DEF after
    <3>2. (IF val = 255 THEN TRUE ELSE FALSE) = now
      BY <1>2
    <3> QED BY <3>1, <3>2
  <2>4. reg104 = {}
    BY <1>1, <2>1
  <2>5. Holds(after)' /\ UNCHANGED <<opl3Active, reg104, walkVars>>
    BY <1>1, <1>2, <1>8, <2>2, <2>3, <2>4, HoldsBD
  <2> QED BY <1>4, <2>4, <2>5
<1>9. CASE OfChannel(r) /\ WriteChan(r, val)
  <2>1. PICK c \in RegChan(r) :
          CASE Row(r) = 10 ->
                 IF Muted(c) \/ chanData[c].lo = val THEN UNCHANGED chipVars
                 ELSE WriteA0(c, val)
            [] Row(r) = 11 ->
                 IF Muted(c) THEN UNCHANGED chipVars
                 ELSE WriteB0(c, val % 32, Bit(val, 5))
            [] Row(r) = 12 ->
                 \/ regC0[c] = C0Of(val) /\ UNCHANGED chipVars
                 \/ WriteC0(c, C0Of(val))
    BY <1>9 DEF WriteChan, Row
  <2>2. RegChan(r) = {c} /\ c \in Chan
    BY OneChannel
  <2>3. Row(r) \in {10, 11, 12} /\ r # 189 /\ r # 260
    BY <1>9, Rows DEF OfChannel, OfRhythm, Row
  <2>4. reg104 = {}
    BY <1>1, <2>3
  <2>5. (IF full THEN {c} ELSE {}) \in {{}, {c}}
    OBVIOUS
  <2>6. ASSUME Holds(after)', UNCHANGED <<opl3Active, reg104, walkVars>>
        PROVE  Held(r, now)' /\ UNCHANGED <<opl3Active, walkVars>>
    BY <1>4, <2>4, <2>6
  <2>7. CASE Row(r) = 10
    <3>1. h = [lo |-> IF full THEN {c} ELSE {}, hi |-> {}, c0 |-> {}, drums |-> FALSE]
      <4>1. Content(r, full) = [lo |-> IF full THEN RegChan(r) ELSE {}, hi |-> {}, c0 |-> {},
                                drums |-> FALSE]
        BY <2>3, <2>7, <1>f
      <4> QED BY <2>2, <4>1 DEF h
    <3>2. after = [lo |-> IF val = 255 THEN {c} ELSE {}, hi |-> {}, c0 |-> {},
                   drums |-> FALSE]
      <4>1. Content(r, now) = [lo |-> IF now THEN RegChan(r) ELSE {}, hi |-> {}, c0 |-> {},
                                drums |-> FALSE]
        BY <2>3, <2>7, <1>n
      <4> QED BY <1>2, <2>2, <4>1 DEF after
    <3>3. IF Muted(c) \/ chanData[c].lo = val THEN UNCHANGED chipVars ELSE WriteA0(c, val)
      BY <2>1, <2>7, 10 # 11, 10 # 12
    <3>4. Holds(after)' /\ UNCHANGED <<opl3Active, reg104, walkVars>>
      BY <1>1, <1>2, <2>2, <2>4, <2>5, <3>1, <3>2, <3>3, HoldsA0
    <3> QED BY <2>6, <3>4
  <2>8. CASE Row(r) = 11
    <3>1. h = [lo |-> {}, hi |-> IF full THEN {c} ELSE {}, c0 |-> {}, drums |-> FALSE]
      <4>1. Content(r, full) = [lo |-> {}, hi |-> IF full THEN RegChan(r) ELSE {}, c0 |-> {},
                                drums |-> FALSE]
        BY <2>3, <2>8, <1>f
      <4> QED BY <2>2, <4>1 DEF h
    <3>2. after = [lo |-> {}, hi |-> IF val = 255 THEN {c} ELSE {}, c0 |-> {},
                   drums |-> FALSE]
      <4>1. Content(r, now) = [lo |-> {}, hi |-> IF now THEN RegChan(r) ELSE {}, c0 |-> {},
                                drums |-> FALSE]
        BY <2>3, <2>8, <1>n
      <4> QED BY <1>2, <2>2, <4>1 DEF after
    <3>3. IF Muted(c) THEN UNCHANGED chipVars ELSE WriteB0(c, val % 32, Bit(val, 5))
      BY <2>1, <2>8, 10 # 11, 11 # 12
    <3>4. Holds(after)' /\ UNCHANGED <<opl3Active, reg104, walkVars>>
      BY <1>1, <1>2, <2>2, <2>4, <2>5, <3>1, <3>2, <3>3, HoldsB0
    <3> QED BY <2>6, <3>4
  <2>9. CASE Row(r) = 12
    <3>1. h = [lo |-> {}, hi |-> {}, c0 |-> IF full THEN {c} ELSE {}, drums |-> FALSE]
      <4>1. Content(r, full) = [lo |-> {}, hi |-> {}, c0 |-> IF full THEN RegChan(r) ELSE {},
                                drums |-> FALSE]
        BY <2>3, <2>9, <1>f
      <4> QED BY <2>2, <4>1 DEF h
    <3>2. after = [lo |-> {}, hi |-> {}, c0 |-> IF val = 255 THEN {c} ELSE {},
                   drums |-> FALSE]
      <4>1. Content(r, now) = [lo |-> {}, hi |-> {}, c0 |-> IF now THEN RegChan(r) ELSE {},
                                drums |-> FALSE]
        BY <2>3, <2>9, <1>n
      <4> QED BY <1>2, <2>2, <4>1 DEF after
    <3>3. \/ regC0[c] = C0Of(val) /\ UNCHANGED chipVars
          \/ WriteC0(c, C0Of(val))
      BY <2>1, <2>9, 10 # 12, 11 # 12
    <3>4. Holds(after)' /\ UNCHANGED <<opl3Active, reg104, walkVars>>
      BY <1>1, <1>2, <2>2, <2>4, <2>5, <3>1, <3>2, <3>3, HoldsC0
    <3> QED BY <2>6, <3>4
  <2> QED BY <2>3, <2>7, <2>8, <2>9
<1>10. CASE OfOp(r) /\ UNCHANGED chipVars
  <2>1. Row(r) \notin {10, 11, 12} /\ r # 189 /\ r # 260
    BY <1>10, Rows DEF Row
  <2> QED BY <1>1, <1>6, <1>10, <2>1 DEF chipVars, Elsewhere
<1>11. CASE ~(OfChip(r) \/ OfRhythm(r) \/ OfChannel(r)) /\ UNCHANGED chipVars
  <2>1. Elsewhere(r) /\ r # 260
    BY <1>11, Rows DEF OfChip, OfRhythm, OfChannel, Row, Elsewhere
  <2> QED BY <1>1, <1>6, <1>11, <2>1 DEF chipVars, Elsewhere
<1> QED BY <1>7, <1>8, <1>9, <1>10, <1>11 DEF WriteReg

\* A register that got its zero holds what any other would, having got it.
LEMMA EmptyContent ==
  ASSUME NEW r, NEW full \in BOOLEAN, full = FALSE
  PROVE  Content(r, full) = [lo |-> {}, hi |-> {}, c0 |-> {}, drums |-> FALSE]
BY DEF Content, Written

\* The depths follow BDh alone.
LEMMA WriteDepths ==
  ASSUME NEW r \in 0..511, NEW val \in {0, 255}, WriteReg(r, val)
  PROVE  /\ UNCHANGED <<lfoCounter, noiseValue>>
         /\ r # 189 => UNCHANGED <<vibratoStrength, tremoloStrength>>
         /\ r = 189 /\ val = 0 => vibratoStrength' = 1 /\ tremoloStrength' = 2
<1>1. CASE WriteDepth(Bit(val, 6), Bit(val, 7)) /\ r = 189
  <2>1. val = 0 => ~Bit(val, 6) /\ ~Bit(val, 7)
    BY Bytes
  <2> QED BY <1>1, <2>1 DEF WriteDepth, indices, noiseVars
<1>2. CASE UNCHANGED lfoVars /\ r # 189
  BY <1>2 DEF lfoVars, indices, strengths, noiseVars
<1>3. OfOp(r) \/ OfChip(r) => r # 189
  <2>1. 11 # 0
    OBVIOUS
  <2> QED BY <2>1, Rows DEF OfChip
<1>4. (WriteDepth(Bit(val, 6), Bit(val, 7)) /\ r = 189) \/ (UNCHANGED lfoVars /\ r # 189)
  BY <1>3 DEF WriteReg, WriteBD, OfRhythm, OfChannel
<1> QED BY <1>1, <1>2, <1>4

\* An operator register loses its mark with 0xff, and none ever comes back.
Computed(r) ==
  OfOp(r) => \A op \in RegOp(r) : <<op[1], op[2], OpRegOf(r)>> \notin unset

LEMMA WriteComputes ==
  ASSUME NEW r \in 0..511, NEW val \in {0, 255}, WriteReg(r, val)
  PROVE  /\ unset' \subseteq unset
         /\ val = 255 => Computed(r)'
<1>1. CASE OfOp(r) /\ WriteOp(r, val)
  <2>1. unset' \subseteq unset
    BY <1>1 DEF WriteOp
  <2>2. ASSUME val = 255, NEW op \in RegOp(r)
        PROVE  <<op[1], op[2], OpRegOf(r)>> \notin unset'
    <3>1. unset' = unset \ {<<p[1], p[2], OpRegOf(r)>> : p \in RegOp(r)}
      <4>1. val # 0
        BY <2>2
      <4> QED BY <1>1, <4>1 DEF WriteOp
    <3> QED BY <2>2, <3>1
  <2> QED BY <2>1, <2>2 DEF Computed
<1>2. CASE ~OfOp(r) /\ UNCHANGED unset
  BY <1>2 DEF Computed
<1>3. OfChip(r) \/ OfRhythm(r) \/ OfChannel(r) => ~OfOp(r)
  BY Rows DEF OfChip, OfRhythm, OfChannel
<1> QED BY <1>1, <1>2, <1>3 DEF WriteReg

\* Register r of the map is the one of kind x of operator o of channel c.
RegisterOf(r, c, o, x) == OfOp(r) /\ <<c, o>> \in RegOp(r) /\ OpRegOf(r) = x

\* Each of the five caches of each operator has its register.
LEMMA EveryOperator ==
  ASSUME NEW c \in Chan, NEW o \in 0..1, NEW x \in OpReg
  PROVE  \E r \in 0..511 : RegisterOf(r, c, o, x)
<1>1. PICK j \in {1, 2, 3, 4, 7} :
        \A r \in 0..511 : (r \div 32) % 8 = j => OfOp(r) /\ OpRegOf(r) = x
  <2>1. x \in {"20", "40", "60", "80", "E0"}
    BY DEF OpReg
  <2>2. \A r \in 0..511 : /\ (r \div 32) % 8 = 1 => OfOp(r) /\ OpRegOf(r) = "20"
                          /\ (r \div 32) % 8 = 2 => OfOp(r) /\ OpRegOf(r) = "40"
                          /\ (r \div 32) % 8 = 3 => OfOp(r) /\ OpRegOf(r) = "60"
                          /\ (r \div 32) % 8 = 4 => OfOp(r) /\ OpRegOf(r) = "80"
                          /\ (r \div 32) % 8 = 7 => OfOp(r) /\ OpRegOf(r) = "E0"
    BY DEF OfOp, OpRegOf
  <2> QED BY <2>1, <2>2
<1>2. c \in 0..17
  BY HandlerAssumption DEF Chan
<1> DEFINE b == c \div 9
           at == c % 9
           n == IF at < 6 THEN (at % 2) * 3 + (at \div 2) ELSE at
           k == 32 * j
           low == (n \div 3) * 8 + (n % 3) + 3 * o
           r == b * 256 + k + (n \div 3) * 8 + (n % 3) + 3 * o
<1>3. b \in 0..1 /\ at \in 0..8 /\ c = 9 * b + at
  BY <1>2
<1> HIDE DEF b, at
<1>4. n \in 0..8 /\ (IF n < 6 THEN (n % 3) * 2 + (n \div 3) ELSE n) = at
  BY <1>3
<1> HIDE DEF n
<1>5. c \in RegChan(b * 256 + n)
  <2>1. (b * 256 + n) \div 256 = b /\ (b * 256 + n) % 16 = n
    BY <1>3, <1>4
  <2>2. (b * 16 + n) % 16 = n /\ (b * 16 + n >= 16 <=> b = 1)
    BY <1>3, <1>4
  <2>3. ChanAt(b * 16 + n) = {at + (IF b = 1 THEN 9 ELSE 0)}
    <3> DEFINE i == b * 16 + n
    <3>1. i % 16 = n /\ (i >= 16 <=> b = 1) /\ ~(n >= 9)
      BY <1>4, <2>2
    <3> HIDE DEF i
    <3>2. ChanAt(i) = {(IF n < 6 THEN (n % 3) * 2 + (n \div 3) ELSE n)
                         + (IF i >= 16 THEN 9 ELSE 0)}
      BY <3>1 DEF ChanAt
    <3> QED BY <1>4, <3>1, <3>2 DEF i
  <2> QED BY <1>3, <2>1, <2>3 DEF RegChan
<1>6. k \in OpBase /\ k \in 0..224 /\ k \div 32 = j
  BY DEF OpBase
<1>7. r = 256 * b + 32 * j + low /\ low \in 0..31
  BY <1>3, <1>4
<1> HIDE DEF low
<1>8. r \in 0..511 /\ (r \div 32) % 8 = j
  <2>1. r \div 32 = 8 * b + j
    BY <1>3, <1>7
  <2> QED BY <1>3, <1>7, <2>1
<1>9. <<c, o>> \in RegOp(r)
  BY <1>3, <1>4, <1>5, <1>6, OperatorMeets
<1> QED BY <1>1, <1>8, <1>9 DEF RegisterOf

\* What the sweep keeps: as the chip was made, then register by register.
Cleared ==
  /\ ~generating /\ ch = 0 /\ lfoCounter = 0 /\ noiseValue = {0}
  /\ unset \subseteq Chan \X (0..1) \X OpReg

Made ==
  /\ opl3Active = FALSE /\ reg104 = {} /\ regBD = [on |-> FALSE, keys |-> {}]
  /\ regC0 = [c \in Chan |-> [am |-> FALSE, pan |-> {}]]
  /\ synthHandler = [c \in Chan |-> "sm2FM"]
  /\ regB0 = [c \in Chan |-> FALSE]
  /\ chanData = [c \in Chan |-> [lo |-> 0, hi |-> 0]]
  /\ keyOn = [c \in Chan |-> [o \in 0..1 |-> {}]]
  /\ reg = 0 /\ fill = TRUE

Sweeping ==
  /\ opl3Active = (IF phase = "opl3" THEN TRUE ELSE FALSE)
  /\ reg \in 0..SweepEnd /\ reg # 261 /\ fill \in BOOLEAN /\ (reg = SweepEnd => fill)
  /\ \E r \in 0..512, full \in BOOLEAN : r = reg /\ full # fill /\ Held(r, full)

\* The depths are settled once BDh was swept, for the first or second time.
Shallow == vibratoStrength = 1 /\ tremoloStrength = 2

SweepInv ==
  /\ phase \in {"made", "opl3", "opl2", "ready", "block"}
  /\ phase \in {"made", "opl3", "opl2"} => Cleared
  /\ phase = "made" => Made
  /\ phase \in {"opl3", "opl2"} => Sweeping
  /\ phase = "opl3" =>
       /\ reg > 189 => Shallow
       /\ \A r \in 0..511 : r < reg \/ (r = reg /\ ~fill) => Computed(r)
  /\ phase = "opl2" =>
       /\ (reg = 189 /\ ~fill) \/ Shallow
       /\ unset = {}

LEMMA SweepInit == HandlerInit => SweepInv
BY DEF HandlerInit, LfoInit, SweepInv, Cleared, Made

\* When every register of both banks was swept, all was computed.
LEMMA AllComputed ==
  unset \subseteq Chan \X (0..1) \X OpReg /\ (\A r \in 0..511 : Computed(r)) => unset = {}
<1>1. ASSUME NEW c \in Chan, NEW o \in 0..1, NEW x \in OpReg,
             \A r \in 0..511 : Computed(r)
      PROVE  <<c, o, x>> \notin unset
  <2>1. PICK r \in 0..511 : RegisterOf(r, c, o, x)
    BY EveryOperator
  <2>2. \A op \in RegOp(r) : <<op[1], op[2], OpRegOf(r)>> \notin unset
    BY <1>1, <2>1 DEF Computed, RegisterOf
  <2> QED BY <2>1, <2>2 DEF RegisterOf
<1> QED BY <1>1

\* Into opl3 mode, which gives every channel that mode's plain handler.
LEMMA SweepEntersOpl3 ==
  ASSUME SweepInv, EnterOpl3
  PROVE  SweepInv'
<1>1. Made /\ Cleared /\ phase' = "opl3" /\ reg' = 0 /\ fill' = TRUE
  BY DEF EnterOpl3, SweepInv, Made
<1>2. WriteMode(261, 1) /\ UNCHANGED <<lfoVars, unset>>
  <2>1. /\ (261 \div 16) % 16 = 0 /\ (261 \div 32) % 8 = 0 /\ 261 # 189
        /\ 0 \notin {10, 11, 12} /\ 0 \notin {1, 2, 3, 4, 7}
    OBVIOUS
  <2> QED BY <2>1 DEF EnterOpl3, WriteReg, OfChip, OfRhythm, OfChannel, OfOp
<1>3. Write105(TRUE)
  <2>1. Bit(1, 0) = TRUE
    BY DEF Bit
  <2>2. opl3Active # Bit(1, 0)
    BY <1>1, <2>1 DEF Made
  <2>3. Write105(Bit(1, 0))
    BY <1>2, <2>2 DEF WriteMode
  <2> QED BY <2>1, <2>3, Zenon
<1>4. /\ opl3Active' = TRUE /\ reg104' = {} /\ UNCHANGED <<regBD, regC0, keyVars, walkVars>>
      /\ synthHandler' = [c \in Chan |-> "sm3FM"] /\ mask' = [c \in Chan |-> {}]
  BY <1>1, <1>3 DEF Write105, Made, SynthOf, TwoOpSynth
<1> DEFINE h == [lo |-> {}, hi |-> {}, c0 |-> {}, drums |-> FALSE]
<1>5. Holds(h)'
  BY <1>1, <1>4 DEF Holds, Made, keyVars
<1> HIDE DEF h
<1>6. PICK r, full : r = 0 /\ full = FALSE
  BY Zenon
<1>7. Held(r, full)'
  <2>1. Content(r, full) = h
    BY <1>6, EmptyContent DEF h
  <2> QED BY <1>4, <1>5, <2>1 DEF Held
<1>8. Sweeping'
  <2>1. r \in 0..512 /\ r = reg'
    BY <1>1, <1>6
  <2>2. full \in BOOLEAN /\ full # fill'
    BY <1>1, <1>6, Zenon
  <2>3. \E q \in 0..512, now \in BOOLEAN : q = reg' /\ now # fill' /\ Held(q, now)'
    BY <1>7, <2>1, <2>2, Zenon
  <2>4. /\ opl3Active' = (IF phase' = "opl3" THEN TRUE ELSE FALSE)
        /\ reg' \in 0..SweepEnd' /\ reg' # 261 /\ fill' \in BOOLEAN /\ reg' # SweepEnd'
    BY <1>1, <1>4 DEF SweepEnd
  <2> QED BY <2>3, <2>4, Zenon DEF Sweeping
<1>9. Cleared'
  BY <1>1, <1>2, <1>4 DEF Cleared, walkVars, lfoVars, indices, noiseVars
<1> QED BY <1>1, <1>8, <1>9 DEF SweepInv

\* Into opl2 mode, when both banks are swept.
LEMMA SweepEntersOpl2 ==
  ASSUME SweepInv, EnterOpl2
  PROVE  SweepInv'
<1>1. /\ phase = "opl3" /\ reg = 512 /\ fill = TRUE /\ Cleared /\ Shallow
      /\ phase' = "opl2" /\ reg' = 0 /\ fill' = TRUE /\ WriteReg(261, 0)
  BY DEF EnterOpl2, SweepInv, Sweeping, SweepEnd
<1>2. PICK q \in 0..512, full \in BOOLEAN : q = reg /\ full # fill /\ Held(q, full)
  BY <1>1 DEF SweepInv, Sweeping
<1>3. full = FALSE
  BY <1>1, <1>2
<1> DEFINE h == [lo |-> {}, hi |-> {}, c0 |-> {}, drums |-> FALSE]
<1>4. opl3Active = TRUE /\ reg104 = {} /\ Holds(h)
  <2>1. Content(q, full) = h
    BY <1>3, EmptyContent
  <2>2. Holds(h) /\ reg104 = {}
    BY <1>2, <1>3, <2>1 DEF Held
  <2>3. opl3Active = TRUE
    BY <1>1 DEF SweepInv, Sweeping
  <2> QED BY <2>2, <2>3
<1>5. WriteMode(261, 0) /\ UNCHANGED <<lfoVars, unset>>
  <2>1. /\ (261 \div 16) % 16 = 0 /\ (261 \div 32) % 8 = 0 /\ 261 # 189
        /\ 0 \notin {10, 11, 12} /\ 0 \notin {1, 2, 3, 4, 7}
    OBVIOUS
  <2> QED BY <1>1, <2>1 DEF WriteReg, OfChip, OfRhythm, OfChannel, OfOp
<1>6. Write105(FALSE)
  <2>1. Bit(0, 0) = FALSE
    BY DEF Bit
  <2>2. opl3Active # Bit(0, 0)
    BY <1>4, <2>1
  <2>3. Write105(Bit(0, 0))
    BY <1>5, <2>2 DEF WriteMode
  <2> QED BY <2>1, <2>3, Zenon
<1>7. /\ opl3Active' = FALSE /\ UNCHANGED <<reg104, regBD, regC0, mask, keyVars, walkVars>>
      /\ synthHandler' = [c \in Chan |-> "sm2FM"]
  <2>1. \A c \in Chan : SynthOf(c, regC0, FALSE, regBD.on) = "sm2FM"
    BY <1>4 DEF SynthOf, TwoOpSynth, Holds
  <2> QED BY <1>6, <2>1 DEF Write105
<1>8. Holds(h)'
  BY <1>4, <1>7 DEF Holds, keyVars
<1> HIDE DEF h
<1>9. PICK r, now : r = 0 /\ now = FALSE
  BY Zenon
<1>10. Held(r, now)'
  <2>1. Content(r, now) = h
    BY <1>9, EmptyContent DEF h
  <2> QED BY <1>4, <1>7, <1>8, <2>1 DEF Held
<1>11. Sweeping'
  <2>1. r \in 0..512 /\ r = reg'
    BY <1>1, <1>9
  <2>2. now \in BOOLEAN /\ now # fill'
    BY <1>1, <1>9, Zenon
  <2>3. \E n \in 0..512, f \in BOOLEAN : n = reg' /\ f # fill' /\ Held(n, f)'
    BY <1>10, <2>1, <2>2, Zenon
  <2>4. /\ opl3Active' = (IF phase' = "opl3" THEN TRUE ELSE FALSE)
        /\ reg' \in 0..SweepEnd' /\ reg' # 261 /\ fill' \in BOOLEAN /\ reg' # SweepEnd'
    <3>1. SweepEnd' = 255
      BY <1>1 DEF SweepEnd
    <3>2. (IF phase' = "opl3" THEN TRUE ELSE FALSE) = FALSE
      BY <1>1
    <3>3. opl3Active' = (IF phase' = "opl3" THEN TRUE ELSE FALSE)
      BY <1>7, <3>2, Zenon
    <3>4. fill' \in BOOLEAN
      BY <1>1
    <3>5. reg' \in 0..SweepEnd' /\ reg' # 261 /\ reg' # SweepEnd'
      BY <1>1, <3>1
    <3> QED BY <3>3, <3>4, <3>5
  <2> QED BY <2>3, <2>4, Zenon DEF Sweeping
<1>12. unset = {}
  <2>1. \A n \in 0..511 : Computed(n)
    BY <1>1 DEF SweepInv
  <2> QED BY <1>1, <2>1, AllComputed DEF Cleared
<1>13. Cleared' /\ Shallow'
  BY <1>1, <1>5, <1>7 DEF Cleared, Shallow, walkVars, lfoVars, indices, strengths, noiseVars
<1> QED BY <1>1, <1>5, <1>11, <1>12, <1>13 DEF SweepInv

\* One byte of the sweep.
LEMMA SweepGoesOn ==
  ASSUME SweepInv, Sweep
  PROVE  SweepInv'
<1>1. /\ phase \in {"opl3", "opl2"} /\ UNCHANGED phase
      /\ reg < SweepEnd /\ SweepEnd \in {255, 512} /\ SweepEnd' = SweepEnd
      /\ (phase = "opl2" => SweepEnd = 255)
      /\ Sweeping /\ Cleared /\ opl3Active \in BOOLEAN /\ fill \in BOOLEAN
  <2>1. phase \in {"opl3", "opl2"} /\ UNCHANGED phase /\ reg < SweepEnd
    BY DEF Sweep
  <2>2. Sweeping /\ Cleared
    BY <2>1 DEF SweepInv
  <2>3. SweepEnd = IF phase = "opl3" THEN 512 ELSE 255
    BY DEF SweepEnd
  <2>4. SweepEnd' = IF phase' = "opl3" THEN 512 ELSE 255
    BY DEF SweepEnd
  <2>5. SweepEnd' = SweepEnd
    BY <2>1, <2>3, <2>4
  <2>6. opl3Active \in BOOLEAN
    BY <2>2 DEF Sweeping
  <2>7. fill \in BOOLEAN
    BY <2>2 DEF Sweeping
  <2> QED BY <2>1, <2>2, <2>3, <2>5, <2>6, <2>7
<1>2. PICK r \in 0..512, full \in BOOLEAN : r = reg /\ full # fill /\ Held(r, full)
  BY <1>1 DEF Sweeping
<1>3. r \in 0..511 /\ r # 261
  BY <1>1, <1>2 DEF Sweeping
<1>4. ASSUME NEW val \in {0, 255}, NEW now \in BOOLEAN, val = (IF now THEN 255 ELSE 0),
             WriteReg(r, val)
      PROVE  /\ Held(r, now)' /\ Cleared'
             /\ opl3Active' = opl3Active
             /\ r # 189 => (Shallow => Shallow')
             /\ r = 189 /\ val = 0 => Shallow'
             /\ unset' \subseteq unset
             /\ val = 255 => Computed(r)'
  <2>1. Held(r, now)' /\ UNCHANGED <<opl3Active, walkVars>>
    BY <1>1, <1>2, <1>3, <1>4, WriteHolds
  <2>2. /\ UNCHANGED <<lfoCounter, noiseValue>>
        /\ r # 189 => UNCHANGED <<vibratoStrength, tremoloStrength>>
        /\ r = 189 /\ val = 0 => vibratoStrength' = 1 /\ tremoloStrength' = 2
    BY <1>3, <1>4, WriteDepths
  <2>3. unset' \subseteq unset /\ (val = 255 => Computed(r)')
    BY <1>3, <1>4, WriteComputes
  <2>4. Cleared'
    BY <1>1, <2>1, <2>2, <2>3 DEF Cleared, walkVars
  <2> QED BY <2>1, <2>2, <2>3, <2>4 DEF Shallow
<1>5. ASSUME NEW q \in 0..512, NEW now \in BOOLEAN, q = reg', now # fill', Held(q, now)',
             opl3Active' = opl3Active, reg' \in 0..SweepEnd, reg' # 261, fill' \in BOOLEAN,
             reg' = SweepEnd => fill'
      PROVE  Sweeping'
  <2>1. \E n \in 0..512, f \in BOOLEAN : n = reg' /\ f # fill' /\ Held(n, f)'
    BY <1>5, Zenon
  <2>2. opl3Active' = (IF phase' = "opl3" THEN TRUE ELSE FALSE)
    BY <1>1, <1>5 DEF Sweeping
  <2> QED BY <1>1, <1>5, <2>1, <2>2 DEF Sweeping
<1>6. ASSUME NEW q, Computed(q), unset' \subseteq unset PROVE Computed(q)'
  BY <1>6 DEF Computed
<1>7. CASE fill = TRUE
  <2>1. WriteReg(r, 255) /\ fill' = FALSE /\ reg' = r
    BY <1>2, <1>7 DEF Sweep
  <2>2. PICK now \in BOOLEAN : now = TRUE
    OBVIOUS
  <2>3. /\ Held(r, now)' /\ Cleared' /\ opl3Active' = opl3Active
        /\ r # 189 => (Shallow => Shallow')
        /\ unset' \subseteq unset /\ Computed(r)'
    BY <1>4, <2>1, <2>2
  <2>4. Sweeping'
    <3>1. now # fill'
      BY <2>1, <2>2, Zenon
    <3>2. reg' \in 0..SweepEnd /\ reg' # 261 /\ reg' # SweepEnd /\ fill' \in BOOLEAN
      <4>1. reg' = reg /\ reg \in 0..511 /\ reg # 261 /\ fill' = FALSE
        BY <1>2, <1>3, <2>1
      <4>2. reg < SweepEnd /\ (SweepEnd = 255 \/ SweepEnd = 512)
        BY <1>1
      <4>3. reg \in 0..SweepEnd /\ reg # SweepEnd
        BY <4>1, <4>2
      <4>4. fill' \in BOOLEAN
        BY <4>1
      <4> QED BY <4>1, <4>3, <4>4, Zenon
    <3> QED BY <1>5, <2>1, <2>3, <3>1, <3>2
  <2>5. CASE phase = "opl3"
    <3>1. reg' > 189 => Shallow'
      BY <1>2, <2>1, <2>3, <2>5 DEF SweepInv
    <3>2. \A q \in 0..511 : q < reg' \/ q = reg' => Computed(q)'
      BY <1>2, <1>6, <2>1, <2>3, <2>5 DEF SweepInv
    <3> QED BY <1>1, <2>3, <2>4, <2>5, <3>1, <3>2 DEF SweepInv
  <2>6. CASE phase = "opl2"
    <3>1. (reg' = 189 /\ ~fill') \/ Shallow'
      <4>1. Shallow
        BY <1>7, <2>6 DEF SweepInv
      <4> QED BY <2>1, <2>3, <4>1
    <3> QED BY <1>1, <2>3, <2>4, <2>6, <3>1 DEF SweepInv
  <2> QED BY <1>1, <2>5, <2>6
<1>8. CASE fill = FALSE
  <2>1. WriteReg(r, 0) /\ fill' = TRUE /\ reg' = IF r = 260 THEN 262 ELSE r + 1
    BY <1>2, <1>8 DEF Sweep
  <2>2. PICK now \in BOOLEAN : now = FALSE
    OBVIOUS
  <2>3. /\ Held(r, now)' /\ Cleared' /\ opl3Active' = opl3Active
        /\ r # 189 => (Shallow => Shallow')
        /\ r = 189 => Shallow'
        /\ unset' \subseteq unset
    BY <1>4, <2>1, <2>2
  <2>4. reg' \in 0..SweepEnd /\ reg' # 261 /\ reg' \in 0..512
    BY <1>1, <1>2, <1>3, <2>1
  <2>5. PICK q \in 0..512 : q = reg'
    BY <2>4
  <2>6. Held(q, now)'
    <3>1. Content(q, now) = Content(r, now)
      BY <2>2, EmptyContent
    <3> QED BY <2>2, <2>3, <3>1 DEF Held
  <2>7. Sweeping'
    <3>1. now # fill'
      BY <2>1, <2>2, Zenon
    <3>2. fill' \in BOOLEAN
      BY <2>1
    <3> QED BY <1>5, <2>1, <2>3, <2>4, <2>5, <2>6, <3>1, <3>2
  <2>8. CASE phase = "opl3"
    <3>1. reg' > 189 => Shallow'
      BY <1>2, <2>1, <2>3, <2>8 DEF SweepInv
    <3>2. Computed(261)
      <4>1. (261 \div 32) % 8 = 0
        OBVIOUS
      <4> QED BY <4>1 DEF Computed, OfOp
    <3>3. \A n \in 0..511 : n < reg' => n < reg \/ n = reg \/ n = 261
      BY <1>2, <2>1
    <3>4. \A n \in 0..511 : n < reg' => Computed(n)'
      BY <1>6, <1>8, <2>3, <2>8, <3>2, <3>3 DEF SweepInv
    <3> QED BY <1>1, <2>1, <2>3, <2>7, <2>8, <3>1, <3>4 DEF SweepInv
  <2>9. CASE phase = "opl2"
    <3>1. Shallow'
      BY <1>2, <2>3, <2>9 DEF SweepInv
    <3> QED BY <1>1, <2>3, <2>7, <2>9, <3>1 DEF SweepInv
  <2> QED BY <1>1, <2>8, <2>9
<1> QED BY <1>1, <1>7, <1>8

LEMMA SweepNext == SweepInv /\ [HandlerNext]_handlerVars => SweepInv'
<1> SUFFICES ASSUME SweepInv, [HandlerNext]_handlerVars PROVE SweepInv'
  OBVIOUS
<1>1. CASE EnterOpl3
  BY <1>1, SweepEntersOpl3
<1>2. CASE Sweep
  BY <1>2, SweepGoesOn
<1>3. CASE EnterOpl2
  BY <1>3, SweepEntersOpl2
<1>4. ASSUME phase' \in {"ready", "block"} PROVE SweepInv'
  BY <1>4 DEF SweepInv
<1>5. CASE SetupDone \/ AddSamples \/ \E n \in Requests : Generate(n)
  BY <1>4, <1>5 DEF SetupDone, AddSamples, Generate
<1>6. CASE NextChunk \/ \E w \in PortWrites : WritePort(w)
  BY <1>4, <1>6 DEF NextChunk, WritePort, sweepVars
<1>7. CASE PlayVoice \/ PlayDrums \/ DrumNoise \/ DrumsPlayed \/ ChunkPlayed
  <2>1. generating /\ UNCHANGED phase
    BY <1>7 DEF PlayVoice, PlayDrums, DrumNoise, DrumsPlayed, ChunkPlayed, PlayChannel,
                FinishBlock, sweepVars
  <2>2. phase \notin {"made", "opl3", "opl2"}
    BY <2>1 DEF SweepInv, Cleared
  <2> QED BY <1>4, <2>1, <2>2 DEF SweepInv
<1>8. CASE UNCHANGED handlerVars
  <2>1. UNCHANGED <<chipVars, lfoVars, phase, reg, fill, unset>>
    BY <1>8 DEF handlerVars, sweepVars
  <2>2. UNCHANGED <<modeVars, synthVars, keyVars, walkVars, lfoCounter, vibratoStrength,
                    tremoloStrength, noiseValue>>
    BY <2>1 DEF chipVars, lfoVars, indices, strengths, noiseVars
  <2>3. Cleared => Cleared'
    BY <2>1, <2>2 DEF Cleared, walkVars
  <2>4. Made => Made'
    BY <2>1, <2>2 DEF Made, modeVars, synthVars, keyVars
  <2>5. Sweeping => Sweeping'
    <3>1. \A r, full : Held(r, full) => Held(r, full)'
      BY <2>2, HoldsKept DEF Held, modeVars
    <3>2. SweepEnd' = SweepEnd
      BY <2>1 DEF SweepEnd
    <3> QED BY <2>1, <2>2, <3>1, <3>2 DEF Sweeping, modeVars
  <2>6. Shallow => Shallow'
    BY <2>2 DEF Shallow
  <2>7. \A r : Computed(r) => Computed(r)'
    BY <2>1 DEF Computed
  <2> QED BY <2>1, <2>3, <2>4, <2>5, <2>6, <2>7 DEF SweepInv
<1> QED BY <1>1, <1>2, <1>3, <1>5, <1>6, <1>7, <1>8 DEF HandlerNext, Playing

\* At the end of both sweeps the chip is as a program expects it.
LEMMA SweepInvResets == SweepInv => SetupResets
<1> SUFFICES ASSUME SweepInv, phase = "opl2", reg = 255
             PROVE  /\ Init
                    /\ lfoCounter = 0 /\ vibratoStrength = 1 /\ tremoloStrength = 2
                    /\ noiseValue = {0} /\ unset = {}
  BY DEF SetupResets
<1>1. Sweeping /\ Cleared /\ Shallow /\ unset = {}
  BY DEF SweepInv
<1>2. opl3Active = FALSE
  BY <1>1 DEF Sweeping
<1>3. PICK r \in 0..512, full \in BOOLEAN : r = reg /\ full # fill /\ Held(r, full)
  BY <1>1 DEF Sweeping
<1>4. full = FALSE
  <2>1. fill = TRUE
    BY <1>1 DEF Sweeping, SweepEnd
  <2> QED BY <1>3, <2>1
<1> DEFINE h == [lo |-> {}, hi |-> {}, c0 |-> {}, drums |-> FALSE]
<1>5. Holds(h) /\ reg104 = {}
  <2>1. Content(r, full) = h
    BY <1>4, EmptyContent
  <2> QED BY <1>3, <1>4, <2>1 DEF Held
<1>6. Init
  BY <1>1, <1>2, <1>5 DEF Init, Holds, Cleared
<1> QED BY <1>1, <1>6 DEF Cleared, Shallow

\* Setup leaves the chip in opl2 mode with all registers zero, the depths
\* small and every cache computed, though its sweep turns on all keys, drums
\* and pairs on the way and changes the mode twice (dbopl.cpp:1313-1327).
THEOREM SweepResets == HandlerSpec => []SetupResets
BY SweepInit, SweepNext, SweepInvResets, PTL DEF HandlerSpec
=============================================================================
