--------------------------- MODULE HscVoiceProofs ---------------------------
(***************************************************************************)
(* No song, instrument or slide makes a channel of the player stick on a   *)
(* note, play it out of tune or swallow it: for every choice of notes,     *)
(* instruments and effects, from one inductive invariant.                  *)
(***************************************************************************)
EXTENDS HscVoice, TLAPS

Chip == [a0 : 0..(LowWidth - 1), high : High, key : BOOLEAN,
         carrier : Volume, modulator : Volume]

\* What sounds is what was sent last, and the tune that was added to it is
\* still that of the instrument; ResetCopies spoils the copy of channel 0.
SentInv ==
    chip.key =>
        /\ freqSent.key /\ freqSent.high = chip.high
        /\ First \/ chip.a0 = LowSum(freqSent.low, ins.fine)

\* Between two ticks what was sent is what the player holds.
RestInv ==
    isr \in {"idle", "count"} /\ chip.key =>
        /\ freq.key /\ freq.high = freqSent.high
        /\ First \/ freq.low = freqSent.low

\* A note of this tick is still to be sent, and nothing the tables hold is
\* the word that says so; when it is sent it sounds.
StruckInv ==
    /\ isr = "cell" => ~struck
    /\ struck /\ isr \in {"effect", "others", "play"} =>
         freqSent = Forced /\ freq.key /\ freq.high # 255
    /\ struck /\ isr = "count" => chip.key

Inv == TypeOK /\ SentInv /\ RestInv /\ StruckInv

\* The arithmetic of the low byte stays in the byte.
LEMMA LowSumType ==
    ASSUME NEW a \in Nat, NEW b \in Nat
    PROVE  LowSum(a, b) \in 0..(LowWidth - 1)
BY VoiceAssumption DEF LowSum

\* The words the code assigns are frequencies and volumes.
LEMMA WordTypes ==
    /\ Silence \in Freq /\ Forced \in Freq
    /\ Full \in Volume /\ Loud \in Volume
    /\ \A l \in EffectLevels : [ksl |-> 0, level |-> l] \in Volume
BY VoiceAssumption DEF Silence, Forced, Full, Loud, Freq, High, Volume

\* A product of two levels, scaled back, is a level.
LEMMA ScaledType ==
    ASSUME NEW x \in 0..LevelMax, NEW y \in 0..LevelMax
    PROVE  (x * y) \div LevelMax \in 0..LevelMax
<1>1. LevelMax \in Nat /\ LevelMax > 0
  BY VoiceAssumption
<1>2. x * y \in Nat /\ x * y <= LevelMax * LevelMax
  BY <1>1
<1> DEFINE q == (x * y) \div LevelMax
<1>3. q \in Nat /\ LevelMax * q <= x * y
  BY <1>1, <1>2
<1>4. q <= LevelMax
  <2> SUFFICES ASSUME q >= LevelMax + 1 PROVE FALSE
    BY <1>1, <1>3
  <2>1. LevelMax * q >= LevelMax * (LevelMax + 1)
    BY <1>1, <1>3
  <2>2. LevelMax * (LevelMax + 1) = LevelMax * LevelMax + LevelMax
    BY <1>1
  <2> QED BY <1>1, <1>2, <1>3, <2>1, <2>2
<1> QED BY <1>1, <1>3, <1>4

\* The fade keeps a volume a volume.
LEMMA FadedType ==
    ASSUME NEW v \in Volume, fade \in 0..LevelMax
    PROVE  Faded(v) \in Volume
<1>1. v.ksl \in 0..3 /\ v.level \in 0..LevelMax
  BY DEF Volume
<1>2. LevelMax \in Nat /\ LevelMax - v.level \in 0..LevelMax
      /\ LevelMax - fade \in 0..LevelMax
  BY <1>1, VoiceAssumption
<1>3. ((LevelMax - v.level) * (LevelMax - fade)) \div LevelMax \in 0..LevelMax
  BY <1>2, ScaledType
<1>4. (4 - v.ksl) % 4 \in 0..3
  BY <1>1
<1> DEFINE s == ((LevelMax - v.level) * (LevelMax - fade)) \div LevelMax
<1>5. LevelMax - s \in 0..LevelMax
  <2> HIDE DEF s
  <2> QED BY <1>2, <1>3 DEF s
<1> QED BY <1>4, <1>5 DEF Faded, Volume

\* A released key leaves the registers registers.
LEMMA ReleasedType ==
    ASSUME NEW c \in Chip
    PROVE  Released(c) \in Chip /\ ~Released(c).key
<1>1. 0 \in High
  BY DEF High
<1> QED BY <1>1 DEF Released, Chip

\* PutAXIns releases the key and keeps the types.
LEMMA PutKeeps ==
    ASSUME TypeOK, NEW i \in Instruments, PutAXIns(chip, i)
    PROVE  /\ ins' \in Instruments /\ level' \in Levels /\ chip' \in Chip
           /\ ~chip'.key
<1>1. i.carrier \in Volume /\ i.modulator \in Volume
  BY VoiceAssumption DEF Instrument
<1>2. chip \in Chip
  BY DEF TypeOK, Chip
<1>3. Released(chip) \in Chip /\ ~Released(chip).key
  BY <1>2, ReleasedType
<1>4. chip' = [Released(chip) EXCEPT !.carrier = i.carrier,
                                     !.modulator = i.modulator]
  BY DEF PutAXIns
<1> HIDE DEF Released
<1>5. chip' \in Chip /\ ~chip'.key
  BY <1>1, <1>3, <1>4 DEF Chip
<1> QED BY <1>1, <1>5 DEF PutAXIns, Levels

\* The invariant holds at first.
LEMMA InitInv == Init => Inv
<1> SUFFICES ASSUME Init PROVE Inv
  OBVIOUS
<1>1. 0 \in 0..(LowWidth - 1) /\ 0 \in High /\ 0 \in 0..Rest
      /\ 0 \in 0..LevelMax
  BY VoiceAssumption DEF High
<1>2. chip \in Chip /\ ~chip.key
  BY <1>1, WordTypes DEF Init, Chip
<1>3. level \in Levels /\ levelSent \in Levels
  BY WordTypes DEF Init, Levels
<1>4. TypeOK
  BY <1>1, <1>2, <1>3, WordTypes DEF Init, TypeOK, Chip
<1> QED BY <1>2, <1>4 DEF Init, Inv, SentInv, RestInv, StruckInv

\* The main program keeps the invariant.
LEMMA MainInv == ASSUME Inv, Main PROVE Inv'
<1> USE VoiceAssumption, WordTypes DEF Inv, SentInv, RestInv, StruckInv
<1>1. CASE Start
  <2>1. PICK i \in Instruments : PutAXIns(chip, i)
    BY <1>1 DEF Start
  <2>2. /\ ins' \in Instruments /\ level' \in Levels /\ chip' \in Chip
        /\ ~chip'.key
    BY <2>1, PutKeeps
  <2>3. 0 \in 0..LevelMax /\ 0 \in 0..Rest
    OBVIOUS
  <2> QED BY <1>1, <2>2, <2>3 DEF Start, TypeOK, Chip
<1>2. CASE ResetCopies
  <2>1. freqSent' \in Freq /\ freqSent'.high = freqSent.high
        /\ freqSent'.key = freqSent.key
        /\ (First \/ freqSent' = freqSent)
    BY <1>2 DEF ResetCopies, TypeOK, Freq
  <2>2. levelSent' \in Levels
    BY <1>2 DEF ResetCopies, TypeOK, Levels
  <2> QED BY <1>2, <2>1, <2>2 DEF ResetCopies, TypeOK, clock, LowSum
<1>3. CASE Stop
  <2>1. chip' \in Chip /\ ~chip'.key
    BY <1>3, ReleasedType DEF Stop, TypeOK, Chip
  <2> QED BY <1>3, <2>1 DEF Stop, TypeOK, Chip, clock
<1>4. CASE FadeKey
  BY <1>4 DEF FadeKey, TypeOK, player, clock, LowSum
<1> QED BY <1>1, <1>2, <1>3, <1>4 DEF Main

\* The cells of the row keep the invariant.
LEMMA CellInv ==
    ASSUME Inv,
           \/ NewInstrument \/ Note \/ KeyOff \/ NoNote
           \/ Slide \/ SetVolume \/ NoEffect \/ OtherCells
    PROVE  Inv'
<1> USE VoiceAssumption, WordTypes DEF Inv, SentInv, RestInv, StruckInv, Cell
<1>1. CASE NewInstrument
  <2>1. PICK i \in Instruments : PutAXIns(chip, i)
    BY <1>1 DEF NewInstrument
  <2>2. /\ ins' \in Instruments /\ level' \in Levels /\ chip' \in Chip
        /\ ~chip'.key
    BY <2>1, PutKeeps
  <2> QED BY <1>1, <2>2 DEF NewInstrument, TypeOK, Chip
<1>2. CASE Note
  <2>1. freq' \in Freq /\ freq'.key /\ freq'.high # 255
    BY <1>2 DEF Note, High
  <2>2. chip' \in Chip /\ ~chip'.key
    BY <1>2, ReleasedType DEF Note, TypeOK, Chip
  <2> QED BY <1>2, <2>1, <2>2 DEF Note, TypeOK, Chip
<1>3. CASE KeyOff
  <2>1. freq' \in Freq
    BY <1>3 DEF KeyOff, TypeOK, Freq
  <2> QED BY <1>3, <2>1 DEF KeyOff, TypeOK, LowSum
<1>4. CASE NoNote
  BY <1>4 DEF NoNote, TypeOK, player, LowSum
<1>5. CASE Slide
  <2>1. PICK x \in Slides :
          \/ freq' = [freq EXCEPT !.low = LowSum(@, x)]
          \/ freq' = [freq EXCEPT !.low = LowSum(@, LowWidth - x)]
    BY <1>5 DEF Slide
  <2>2. x \in Nat /\ LowWidth - x \in Nat /\ freq.low \in Nat
    BY DEF TypeOK, Freq
  <2>3. LowSum(freq.low, x) \in 0..(LowWidth - 1)
        /\ LowSum(freq.low, LowWidth - x) \in 0..(LowWidth - 1)
    BY <2>2, LowSumType
  <2>4. freq' \in Freq /\ freq'.key = freq.key /\ freq'.high = freq.high
    BY <2>1, <2>3 DEF TypeOK, Freq
  <2> QED BY <1>5, <2>4 DEF Slide, TypeOK, LowSum
<1>6. CASE SetVolume
  <2>1. PICK l \in EffectLevels :
          LET v == [ksl |-> 0, level |-> l]
          IN  \/ level' = [level EXCEPT !.carrier = v]
              \/ level' = [level EXCEPT !.modulator = v]
              \/ level' = [carrier |-> v,
                           modulator |-> IF ins.additive THEN v ELSE level.modulator]
    BY <1>6 DEF SetVolume
  <2>2. level' \in Levels
    BY <2>1 DEF TypeOK, Levels
  <2> QED BY <1>6, <2>2 DEF SetVolume, TypeOK, LowSum
<1>7. CASE NoEffect
  BY <1>7 DEF NoEffect, TypeOK, player, LowSum
<1>8. CASE OtherCells
  BY <1>8 DEF OtherCells, TypeOK, player, clock, LowSum
<1> QED BY <1>1, <1>2, <1>3, <1>4, <1>5, <1>6, <1>7, <1>8

\* PlayTick sends what differs and leaves what it sent last.
LEMMA PlayInv == ASSUME Inv, PlayTick PROVE Inv'
<1> USE VoiceAssumption DEF Inv
<1> DEFINE tuned == IF freq # freqSent THEN SendFreq(chip) ELSE chip
<1>1. LowSum(freq.low, ins.fine) \in 0..(LowWidth - 1)
  <2>1. freq.low \in Nat /\ ins.fine \in Nat
    BY DEF TypeOK, Freq, Instrument
  <2> QED BY <2>1, LowSumType
<1>2. /\ tuned \in Chip
      /\ freq # freqSent => /\ tuned.key = freq.key /\ tuned.high = freq.high
                            /\ tuned.a0 = LowSum(freq.low, ins.fine)
      /\ freq = freqSent => tuned = chip
  BY <1>1 DEF TypeOK, SendFreq, Chip, Freq
<1> HIDE DEF tuned
<1>3. /\ Faded(level.carrier) \in Volume /\ Faded(level.modulator) \in Volume
      /\ level.modulator \in Volume
  BY FadedType DEF TypeOK, Levels
<1>4. chip' = IF LevelsDue THEN SendLevels(tuned) ELSE tuned
  BY DEF PlayTick, tuned
<1>5. /\ chip' \in Chip
      /\ chip'.key = tuned.key /\ chip'.high = tuned.high /\ chip'.a0 = tuned.a0
  BY <1>2, <1>3, <1>4 DEF SendLevels, Chip
<1>6. levelSent' \in Levels
  BY DEF PlayTick, LevelsNoted, TypeOK, Levels
<1>7. TypeOK'
  BY <1>5, <1>6 DEF PlayTick, TypeOK, Chip, clock
<1>8. SentInv'
  BY <1>2, <1>5 DEF PlayTick, SentInv, LowSum
<1>9. RestInv'
  BY <1>2, <1>5 DEF PlayTick, RestInv, SentInv
<1>10. StruckInv'
  <2>1. struck => freq # freqSent
    BY DEF StruckInv, PlayTick, Forced
  <2> QED BY <1>2, <1>5, <2>1 DEF PlayTick, StruckInv, clock
<1> QED BY <1>7, <1>8, <1>9, <1>10

\* Every step keeps the invariant.
LEMMA NextInv == Inv /\ [Next]_vars => Inv'
<1> SUFFICES ASSUME Inv, [Next]_vars PROVE Inv'
  OBVIOUS
<1>1. CASE Main
  BY <1>1, MainInv
<1>2. CASE \/ NewInstrument \/ Note \/ KeyOff \/ NoNote
           \/ Slide \/ SetVolume \/ NoEffect \/ OtherCells
  BY <1>2, CellInv
<1>3. CASE PlayTick
  BY <1>3, PlayInv
<1>4. CASE Tick
  <2>1. rested' \in 0..Rest
    BY <1>4, VoiceAssumption DEF Tick, Inv, TypeOK
  <2> QED BY <1>4, <2>1
     DEF Tick, Inv, TypeOK, SentInv, RestInv, StruckInv, player, LowSum
<1>5. CASE CheckHscCntr
  <2>1. fade' \in 0..LevelMax
    BY <1>5, VoiceAssumption DEF CheckHscCntr, Inv, TypeOK
  <2> QED BY <1>5, <2>1
     DEF CheckHscCntr, Inv, TypeOK, SentInv, RestInv, StruckInv, player, clock, LowSum
<1>6. CASE UNCHANGED vars
  BY <1>6 DEF vars, Inv, TypeOK, SentInv, RestInv, StruckInv, player, clock, LowSum
<1> QED BY <1>1, <1>2, <1>3, <1>4, <1>5, <1>6 DEF Next, Interrupt

\* The inductive invariant holds in every reachable state.
LEMMA Invariance == Spec => []Inv
BY InitInv, NextInv, PTL DEF Spec

\* Type correctness of a channel of the player.
THEOREM TypeCorrect == Spec => []TypeOK
<1>1. Inv => TypeOK
  BY DEF Inv
<1> QED BY <1>1, Invariance, PTL

\* Nothing sounds between two ticks that the player does not hold.
THEOREM NoNoteSticks == Spec => []HeardIsHeld
<1>1. Inv => HeardIsHeld
  BY DEF Inv, SentInv, RestInv, HeardIsHeld
<1> QED BY <1>1, Invariance, PTL

\* Every note read is heard when its tick is over.
THEOREM NoNoteLost == Spec => []NoteSounds
<1>1. Inv => NoteSounds
  BY DEF Inv, StruckInv, NoteSounds
<1> QED BY <1>1, Invariance, PTL

\* On every channel but channel 0 what sounds is in tune.
THEOREM InTune == ASSUME ~First PROVE Spec => []HeardInTune
<1>1. Inv => HeardInTune
  BY DEF Inv, SentInv, RestInv, HeardInTune
<1> QED BY <1>1, Invariance, PTL
-----------------------------------------------------------------------------
(* The volumes.  PlayTick brings one of two copies up to date a tick, and  *)
(* none in the tick that sends everything after a start.  So what keeps a  *)
(* stale copy from hiding a change is the time until the next row, against *)
(* which the copies that are still due are counted.                        *)

\* In a song that never fades only a start makes the fade move.
FadeInv == fade = 0 /\ fading = "none" /\ fadeSent \in {0, NeverSent}

\* The copies are still to be reset, or all is still to be sent after it.
Unsettled == main = "copies" \/ fadeSent = NeverSent

CarrierDue == level.carrier # levelSent.carrier
ModulatorDue == level.modulator # levelSent.modulator

\* ResetCopies leaves a carrier that no effect sets: it hides no change.
CarrierHides == CarrierDue /\ levelSent.carrier # Full

InSync ==
    /\ chip.carrier \in {level.carrier, Faded(level.carrier)}
    /\ chip.modulator \in {level.modulator, Faded(level.modulator)}

\* Whatever is not in sync is still due in this tick.
SyncInv ==
    ~Unsettled => InSync \/ (isr \in {"others", "play"} /\ LevelsDue)

\* A start is followed by its first row before anything is settled.
StartInv == first => isr = "idle" /\ Unsettled

\* When a row is read nothing is due that could hide what it changes.
RowInv ==
    /\ isr \in {"cell", "effect", "others"} => rested = 0
    /\ isr \in {"cell", "effect"} /\ ~Unsettled => ~ModulatorDue /\ ~CarrierHides

\* At most n ticks of the row, and the one under way, have passed.
Within(n) == rested <= n + (IF isr \in {"idle", "count"} THEN 0 ELSE 1)

\* What is due, and how long it may be.
PaceInv ==
    ~first =>
        /\ ModulatorDue => Within(IF Unsettled THEN 1 ELSE 3)
        /\ CarrierHides => Within(IF Unsettled THEN 1 ELSE 2)
        /\ ModulatorDue /\ CarrierDue /\ ~Unsettled => Within(2)
        /\ main = "copies" =>
             /\ ModulatorDue /\ CarrierDue => Within(0)
             /\ fadeSent = NeverSent => isr \notin {"idle", "count"} /\ rested = 0

VolumeInv == FadeInv /\ SyncInv /\ StartInv /\ RowInv /\ PaceInv

\* What the arithmetic needs to know of the words and bounds.
LEMMA VolumeFacts ==
    ASSUME TypeOK, FadeInv
    PROVE  /\ fade # NeverSent /\ rested \in Nat
           /\ level # levelSent <=> CarrierDue \/ ModulatorDue
           /\ \A l \in EffectLevels : [ksl |-> 0, level |-> l] # Full
<1>1. fade # NeverSent /\ rested \in Nat
  BY VoiceAssumption DEF FadeInv, NeverSent, TypeOK
<1>2. level # levelSent <=> CarrierDue \/ ModulatorDue
  BY DEF TypeOK, Levels, CarrierDue, ModulatorDue
<1>3. \A l \in EffectLevels : [ksl |-> 0, level |-> l] # Full
  <2>1. \A l : [ksl |-> 0, level |-> l].ksl = 0 /\ Full.ksl = 3
    BY DEF Full
  <2> QED BY <2>1
<1> QED BY <1>1, <1>2, <1>3

\* A step that leaves the volumes, their copies and the chip's alone.
LEMMA VolumesKept ==
    ASSUME FadeInv, UNCHANGED <<level, levelSent, fade, fading, fadeSent>>,
           chip'.carrier = chip.carrier, chip'.modulator = chip.modulator
    PROVE  /\ FadeInv' /\ (InSync' <=> InSync) /\ (LevelsDue' <=> LevelsDue)
           /\ (CarrierDue' <=> CarrierDue) /\ (ModulatorDue' <=> ModulatorDue)
           /\ (CarrierHides' <=> CarrierHides)
BY DEF FadeInv, InSync, Faded, LevelsDue, CarrierDue, ModulatorDue, CarrierHides

\* The main program keeps it: a start unsettles everything, and the reset that
\* follows comes early enough for what is due.
LEMMA MainVolume ==
    ASSUME TypeOK, VolumeInv, ~Fades, Main
    PROVE  VolumeInv'
<1> USE DEF VolumeInv
<1>1. CASE Start
  <2>1. FadeInv' /\ first' /\ main' = "copies" /\ isr' = "idle"
    BY <1>1 DEF Start, FadeInv
  <2> QED BY <2>1 DEF SyncInv, StartInv, RowInv, PaceInv, Unsettled
<1>2. CASE ResetCopies
  <2>1. /\ FadeInv' /\ Unsettled' /\ isr' = "idle" /\ isr = "idle"
        /\ main = "copies" /\ main' # "copies"
        /\ rested' = rested /\ first' = first /\ level' = level
    BY <1>2 DEF ResetCopies, FadeInv, Unsettled, clock
  <2>2. /\ levelSent'.modulator = levelSent.modulator
        /\ levelSent'.carrier \in {levelSent.carrier, Full}
    BY <1>2 DEF ResetCopies, TypeOK, Levels
  <2>3. (ModulatorDue' => ModulatorDue) /\ (CarrierHides' => CarrierHides)
    BY <2>1, <2>2 DEF ModulatorDue, CarrierDue, CarrierHides
  <2>4. PaceInv'
    BY <2>1, <2>3 DEF PaceInv, Within, Unsettled
  <2> QED BY <2>1, <2>4 DEF SyncInv, StartInv, RowInv
<1>3. CASE Stop
  <2>1. chip'.carrier = chip.carrier /\ chip'.modulator = chip.modulator
    BY <1>3 DEF Stop, Released, TypeOK
  <2>2. UNCHANGED <<main, isr, first, rested, level, levelSent, fading, fade, fadeSent>>
    BY <1>3 DEF Stop, clock
  <2> QED BY <2>1, <2>2, VolumesKept
     DEF SyncInv, StartInv, RowInv, PaceInv, Unsettled, Within
<1>4. CASE FadeKey
  BY <1>4 DEF FadeKey
<1> QED BY <1>1, <1>2, <1>3, <1>4 DEF Main

\* The interrupt's start: a row comes late enough that nothing due hides a
\* change, and a tick without a row takes one of the ticks there are.
LEMMA TickVolume ==
    ASSUME TypeOK, VolumeInv, Rest >= 4, Tick
    PROVE  VolumeInv'
<1> USE DEF VolumeInv
<1>0. Rest \in Nat /\ rested \in 0..Rest
  BY VoiceAssumption DEF TypeOK
<1>1. UNCHANGED <<main, level, levelSent, fading, fade, fadeSent, chip>> /\ isr = "idle"
  BY DEF Tick, player
<1>2. /\ FadeInv' /\ (InSync' <=> InSync) /\ (LevelsDue' <=> LevelsDue)
      /\ (CarrierDue' <=> CarrierDue) /\ (ModulatorDue' <=> ModulatorDue)
      /\ (CarrierHides' <=> CarrierHides) /\ (Unsettled' <=> Unsettled)
  BY <1>1, VolumesKept DEF Unsettled
<1>3. SyncInv'
  BY <1>1, <1>2 DEF SyncInv
<1>4. CASE (first \/ rested = Rest) /\ isr' = "cell" /\ first' = FALSE /\ rested' = 0
  <2>1. ~Unsettled => ~ModulatorDue /\ ~CarrierHides
    BY <1>0, <1>1, <1>4 DEF StartInv, PaceInv, Within
  <2> QED BY <1>0, <1>1, <1>2, <1>3, <1>4, <2>1
     DEF StartInv, RowInv, PaceInv, Within
<1>5. CASE /\ ~first /\ isr' = "play" /\ first' = first
           /\ rested' = IF rested = Rest THEN Rest ELSE rested + 1
  <2>1. PaceInv'
    BY <1>0, <1>1, <1>2, <1>5 DEF PaceInv, Within
  <2> QED BY <1>2, <1>3, <1>5, <2>1 DEF StartInv, RowInv
<1> QED BY <1>4, <1>5 DEF Tick

\* A step of the row that leaves the volumes alone keeps it.
LEMMA RowKeeps ==
    ASSUME VolumeInv, ~first,
           isr \in {"cell", "effect", "others"}, isr' \in {"effect", "others", "play"},
           isr = "others" => isr' = "play",
           isr = "effect" => isr' = "others",
           UNCHANGED <<main, first, rested, level, levelSent, fading, fade, fadeSent>>,
           chip'.carrier = chip.carrier, chip'.modulator = chip.modulator
    PROVE  VolumeInv'
<1> USE DEF VolumeInv
<1>1. /\ FadeInv' /\ (InSync' <=> InSync) /\ (LevelsDue' <=> LevelsDue)
      /\ (CarrierDue' <=> CarrierDue) /\ (ModulatorDue' <=> ModulatorDue)
      /\ (CarrierHides' <=> CarrierHides) /\ (Unsettled' <=> Unsettled)
  BY VolumesKept DEF Unsettled
<1>2. rested = 0 /\ rested' = 0
  BY DEF RowInv
<1>3. RowInv' /\ SyncInv' /\ StartInv'
  BY <1>1, <1>2 DEF RowInv, SyncInv, StartInv
<1>4. PaceInv'
  BY <1>1, <1>2 DEF PaceInv, Within
<1> QED BY <1>1, <1>3, <1>4

\* The cells of the row keep it: an instrument goes to the chip at once, and a
\* volume that an effect changes differs from its copy.
LEMMA CellVolume ==
    ASSUME TypeOK, VolumeInv, ~Fades,
           \/ NewInstrument \/ Note \/ KeyOff \/ NoNote
           \/ Slide \/ SetVolume \/ NoEffect \/ OtherCells
    PROVE  VolumeInv'
<1> USE DEF VolumeInv
<1>0. ~first
  BY DEF StartInv, NewInstrument, Note, KeyOff, NoNote, Slide, SetVolume, NoEffect,
         OtherCells, Cell
<1>1. CASE NewInstrument
  <2>1. PICK i \in Instruments : PutAXIns(chip, i)
    BY <1>1 DEF NewInstrument
  <2>2. /\ chip'.carrier = i.carrier /\ chip'.modulator = i.modulator
        /\ level' = [carrier |-> i.carrier, modulator |-> i.modulator]
    BY <2>1 DEF PutAXIns, Released, TypeOK
  <2>3. /\ isr' = "others" /\ rested' = 0 /\ ~first'
        /\ UNCHANGED <<main, fading, fade, fadeSent>>
    BY <1>0, <1>1 DEF NewInstrument, Cell, RowInv
  <2>4. InSync' /\ FadeInv'
    BY <2>2, <2>3 DEF InSync, FadeInv
  <2> QED BY <2>3, <2>4 DEF SyncInv, StartInv, RowInv, PaceInv, Within
<1>2. CASE Note
  <2>1. chip'.carrier = chip.carrier /\ chip'.modulator = chip.modulator
    BY <1>2 DEF Note, Released, TypeOK
  <2> QED BY <1>0, <1>2, <2>1, RowKeeps DEF Note, Cell
<1>3. CASE KeyOff \/ NoNote \/ Slide \/ NoEffect
  BY <1>0, <1>3, RowKeeps DEF KeyOff, NoNote, Slide, NoEffect, Cell, player
<1>4. CASE OtherCells
  BY <1>0, <1>4, RowKeeps DEF OtherCells, player, clock
<1>5. CASE SetVolume
  <2>1. PICK l \in EffectLevels :
          LET v == [ksl |-> 0, level |-> l]
          IN  \/ level' = [level EXCEPT !.carrier = v]
              \/ level' = [level EXCEPT !.modulator = v]
              \/ level' = [carrier |-> v,
                           modulator |-> IF ins.additive THEN v ELSE level.modulator]
    BY <1>5 DEF SetVolume
  <2> DEFINE v == [ksl |-> 0, level |-> l]
  <2>2. v # Full
    BY VolumeFacts
  <2> HIDE DEF v
  <2>3. /\ level'.carrier \in {level.carrier, v}
        /\ level'.modulator \in {level.modulator, v}
    BY <2>1 DEF TypeOK, Levels, v
  <2>4. /\ isr = "effect" /\ isr' = "others" /\ rested = 0 /\ rested' = 0 /\ ~first'
        /\ UNCHANGED <<main, levelSent, fading, fade, fadeSent, chip>>
    BY <1>0, <1>5 DEF SetVolume, Cell, RowInv
  <2>5. FadeInv' /\ (Unsettled' <=> Unsettled)
    BY <2>4 DEF FadeInv, Unsettled
  <2>6. ASSUME ~Unsettled PROVE InSync' \/ LevelsDue'
    <3>1. InSync /\ ~ModulatorDue /\ ~CarrierHides
      BY <2>4, <2>6 DEF SyncInv, RowInv
    <3>2. CASE level'.carrier = level.carrier /\ level'.modulator = level.modulator
      BY <2>4, <3>1, <3>2 DEF InSync, Faded
    <3>3. CASE level'.modulator # level.modulator
      <4>1. level'.modulator # levelSent'.modulator
        BY <2>4, <3>1, <3>3 DEF ModulatorDue
      <4> QED BY <4>1 DEF LevelsDue
    <3>4. CASE level'.carrier # level.carrier
      <4>1. level'.carrier # levelSent'.carrier
        BY <2>2, <2>3, <2>4, <3>1, <3>4 DEF CarrierDue, CarrierHides
      <4> QED BY <4>1 DEF LevelsDue
    <3> QED BY <3>2, <3>3, <3>4
  <2> QED BY <2>4, <2>5, <2>6 DEF SyncInv, StartInv, RowInv, PaceInv, Within
<1> QED BY <1>1, <1>2, <1>3, <1>4, <1>5

\* PlayTick sends whatever is not in sync, and one copy less is due, unless it
\* is the tick that settles a start.
LEMMA PlayVolume ==
    ASSUME TypeOK, VolumeInv, PlayTick
    PROVE  VolumeInv'
<1> USE DEF VolumeInv
<1>1. /\ isr = "play" /\ isr' = "count"
      /\ UNCHANGED <<main, first, rested, level, fading, fade>>
      /\ fadeSent' = fade /\ levelSent' = LevelsNoted
  BY DEF PlayTick, clock
<1>2. ~first /\ fade = 0 /\ fade # NeverSent /\ rested \in Nat
  BY <1>1, VolumeFacts DEF StartInv, FadeInv
<1>3. FadeInv' /\ (Unsettled' <=> main = "copies")
  BY <1>1, <1>2 DEF FadeInv, Unsettled
<1>4. LevelsDue => InSync'
  <2> DEFINE tuned == IF freq # freqSent THEN SendFreq(chip) ELSE chip
  <2>1. SUFFICES ASSUME LevelsDue PROVE InSync'
    OBVIOUS
  <2>2. chip' = SendLevels(tuned)
    BY <2>1 DEF PlayTick
  <2>3. DOMAIN tuned = DOMAIN chip
    BY DEF TypeOK, SendFreq
  <2> HIDE DEF tuned
  <2>4. /\ chip'.carrier = Faded(level.carrier)
        /\ chip'.modulator \in {Faded(level.modulator), level.modulator}
    BY <2>2, <2>3 DEF SendLevels, TypeOK
  <2>5. /\ Faded(level.carrier)' = Faded(level.carrier)
        /\ Faded(level.modulator)' = Faded(level.modulator)
    BY <1>1 DEF Faded
  <2> QED BY <1>1, <2>4, <2>5 DEF InSync
<1>5. ~LevelsDue /\ InSync => InSync'
  <2> SUFFICES ASSUME ~LevelsDue, InSync PROVE InSync'
    OBVIOUS
  <2>1. chip'.carrier = chip.carrier /\ chip'.modulator = chip.modulator
    BY DEF PlayTick, SendFreq, TypeOK
  <2> QED BY <1>1, <2>1 DEF InSync, Faded
<1>6. ~Unsettled' => InSync'
  <2>1. fadeSent = NeverSent => LevelsDue
    BY <1>2 DEF LevelsDue
  <2> QED BY <1>3, <1>4, <1>5, <2>1 DEF SyncInv, Unsettled
<1>7. SyncInv' /\ StartInv' /\ RowInv'
  BY <1>1, <1>2, <1>6 DEF SyncInv, StartInv, RowInv
<1>8. CASE fadeSent = NeverSent
  <2>1. levelSent' = levelSent
    BY <1>1, <1>2, <1>8 DEF LevelsNoted
  <2>2. /\ (CarrierDue' <=> CarrierDue) /\ (ModulatorDue' <=> ModulatorDue)
        /\ (CarrierHides' <=> CarrierHides)
    BY <1>1, <2>1 DEF CarrierDue, ModulatorDue, CarrierHides
  <2>3. main = "copies" => rested = 0
    BY <1>2, <1>8 DEF PaceInv
  <2>4. /\ ModulatorDue => rested <= 2
        /\ CarrierHides => rested <= 2
    BY <1>1, <1>2, <1>8 DEF PaceInv, Within, Unsettled
  <2>5. PaceInv'
    BY <1>1, <1>2, <1>3, <2>2, <2>3, <2>4 DEF PaceInv, Within
  <2> QED BY <1>3, <1>7, <2>5
<1>9. CASE fadeSent # NeverSent
  <2>1. fade = fadeSent
    BY <1>2, <1>9 DEF FadeInv
  <2>2. /\ ~CarrierDue'
        /\ ModulatorDue' => CarrierDue /\ ModulatorDue
    BY <1>1, <2>1 DEF LevelsNoted, CarrierDue, ModulatorDue, TypeOK, Levels
  <2>3. ModulatorDue /\ CarrierDue => rested <= IF main = "copies" THEN 1 ELSE 3
    BY <1>1, <1>2, <1>9 DEF PaceInv, Within, Unsettled
  <2>4. PaceInv'
    BY <1>1, <1>2, <1>3, <2>2, <2>3 DEF PaceInv, Within, CarrierHides
  <2> QED BY <1>3, <1>7, <2>4
<1> QED BY <1>8, <1>9

LEMMA InitVolume == Init => VolumeInv
<1> SUFFICES ASSUME Init PROVE VolumeInv
  OBVIOUS
<1>1. Unsettled /\ FadeInv
  BY DEF Init, Unsettled, FadeInv
<1>2. ~ModulatorDue /\ ~CarrierDue
  BY DEF Init, ModulatorDue, CarrierDue
<1> QED BY <1>1, <1>2
   DEF Init, VolumeInv, SyncInv, StartInv, RowInv, PaceInv, CarrierHides

LEMMA NextVolume ==
    ASSUME Rest >= 4, ~Fades, TypeOK, VolumeInv, [Next]_vars
    PROVE  VolumeInv'
<1>1. CASE Main
  BY <1>1, MainVolume
<1>2. CASE Tick
  BY <1>2, TickVolume
<1>3. CASE \/ NewInstrument \/ Note \/ KeyOff \/ NoNote
           \/ Slide \/ SetVolume \/ NoEffect \/ OtherCells
  BY <1>3, CellVolume
<1>4. CASE PlayTick
  BY <1>4, PlayVolume
<1>5. CASE CheckHscCntr
  <2>1. /\ UNCHANGED <<main, first, rested, level, levelSent, fading, fadeSent, chip>>
        /\ isr = "count" /\ isr' = "idle"
    BY <1>5 DEF CheckHscCntr, player, clock
  <2>2. fade' = fade
    BY <1>5 DEF CheckHscCntr, VolumeInv, FadeInv
  <2> QED BY <2>1, <2>2, VolumesKept
     DEF VolumeInv, SyncInv, StartInv, RowInv, PaceInv, Unsettled, Within
<1>6. CASE UNCHANGED vars
  <2>1. UNCHANGED <<isr, main, first, rested, level, levelSent, fading, fade, fadeSent, chip>>
    BY <1>6 DEF vars, player, clock
  <2> QED BY <2>1, VolumesKept
     DEF VolumeInv, SyncInv, StartInv, RowInv, PaceInv, Unsettled, Within
<1> QED BY <1>1, <1>2, <1>3, <1>4, <1>5, <1>6 DEF Next, Interrupt

\* In a song of five ticks a row or more that is never faded, a channel has the
\* volumes its player believes it has, whatever is played and however often it
\* is started and stopped: no stale copy makes PlayTick keep a change back.
THEOREM VolumesFollow == ASSUME Rest >= 4, ~Fades PROVE Spec => []VolumeFollows
<1>1. TypeOK /\ VolumeInv /\ [Next]_vars => VolumeInv'
  BY NextVolume
<1>2. VolumeInv => VolumeFollows
  BY DEF VolumeInv, SyncInv, InSync, Unsettled, VolumeFollows, Settled
<1> QED BY <1>1, <1>2, InitVolume, TypeCorrect, PTL DEF Spec
=============================================================================
