------------------------------ MODULE HscVoice ------------------------------
(***************************************************************************)
(* One channel of the HSC player (src/attick/jukebox.asm).  SomeHSC2 reads *)
(* a cell of the row into copies of the channel's frequency and volumes;   *)
(* PlayTick sends a copy to the chip only when it differs from what it sent*)
(* last (word_15612, word_15636) or when the fade moved (byte_15654).      *)
(* Instruments, notes and the start of a song write to the chip behind     *)
(* those copies, which is what makes them delicate.  HscSequencer says when*)
(* a row is read and how the fade moves.                                   *)
(***************************************************************************)
EXTENDS Naturals

CONSTANTS
    Notes,          \* entries of word_154EC the song plays
    Instruments,    \* instruments of the song
    EffectLevels,   \* levels effects Ax, Bx and Cx set
    Slides,         \* amounts of the effects 1x and 2x
    LowWidth,       \* values of the low byte of a frequency: 256
    LevelMax,       \* level of a silent operator and HscCntr at its end: 3Fh
    First,          \* is this channel 0?
    Rest,           \* ticks without a row after each row, at the least
    Fades           \* is the song ever faded?

\* The high byte of a frequency without its key bit; 0FFh is in no note.
High == 0..255
Freq == [high : High, key : BOOLEAN, low : 0..(LowWidth - 1)]
Volume == [ksl : 0..3, level : 0..LevelMax]
Instrument == [carrier : Volume, modulator : Volume,
               additive : BOOLEAN, fine : 0..(LowWidth - 1)]

ASSUME VoiceAssumption ==
    /\ LowWidth \in Nat \ {0} /\ LevelMax \in 1..254
    /\ Notes \subseteq {n \in Freq : n.key /\ n.high \in 1..254}
    /\ Instruments \subseteq Instrument /\ Instruments # {}
    /\ EffectLevels \subseteq 0..LevelMax
    /\ Slides \subseteq 0..(LowWidth - 1)
    /\ First \in BOOLEAN /\ Rest \in Nat /\ Fades \in BOOLEAN

VARIABLES
    playing,    \* is Int1CISR in the vector?
    main,       \* has InitPlayer still to reset the copies?
    isr,        \* where Int1CISR is with this channel
    first,      \* is the song's first row still to come?
    rested,     \* ticks since the last row, up to Rest
    struck,     \* has this tick read a note? (only the properties look at it)
    ins,        \* byte_15655, the instrument of the channel
    freq,       \* stru_15600, the frequency the channel shall have
    freqSent,   \* word_15612, the one PlayTick sent last
    level,      \* byte_15624, the volumes of carrier and modulator
    levelSent,  \* word_15636, the ones PlayTick sent last
    fading,     \* byte_15651 and byte_15652: the way the song fades
    fade,       \* HscCntr
    fadeSent,   \* byte_15654, the fade of the last PlayTick
    chip        \* registers A0h, B0h and 40h of the channel

player == <<ins, freq, freqSent, level, levelSent>>
clock == <<first, rested, struck>>
vars == <<playing, main, isr, clock, player, fading, fade, fadeSent, chip>>

Silence == [high |-> 0, key |-> FALSE, low |-> 0]
Forced == [high |-> 255, key |-> TRUE, low |-> LowWidth - 1]
Loud == [ksl |-> 0, level |-> 0]
Full == [ksl |-> 3, level |-> LevelMax]
NeverSent == 255

Levels == [carrier : Volume, modulator : Volume]

TypeOK ==
    /\ playing \in BOOLEAN /\ main \in {"idle", "copies"}
    /\ isr \in {"idle", "cell", "effect", "others", "play", "count"}
    /\ first \in BOOLEAN /\ rested \in 0..Rest /\ struck \in BOOLEAN
    /\ fading \in {"none", "out", "in"}
    /\ ins \in Instruments
    /\ freq \in Freq /\ freqSent \in Freq
    /\ level \in Levels /\ levelSent \in Levels
    /\ fade \in 0..LevelMax /\ fadeSent \in 0..LevelMax \cup {NeverSent}
    /\ chip \in [a0 : 0..(LowWidth - 1), high : High, key : BOOLEAN,
                 carrier : Volume, modulator : Volume]

Init ==
    /\ playing = FALSE /\ main = "idle" /\ isr = "idle"
    /\ first = FALSE /\ rested = 0 /\ struck = FALSE
    /\ ins \in Instruments
    /\ freq = Silence /\ freqSent = Forced
    /\ level = [carrier |-> Loud, modulator |-> Loud] /\ levelSent = level
    /\ fading = "none" /\ fade = 0 /\ fadeSent = NeverSent
    /\ chip = [a0 |-> 0, high |-> 0, key |-> FALSE,
               carrier |-> Loud, modulator |-> Loud]

\* A zero in register B0h.
Released(c) == [c EXCEPT !.high = 0, !.key = FALSE]

\* PutAXIns on a chip c: key off and the volumes of the instrument i as they
\* are, whatever the fade; freq and the copies of what was sent stay.
PutAXIns(c, i) ==
    /\ ins' = i
    /\ chip' = [Released(c) EXCEPT !.carrier = i.carrier, !.modulator = i.modulator]
    /\ level' = [carrier |-> i.carrier, modulator |-> i.modulator]

(***************************************************************************)
(* The main program.                                                       *)
(***************************************************************************)

\* InitPlayer up to the new vector; InitSB is part of it.
Start ==
    /\ isr = "idle" /\ main = "idle"
    /\ freq' = Silence
    /\ \E i \in Instruments : PutAXIns(chip, i)
    /\ fading' = "none" /\ fade' = 0
    /\ playing' = TRUE
    /\ first' = TRUE /\ rested' = 0 /\ struck' = FALSE
    /\ main' = "copies"
    /\ UNCHANGED <<isr, freqSent, levelSent, fadeSent>>

\* The rest of InitPlayer.  Its loops write one byte again and again: only
\* the low byte of channel 0's frequency and channel 0's carrier are reset.
ResetCopies ==
    /\ isr = "idle" /\ main = "copies"
    /\ freqSent' = IF First THEN [freqSent EXCEPT !.low = LowWidth - 1] ELSE freqSent
    /\ levelSent' = IF First THEN [levelSent EXCEPT !.carrier = Full] ELSE levelSent
    /\ fadeSent' = NeverSent
    /\ main' = "idle"
    /\ UNCHANGED <<playing, isr, clock, ins, freq, level, fading, fade, chip>>

\* RestoreTimerISR and its InitSB.
Stop ==
    /\ isr = "idle" /\ main = "idle" /\ playing
    /\ playing' = FALSE
    /\ freq' = Silence /\ chip' = Released(chip)
    /\ UNCHANGED <<main, isr, clock, ins, freqSent, level, levelSent,
                   fading, fade, fadeSent>>

\* InitPlayer for the key '.'; HscSequencer has its two instructions.
FadeKey ==
    /\ isr = "idle" /\ main = "idle" /\ Fades
    /\ fading' = "out"
    /\ UNCHANGED <<playing, main, isr, clock, player, fade, fadeSent, chip>>

(***************************************************************************)
(* The interrupt.                                                          *)
(***************************************************************************)
\* The first tick of a song reads a row: a start leaves one tick to count.
Tick ==
    /\ isr = "idle" /\ playing
    /\ \/ /\ first \/ rested = Rest
          /\ isr' = "cell" /\ first' = FALSE /\ rested' = 0
       \/ /\ ~first
          /\ isr' = "play" /\ first' = first
          /\ rested' = IF rested = Rest THEN Rest ELSE rested + 1
    /\ struck' = FALSE
    /\ UNCHANGED <<playing, main, player, fading, fade, fadeSent, chip>>

\* A step of SomeHSC2 for this channel; note says whether it plays one.
Cell(here, next, note) ==
    /\ isr = here /\ isr' = next
    /\ struck' = (struck \/ note)
    /\ UNCHANGED <<playing, main, first, rested, fading, fade, fadeSent>>

\* The cell 80h.
NewInstrument ==
    /\ Cell("cell", "others", FALSE)
    /\ \E i \in Instruments : PutAXIns(chip, i)
    /\ UNCHANGED <<freq, freqSent, levelSent>>

\* Mutant: the copy of the frequency is not forced.
NoteUnforced ==
    /\ Cell("cell", "effect", TRUE)
    /\ \E n \in Notes : freq' = n
    /\ freqSent' = freqSent
    /\ chip' = Released(chip)
    /\ UNCHANGED <<ins, level, levelSent>>

\* SomeHSC with a note.
Note ==
    /\ Cell("cell", "effect", TRUE)
    /\ \E n \in Notes : freq' = n
    /\ freqSent' = Forced
    /\ chip' = Released(chip)
    /\ UNCHANGED <<ins, level, levelSent>>

\* Mutant: the copy of what was sent is cleared with the frequency.
KeyOffBoth ==
    /\ Cell("cell", "effect", FALSE)
    /\ freq' = [freq EXCEPT !.key = FALSE]
    /\ freqSent' = [freqSent EXCEPT !.key = FALSE]
    /\ UNCHANGED <<ins, level, levelSent, chip>>

\* SomeHSC with 7Fh.
KeyOff ==
    /\ Cell("cell", "effect", FALSE)
    /\ freq' = [freq EXCEPT !.key = FALSE]
    /\ UNCHANGED <<ins, freqSent, level, levelSent, chip>>

NoNote ==
    /\ Cell("cell", "effect", FALSE)
    /\ UNCHANGED <<player, chip>>

\* Mutant: no wrap of the byte.
LowSumUnbounded(a, b) == a + b

\* add [bx+di], ah: the carry out of the low byte is lost.
LowSum(a, b) == (a + b) % LowWidth

\* Effects 1x and 2x.
Slide ==
    /\ Cell("effect", "others", FALSE)
    /\ \E x \in Slides :
         \/ freq' = [freq EXCEPT !.low = LowSum(@, x)]
         \/ freq' = [freq EXCEPT !.low = LowSum(@, LowWidth - x)]
    /\ UNCHANGED <<ins, freqSent, level, levelSent, chip>>

\* Effects Ax, Bx and Cx; Cx moves the modulator too when it is heard.
SetVolume ==
    /\ Cell("effect", "others", FALSE)
    /\ \E l \in EffectLevels :
         LET v == [ksl |-> 0, level |-> l]
         IN  \/ level' = [level EXCEPT !.carrier = v]
             \/ level' = [level EXCEPT !.modulator = v]
             \/ level' = [carrier |-> v,
                          modulator |-> IF ins.additive THEN v ELSE level.modulator]
    /\ UNCHANGED <<ins, freq, freqSent, levelSent, chip>>

\* An effect that is not the channel's own, see HscSequencer, or none.
NoEffect ==
    /\ Cell("effect", "others", FALSE)
    /\ UNCHANGED <<player, chip>>

\* The other cells of the row, with the effects 02, 03 and 04.
OtherCells ==
    /\ isr = "others" /\ isr' = "play"
    /\ \/ fading' = fading /\ fade' = fade
       \/ Fades /\ fading' = "out" /\ fade' = fade
       \/ Fades /\ fading' = "in" /\ fade' = LevelMax
       \/ Fades /\ fading' = fading /\ fade' = 0
    /\ UNCHANGED <<playing, main, clock, player, fadeSent, chip>>

\* SomeHSC4: the level is scaled by the fade; 3Fh minus the byte mirrors the
\* key scale bits above it.
Faded(v) ==
    [ksl   |-> (4 - v.ksl) % 4,
     level |-> LevelMax - ((LevelMax - v.level) * (LevelMax - fade)) \div LevelMax]

\* Mutant: the tune of the instrument is left out.
SendFreqUntuned(c) ==
    [c EXCEPT !.a0 = freq.low, !.high = freq.high, !.key = freq.key]

\* SomeHSC3: the fine tune of the instrument is added to the low byte.
SendFreq(c) ==
    [c EXCEPT !.a0 = LowSum(freq.low, ins.fine), !.high = freq.high, !.key = freq.key]

SendLevels(c) ==
    [c EXCEPT !.carrier = Faded(level.carrier),
              !.modulator = IF ins.additive THEN Faded(level.modulator)
                                            ELSE level.modulator]

\* Mutant: the modulator's copy is never looked at.
LevelsDueCarrier == fade # fadeSent \/ level.carrier # levelSent.carrier

LevelsDue == fade # fadeSent \/ level # levelSent

\* Which copy PlayTick brings up to date: none when the fade moved, else the
\* carrier's, else the modulator's.
LevelsNoted ==
    IF fade # fadeSent THEN levelSent
    ELSE IF level.carrier # levelSent.carrier
      THEN [levelSent EXCEPT !.carrier = level.carrier]
      ELSE [levelSent EXCEPT !.modulator = level.modulator]

PlayTick ==
    /\ isr = "play" /\ isr' = "count"
    /\ freqSent' = freq
    /\ LET tuned == IF freq # freqSent THEN SendFreq(chip) ELSE chip
       IN  chip' = IF LevelsDue THEN SendLevels(tuned) ELSE tuned
    /\ levelSent' = LevelsNoted
    /\ fadeSent' = fade
    /\ UNCHANGED <<playing, main, clock, ins, freq, level, fading, fade>>

CheckHscCntr ==
    /\ isr = "count" /\ isr' = "idle"
    /\ fade' = CASE fading = "out" /\ fade # LevelMax -> fade + 1
                 [] fading = "in" /\ fade # 0 -> fade - 1
                 [] OTHER -> fade
    /\ UNCHANGED <<playing, main, clock, player, fading, fadeSent, chip>>

Main == Start \/ ResetCopies \/ Stop \/ FadeKey
Interrupt ==
    \/ Tick
    \/ NewInstrument \/ Note \/ KeyOff \/ NoNote
    \/ Slide \/ SetVolume \/ NoEffect
    \/ OtherCells \/ PlayTick \/ CheckHscCntr

Next == Main \/ Interrupt

Spec == Init /\ [][Next]_vars

(***************************************************************************)
(* Properties.                                                             *)
(***************************************************************************)

\* Between two ticks the chip sounds nothing but the note the player holds:
\* whatever cells, restarts and stops wrote to the chip behind the copy of
\* the frequency, no note sticks.
HeardIsHeld == isr = "idle" /\ chip.key => freq.key /\ chip.high = freq.high

\* And at its pitch, slides and the tune of the instrument included.  Not so
\* on channel 0, see ResetCopies: a tick before it and a slide to 0FFh after
\* it leave the pitch where it was.
HeardInTune ==
    isr = "idle" /\ chip.key => chip.a0 = LowSum(freq.low, ins.fine)

\* A note of the song is heard, be it the same as the one before: PlayTick
\* may not take it for sent.
NoteSounds == isr = "count" /\ struck => chip.key

\* The copies are reset and a tick has passed since.
Settled == isr = "idle" /\ main = "idle" /\ fadeSent # NeverSent

\* In a song of five ticks a row or more that never fades the chip has the
\* volumes the player believes it has, as the instrument gave them or as
\* SomeHSC4 rewrites them, although PlayTick notes one of two changes a tick.
VolumeFollows ==
    Settled =>
        /\ chip.carrier \in {level.carrier, Faded(level.carrier)}
        /\ chip.modulator \in {level.modulator, Faded(level.modulator)}

\* The help text says "'.': Fade out" (jukebox.asm:2010): a song that is
\* faded out is not heard.
FadeOutSilences ==
    Settled /\ fade = LevelMax /\ fadeSent = LevelMax /\ chip.key
        => chip.carrier.level = LevelMax
=============================================================================
