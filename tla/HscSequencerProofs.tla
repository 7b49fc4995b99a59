------------------------ MODULE HscSequencerProofs ------------------------
(***************************************************************************)
(* The song clock is safe for every pattern length, order list, speed and  *)
(* number of channels: type correctness, the counter, the position, the    *)
(* fade flags and the drum register, from one inductive invariant.         *)
(***************************************************************************)
EXTENDS HscSequencer, TLAPS

\* The interrupt belongs to a playing song and its loop to a channel.
InterruptInv ==
    /\ isr # "idle" => playing
    /\ isr = "events" => chan < Channels

\* The position is good in the middle of the interrupt too.
PositionInv == order < Length /\ row < Rows

\* What DrumsReachChip lacks to be inductive: while BDh and its copy differ
\* either nothing has been sent since the start, or the copy is what the song
\* asks for and the register is still the start's zero.
DrumsInv ==
    \/ bd = bdSent /\ chipBD \in {bd, Quiet}
    \/ bd = Quiet /\ chipBD = Quiet

Inv ==
    /\ TypeOK
    /\ InterruptInv
    /\ CounterNeverWraps
    /\ PositionInv
    /\ FadesExclusive
    /\ DrumsInv

\* Quiet is a value of the register.
LEMMA QuietType == Quiet \in Register
BY SequencerAssumption DEF Quiet, Register

\* The constants the steps assign are values of the variables.
LEMMA Constants ==
    /\ 0 \in 0..FadeMax /\ FadeMax \in 0..FadeMax
    /\ LastRow \in Byte /\ LastRow < Rows
    /\ 0 \in Byte /\ 0 < Rows /\ 0 < Length
    /\ 0 \in 0..Channels /\ 0 < Channels
    /\ \A x \in 0..(MaxSpeed - 1) : SpeedOf(x) \in 1..MaxSpeed
    /\ \A n \in 1..MaxSpeed : n \in Byte
    /\ \A x \in Jumps : x \in Byte /\ x < Length
    /\ 1 \in 1..MaxSpeed /\ 2 \in 1..MaxSpeed
BY SequencerAssumption DEF LastRow, Byte, SpeedOf

\* Every cell leaves the drum register and its copy in a good state.
LEMMA SendKeeps ==
    ASSUME TypeOK, DrumsInv, NEW b \in Register, SendBD(b)
    PROVE  /\ bd' \in Register /\ bdSent' \in Register /\ chipBD' \in Register
           /\ DrumsInv'
BY QuietType DEF TypeOK, DrumsInv, SendBD

\* Every cell moves the loop to the next channel or past the last.
LEMMA ChannelKeeps ==
    ASSUME TypeOK, InterruptInv, isr = "events", NextChannel
    PROVE  /\ playing' = playing /\ playing' /\ key' = key
           /\ isr' \in {"events", "advance"}
           /\ chan' \in 0..Channels
           /\ isr' = "events" => chan' < Channels
BY SequencerAssumption DEF TypeOK, InterruptInv, NextChannel

\* A cell of the row keeps the invariant, whatever its effect.
LEMMA CellKeeps == ASSUME Inv, Cell PROVE Inv'
<1> USE Constants, ChannelKeeps
       DEF Inv, TypeOK, InterruptInv, CounterNeverWraps, PositionInv,
           FadesExclusive, InRow
<1>1. CASE PlainCell
  <2>1. DrumsInv' /\ bd' \in Register /\ bdSent' \in Register /\ chipBD' \in Register
    BY <1>1, SendKeeps DEF PlainCell
  <2> QED BY <1>1, <2>1 DEF PlainCell, song, fades
<1>2. CASE BreakPattern
  <2>1. DrumsInv' /\ bd' \in Register /\ bdSent' \in Register /\ chipBD' \in Register
    BY <1>2, SendKeeps DEF BreakPattern
  <2> QED BY <1>2, <2>1 DEF BreakPattern, fades
<1>3. CASE JumpToOrder
  <2>1. DrumsInv' /\ bd' \in Register /\ bdSent' \in Register /\ chipBD' \in Register
    BY <1>3, SendKeeps DEF JumpToOrder
  <2>2. order' \in Byte /\ order' < Length
    BY <1>3 DEF JumpToOrder
  <2> QED BY <1>3, <2>1, <2>2 DEF JumpToOrder, fades
<1>4. CASE FadeOut
  <2>1. DrumsInv' /\ bd' \in Register /\ bdSent' \in Register /\ chipBD' \in Register
    BY <1>4, SendKeeps DEF FadeOut
  <2> QED BY <1>4, <2>1 DEF FadeOut, song
<1>5. CASE FadeIn
  <2>1. DrumsInv' /\ bd' \in Register /\ bdSent' \in Register /\ chipBD' \in Register
    BY <1>5, SendKeeps DEF FadeIn
  <2> QED BY <1>5, <2>1 DEF FadeIn, song
<1>6. CASE FullVolume
  <2>1. DrumsInv' /\ bd' \in Register /\ bdSent' \in Register /\ chipBD' \in Register
    BY <1>6, SendKeeps DEF FullVolume
  <2> QED BY <1>6, <2>1 DEF FullVolume, song
<1>7. CASE Rhythm
  <2>1. PICK on \in BOOLEAN : SendBD([bd EXCEPT !.rhythm = on])
    BY <1>7 DEF Rhythm
  <2>2. [bd EXCEPT !.rhythm = on] \in Register
    BY DEF Register
  <2>3. DrumsInv' /\ bd' \in Register /\ bdSent' \in Register /\ chipBD' \in Register
    BY <2>1, <2>2, SendKeeps
  <2> QED BY <1>7, <2>3 DEF Rhythm, song, fades
<1>8. CASE Drum
  <2>1. PICK d \in Drums : SendBD([bd EXCEPT !.drum = d])
    BY <1>8 DEF Drum
  <2>2. [bd EXCEPT !.drum = d] \in Register
    BY DEF Register
  <2>3. DrumsInv' /\ bd' \in Register /\ bdSent' \in Register /\ chipBD' \in Register
    BY <2>1, <2>2, SendKeeps
  <2> QED BY <1>8, <2>3 DEF Drum, song, fades
<1>9. CASE SetSpeed
  <2>1. DrumsInv' /\ bd' \in Register /\ bdSent' \in Register /\ chipBD' \in Register
    BY <1>9, SendKeeps DEF SetSpeed
  <2>2. speed' \in 1..MaxSpeed /\ counter' \in 1..MaxSpeed
    BY <1>9 DEF SetSpeed
  <2> QED BY <1>9, <2>1, <2>2 DEF SetSpeed, fades
<1> QED BY <1>1, <1>2, <1>3, <1>4, <1>5, <1>6, <1>7, <1>8, <1>9 DEF Cell

\* The invariant holds at first.
LEMMA InitInv == Init => Inv
BY Constants, QuietType
   DEF Init, Inv, TypeOK, InterruptInv, CounterNeverWraps, PositionInv,
       FadesExclusive, DrumsInv

\* Every step keeps the invariant.
LEMMA NextInv == Inv /\ [Next]_vars => Inv'
<1> SUFFICES ASSUME Inv, [Next]_vars PROVE Inv'
  OBVIOUS
<1> USE Constants, QuietType
       DEF Inv, TypeOK, InterruptInv, CounterNeverWraps, PositionInv,
           FadesExclusive, DrumsInv
<1>1. CASE Start
  BY <1>1 DEF Start
<1>2. CASE Stop
  BY <1>2 DEF Stop, song, fades, drums
<1>3. CASE FadeKeySetsOut
  BY <1>3 DEF FadeKeySetsOut, song, drums
<1>4. CASE FadeKeyClearsIn
  BY <1>4 DEF FadeKeyClearsIn, song, drums
<1>5. CASE Tick
  <2>1. counter \in 1..MaxSpeed /\ speed \in 1..MaxSpeed
    BY <1>5 DEF Tick
  <2>2. CountDown(counter) = counter - 1
    BY <2>1, SequencerAssumption DEF CountDown
  <2>3. counter - 1 # 0 => counter - 1 \in 1..MaxSpeed
    BY <2>1, SequencerAssumption
  <2> QED BY <1>5, <2>1, <2>2, <2>3 DEF Tick, fades, drums
<1>6. CASE Cell
  BY <1>6, CellKeeps
<1>7. CASE Advance
  <2>1. /\ row' \in Byte /\ row' < Rows
        /\ order' \in Byte /\ order' < Length
    <3>1. (row + 1) % 256 = row + 1 /\ (order + 1) % 256 = order + 1
      BY SequencerAssumption DEF Byte
    <3>2. NextOrder \in Byte /\ NextOrder < Length
      BY <3>1, SequencerAssumption DEF NextOrder, Byte
    <3>3. \/ row' = 0 /\ order' = NextOrder
          \/ row + 1 # Rows /\ row' = row + 1 /\ order' = order
      BY <1>7, <3>1 DEF Advance
    <3>4. CASE row' = 0 /\ order' = NextOrder
      BY <3>2, <3>4, SequencerAssumption DEF Byte
    <3>5. CASE row + 1 # Rows /\ row' = row + 1 /\ order' = order
      BY <3>5, SequencerAssumption DEF Byte
    <3> QED BY <3>3, <3>4, <3>5
  <2> QED BY <1>7, <2>1 DEF Advance, fades, drums
<1>8. CASE CheckHscCntr
  <2>1. fade' \in 0..FadeMax
    BY <1>8, SequencerAssumption DEF CheckHscCntr, Softer, Louder
  <2> QED BY <1>8, <2>1 DEF CheckHscCntr, song, drums
<1>9. CASE UNCHANGED vars
  BY <1>9 DEF vars, song, fades, drums
<1> QED BY <1>1, <1>2, <1>3, <1>4, <1>5, <1>6, <1>7, <1>8, <1>9
        DEF Next, Main, Interrupt

\* The inductive invariant holds in every reachable state.
LEMMA Invariance == Spec => []Inv
BY InitInv, NextInv, PTL DEF Spec

\* Type correctness of the song clock.
THEOREM TypeCorrect == Spec => []TypeOK
<1>1. Inv => TypeOK
  BY DEF Inv
<1> QED BY <1>1, Invariance, PTL

\* The tick counter of a playing song is never zero between two ticks, and
\* the song is never read outside its order list or its pattern.
THEOREM ClockSafe == Spec => []ClockInSong
<1>1. Inv => ClockInSong
  BY DEF Inv, PositionInv, PositionInSong, ClockInSong
<1> QED BY <1>1, Invariance, PTL

\* The two fades exclude each other, in spite of the interrupt that may come
\* between the two writes of the key.
THEOREM FadesSafe == Spec => []FadesExclusive
<1>1. Inv => FadesExclusive
  BY DEF Inv
<1> QED BY <1>1, Invariance, PTL

\* The drum register holds what the song asks for or a start's zero.
THEOREM DrumsSafe == Spec => []DrumsReachChip
<1>1. Inv => DrumsReachChip
  BY DEF Inv, DrumsInv, DrumsReachChip
<1> QED BY <1>1, Invariance, PTL

\* A cell brings the drum register and its copy together for good.
LEMMA CellInStep ==
    ASSUME Cell, chipBD = bdSent
    PROVE  chipBD' = bdSent'
BY DEF Cell, PlainCell, BreakPattern, JumpToOrder, FadeOut, FadeIn,
       FullVolume, Rhythm, Drum, SetSpeed, SendBD

\* The drum register and its copy part at the start of a song and nowhere
\* else.
THEOREM DrumsPartAtStart == Spec => DrumsStayInStep
<1>1. [Next]_vars =>
        [chipBD = bdSent /\ chipBD' # bdSent'
           => chipBD' = Quiet /\ bd' = Quiet /\ order' = 0 /\ row' = 0
              /\ isr = "idle"]_vars
  <2> SUFFICES ASSUME Next, chipBD = bdSent, chipBD' # bdSent'
               PROVE  /\ chipBD' = Quiet /\ bd' = Quiet /\ order' = 0
                      /\ row' = 0 /\ isr = "idle"
    OBVIOUS
  <2>1. CASE Start
    BY <2>1 DEF Start
  <2>2. CASE Cell
    BY <2>2, CellInStep
  <2>3. CASE \/ Stop \/ FadeKeySetsOut \/ FadeKeyClearsIn
             \/ Tick \/ Advance \/ CheckHscCntr
    BY <2>3 DEF Stop, FadeKeySetsOut, FadeKeyClearsIn, Tick, Advance,
                CheckHscCntr, drums
  <2> QED BY <2>1, <2>2, <2>3 DEF Next, Main, Interrupt
<1> QED BY <1>1, PTL DEF Spec, DrumsStayInStep
-----------------------------------------------------------------------------
(* The way of a song.                                                       *)

\* Where an interrupt stands in the row: in the ticks before the row is read,
\* in its cells, or at its end.
Place == IF isr = "events" THEN 1 ELSE IF isr = "advance" THEN 2 ELSE 0

\* From the last row on to the first one of the next order.
TurnsPage == isr = "advance" /\ row = LastRow /\ row' = 0 /\ order' = NextOrder

\* Within a row: to a later place; to the next cell; or to the next tick.
StaysInRow ==
    /\ row' = row
    /\ \/ Place' > Place
       \/ isr = "events" /\ isr' = "events" /\ chan' > chan
       \/ isr = "idle" /\ isr' = "fade" /\ counter' < counter
       \/ isr = "fade" /\ isr' = "idle" /\ counter' = counter

\* Every step of the interrupt takes the song on in one order: from the end of
\* the last row to the first; to a later row; or further within its row. No
\* step of it goes back, but from the last row, and none leaves all of row,
\* place, cell and tick as they are.  Each of these is bounded (TypeCorrect),
\* so that no effect, be it a break, a jump or a speed, holds the song on a
\* row, the first among them (jukebox.asm:489-502, 608-639, 680-686, 873-886).
RowsAdvance == [][Interrupt => TurnsPage \/ row' > row \/ StaysInRow]_vars

\* A fade-out that is under way loses a step in no interrupt: outside the key
\* '.' no fade-in takes it back (jukebox.asm:563-577).
FadeAdvances ==
    [][CheckHscCntr /\ fadeOut /\ key = "idle" /\ fade # FadeMax
         => fade' = fade + 1]_vars

\* A cell may leave its row for the last one of the pattern, never for an
\* earlier one.
LEMMA CellAdvances ==
    ASSUME Inv, Cell
    PROVE  \/ row' > row
           \/ row' = row /\ Place' > Place
           \/ row' = row /\ isr = "events" /\ isr' = "events" /\ chan' > chan
<1>1. row' \in {row, LastRow} /\ NextChannel /\ isr = "events"
  BY DEF Cell, PlainCell, BreakPattern, JumpToOrder, FadeOut, FadeIn,
         FullVolume, Rhythm, Drum, SetSpeed, InRow, song
<1>2. row' = row \/ row' > row
  BY <1>1, SequencerAssumption DEF Inv, TypeOK, PositionInv, LastRow, Byte
<1>3. isr' = "advance" \/ (isr' = "events" /\ chan' > chan)
  BY <1>1 DEF NextChannel, Inv, TypeOK
<1> QED BY <1>1, <1>2, <1>3 DEF Place

LEMMA InterruptAdvances ==
    ASSUME Inv, Interrupt
    PROVE  TurnsPage \/ row' > row \/ StaysInRow
<1> USE DEF StaysInRow
<1>1. CASE Tick
  <2>1. counter \in 1..MaxSpeed /\ CountDown(counter) = counter - 1
    BY <1>1, SequencerAssumption DEF Tick, Inv, CounterNeverWraps, CountDown
  <2> QED BY <1>1, <2>1 DEF Tick, Place
<1>2. CASE Cell
  BY <1>2, CellAdvances
<1>3. CASE Advance
  <2>1. row \in Byte /\ row < Rows
    BY DEF Inv, TypeOK, PositionInv
  <2>2. (row + 1) % 256 = row + 1 /\ row + 1 > row
    BY <2>1, SequencerAssumption DEF Byte
  <2>3. CASE row + 1 = Rows
    BY <1>3, <2>1, <2>2, <2>3, SequencerAssumption DEF Advance, TurnsPage, LastRow, Byte
  <2>4. CASE row + 1 # Rows
    BY <1>3, <2>2, <2>4 DEF Advance
  <2> QED BY <2>3, <2>4
<1>4. CASE CheckHscCntr
  BY <1>4 DEF CheckHscCntr, song
<1> QED BY <1>1, <1>2, <1>3, <1>4 DEF Interrupt

\* The song and its fade go on with every interrupt: no step of the interrupt
\* leaves the song where it was, on its first row or any other, and a fade-out
\* that is under way is taken one further. This is why a song that plays on
\* leaves its rows and a fade-out ends (PlaysOn, FadeOutEnds): what is left to
\* the runs is that the timer keeps ticking.
THEOREM SongGoesOn == Spec => RowsAdvance /\ FadeAdvances
<1>1. Inv /\ [Next]_vars => [Interrupt => TurnsPage \/ row' > row \/ StaysInRow]_vars
  BY InterruptAdvances
<1>2. Inv /\ [Next]_vars =>
        [CheckHscCntr /\ fadeOut /\ key = "idle" /\ fade # FadeMax
           => fade' = fade + 1]_vars
  BY DEF Inv, FadesExclusive, CheckHscCntr, Softer, Louder
<1> QED BY <1>1, <1>2, Invariance, PTL DEF Spec, RowsAdvance, FadeAdvances
=============================================================================
