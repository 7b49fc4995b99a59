---------------------------- MODULE HscSequencer ----------------------------
(***************************************************************************)
(* The song clock of the HSC player (src/attick/jukebox.asm): the timer    *)
(* interrupt Int1CISR counts ticks down, reads one row of the song when    *)
(* the count is over (NewSong, SomeHSC2), and moves the fade (CheckHscCntr)*)
(* while the main program may start a song or ask for a fade-out           *)
(* (InitPlayer).  The interrupt runs to its iret with interrupts off, so   *)
(* the main program moves only while isr = "idle"; the interrupt may strike*)
(* between any two instructions of the main program.                       *)
(***************************************************************************)
EXTENDS Naturals

CONSTANTS
    Channels,   \* channels of a row: 9
    Rows,       \* rows of a pattern: 40h
    Length,     \* entries of the order list before its 0FFh
    MaxSpeed,   \* largest speed an effect can set: 10h
    FadeMax,    \* HscCntr of a silent song: 3Fh
    Drums,      \* drum bits an effect 5x can set: 1..5, 0 sets none
    Jumps       \* orders the Dx effects of the song name

ASSUME SequencerAssumption ==
    /\ Channels \in Nat \ {0}
    /\ Rows \in 1..255
    /\ Length \in 1..255
    /\ MaxSpeed \in 2..255
    /\ FadeMax \in 1..255
    /\ Drums \subseteq Nat /\ 0 \in Drums
    /\ Jumps \subseteq 0..(Length - 1)

VARIABLES
    playing,    \* is Int1CISR in the vector?
    counter,    \* byte_1564C, ticks left of the row
    speed,      \* byte_1564E, ticks of a row
    order,      \* byte_1564F, position in the order list
    row,        \* byte_15650, row of the pattern
    fadeOut,    \* byte_15651 # 0
    fadeIn,     \* byte_15652 # 0
    fade,       \* HscCntr
    bd,         \* byte_15690, what register BDh shall hold
    bdSent,     \* byte_15691, what SomeHSC2 last sent to it
    chipBD,     \* register BDh of the chip
    isr,        \* where Int1CISR is
    chan,       \* 9 - cx of the loop in NewSong
    key         \* where InitPlayer is when called with al = 0FFh

song == <<counter, speed, order, row>>
fades == <<fadeOut, fadeIn, fade>>
drums == <<bd, bdSent, chipBD>>
vars == <<playing, song, fades, drums, isr, chan, key>>

Byte == 0..255
Register == [rhythm : BOOLEAN, drum : Drums]
Quiet == [rhythm |-> FALSE, drum |-> 0]

TypeOK ==
    /\ playing \in BOOLEAN
    /\ counter \in Byte /\ speed \in Byte /\ order \in Byte /\ row \in Byte
    /\ fadeOut \in BOOLEAN /\ fadeIn \in BOOLEAN /\ fade \in 0..FadeMax
    /\ bd \in Register /\ bdSent \in Register /\ chipBD \in Register
    /\ isr \in {"idle", "events", "advance", "fade"}
    /\ chan \in 0..Channels
    /\ key \in {"idle", "fading"}

Init ==
    /\ playing = FALSE
    /\ counter = 0 /\ speed = 0 /\ order = 0 /\ row = 0
    /\ fadeOut = FALSE /\ fadeIn = FALSE /\ fade = 0
    /\ bd = Quiet /\ bdSent = Quiet /\ chipBD = Quiet
    /\ isr = "idle" /\ chan = 0 /\ key = "idle"

(***************************************************************************)
(* The main program.                                                       *)
(***************************************************************************)

\* Nothing of the player runs between the restored vector and the new one,
\* so a start is one step here; bdSent is not among what it resets.
Start ==
    /\ isr = "idle" /\ key = "idle"
    /\ playing' = TRUE
    /\ bd' = Quiet /\ chipBD' = Quiet
    /\ fadeOut' = FALSE /\ fadeIn' = FALSE /\ fade' = 0
    /\ counter' = 1 /\ speed' = 2 /\ order' = 0 /\ row' = 0
    /\ UNCHANGED <<bdSent, isr, chan, key>>

Stop ==
    /\ isr = "idle" /\ key = "idle" /\ playing
    /\ playing' = FALSE
    /\ UNCHANGED <<song, fades, drums, isr, chan, key>>

\* The key '.' sets one flag and then clears the other.
FadeKeySetsOut ==
    /\ isr = "idle" /\ key = "idle"
    /\ fadeOut' = TRUE /\ key' = "fading"
    /\ UNCHANGED <<playing, song, fadeIn, fade, drums, isr, chan>>

FadeKeyClearsIn ==
    /\ isr = "idle" /\ key = "fading"
    /\ fadeIn' = FALSE /\ key' = "idle"
    /\ UNCHANGED <<playing, song, fadeOut, fade, drums, isr, chan>>

(***************************************************************************)
(* The interrupt.                                                          *)
(***************************************************************************)
CountDown(n) == (n + 255) % 256

\* Int1CISR: sub [byte_1564C], 1 and the reload.
Tick ==
    /\ isr = "idle" /\ playing
    /\ IF CountDown(counter) = 0
         THEN counter' = speed /\ isr' = "events" /\ chan' = 0
         ELSE counter' = CountDown(counter) /\ isr' = "fade" /\ chan' = chan
    /\ UNCHANGED <<playing, speed, order, row, fades, drums, key>>

\* Mutant: the copy of what was sent is never brought up to date.
SendBDForgets(b) ==
    /\ bd' = b
    /\ bdSent' = bdSent
    /\ chipBD' = IF b # bdSent THEN b ELSE chipBD

\* The end of SomeHSC2: BDh is sent when it differs from what was sent last.
SendBD(b) ==
    /\ bd' = b
    /\ bdSent' = b
    /\ chipBD' = IF b # bdSent THEN b ELSE chipBD

\* SomeHSC2 is done with its channel.
NextChannel ==
    /\ chan' = chan + 1
    /\ isr' = IF chan + 1 = Channels THEN "advance" ELSE "events"
    /\ UNCHANGED <<playing, key>>

InRow == isr = "events"

\* A cell whose effect leaves the song clock, the fade and the drums alone:
\* an instrument, no effect, a slide, a feedback, a volume.
PlainCell ==
    /\ InRow
    /\ SendBD(bd)
    /\ NextChannel
    /\ UNCHANGED <<song, fades>>

\* Mutant: one row too early.
LastRowEarly == IF Rows > 1 THEN Rows - 2 ELSE 0

\* The row a break leaves behind: NewSong is about to step past it.
LastRow == Rows - 1

\* Effect 01.
BreakPattern ==
    /\ InRow
    /\ row' = LastRow
    /\ SendBD(bd)
    /\ NextChannel
    /\ UNCHANGED <<counter, speed, order, fades>>

\* Effect Dx.
JumpToOrder ==
    /\ InRow
    /\ \E x \in Jumps : order' = x
    /\ row' = LastRow
    /\ SendBD(bd)
    /\ NextChannel
    /\ UNCHANGED <<counter, speed, fades>>

\* Effects 02, 03 and 04.
FadeOut ==
    /\ InRow
    /\ fadeOut' = TRUE /\ fadeIn' = FALSE /\ fade' = fade
    /\ SendBD(bd)
    /\ NextChannel
    /\ UNCHANGED song

\* Mutant: the fade-out is not called off.
FadeInKeepsOut ==
    /\ InRow
    /\ fadeIn' = TRUE /\ fadeOut' = fadeOut /\ fade' = FadeMax
    /\ SendBD(bd)
    /\ NextChannel
    /\ UNCHANGED song

FadeIn ==
    /\ InRow
    /\ fadeIn' = TRUE /\ fadeOut' = FALSE /\ fade' = FadeMax
    /\ SendBD(bd)
    /\ NextChannel
    /\ UNCHANGED song

FullVolume ==
    /\ InRow
    /\ fade' = 0
    /\ SendBD(bd)
    /\ NextChannel
    /\ UNCHANGED <<song, fadeOut, fadeIn>>

\* Effects 05 and 06.
Rhythm ==
    /\ InRow
    /\ \E on \in BOOLEAN : SendBD([bd EXCEPT !.rhythm = on])
    /\ NextChannel
    /\ UNCHANGED <<song, fades>>

\* Effect 5x: one drum bit replaces all five.
Drum ==
    /\ InRow
    /\ \E d \in Drums : SendBD([bd EXCEPT !.drum = d])
    /\ NextChannel
    /\ UNCHANGED <<song, fades>>

\* Mutant: inc ah is missing.
SpeedOfNibble(x) == x

\* The speed an effect with the low nibble x sets.
SpeedOf(x) == x + 1

\* Effect Fx, and every effect no other branch takes: cmp al, 0Fh is
\* followed by no jump.
SetSpeed ==
    /\ InRow
    /\ \E x \in 0..(MaxSpeed - 1) : speed' = SpeedOf(x) /\ counter' = SpeedOf(x)
    /\ SendBD(bd)
    /\ NextChannel
    /\ UNCHANGED <<order, row, fades>>

\* The order list starts again at its 0FFh.
NextOrder ==
    LET position == (order + 1) % 256
    IN  IF position = Length THEN 0 ELSE position

\* The end of NewSong.
Advance ==
    /\ isr = "advance"
    /\ LET next == (row + 1) % 256
       IN  IF next = Rows
             THEN row' = 0 /\ order' = NextOrder
             ELSE row' = next /\ order' = order
    /\ isr' = "fade"
    /\ UNCHANGED <<playing, counter, speed, fades, drums, chan, key>>

\* Mutants: the bound is not looked at; it is missed by one.
SofterUnbounded(f) == IF fadeOut THEN f + 1 ELSE f
SofterShort(f) == IF fadeOut /\ f + 1 # FadeMax THEN f + 1 ELSE f

Softer(f) == IF fadeOut /\ f # FadeMax THEN f + 1 ELSE f
Louder(f) == IF fadeIn /\ f # 0 THEN f - 1 ELSE f

\* First the fade-out, then the fade-in.
CheckHscCntr ==
    /\ isr = "fade"
    /\ fade' = Louder(Softer(fade))
    /\ isr' = "idle"
    /\ UNCHANGED <<playing, song, fadeOut, fadeIn, drums, chan, key>>

Cell ==
    \/ PlainCell \/ BreakPattern \/ JumpToOrder
    \/ FadeOut \/ FadeIn \/ FullVolume
    \/ Rhythm \/ Drum \/ SetSpeed

Interrupt == Tick \/ Cell \/ Advance \/ CheckHscCntr
Main == Start \/ Stop \/ FadeKeySetsOut \/ FadeKeyClearsIn

Next == Main \/ Interrupt

Spec == Init /\ [][Next]_vars

\* The timer keeps ticking, an interrupt returns, and the main program
\* goes on when it does: two interrupts leave it room for an instruction, so
\* the second half of the key comes, however often the interrupt is before it.
FairSpec ==
    /\ Spec
    /\ WF_vars(Interrupt)
    /\ SF_vars(FadeKeyClearsIn)

(***************************************************************************)
(* Properties.                                                             *)
(***************************************************************************)

\* A playing song has a tick to count down and a row has at least one: the
\* byte never steps below zero, which would hold a row for 256 ticks.
CounterNeverWraps ==
    playing => counter \in 1..MaxSpeed /\ speed \in 1..MaxSpeed

\* Whenever a row is about to be read, its order is an entry of the list and
\* its row one of the pattern, whatever breaks, jumps and restarts came
\* before (NewSong indexes the song with both unchecked).
PositionInSong == isr \in {"idle", "events"} => order < Length /\ row < Rows

\* The clock of the song stays in the song (jukebox.asm:489-502, 608-639).
ClockInSong == CounterNeverWraps /\ PositionInSong

\* A song fades in or out, never both ways, except while the key '.' is half
\* done (effects 02 and 03 and InitPlayer each write both flags).
FadesExclusive == key = "idle" => ~(fadeOut /\ fadeIn)

\* Register BDh holds what the song asks for, or the zero the last start
\* wrote while SomeHSC2 still believes in the value of the song before.
DrumsReachChip == chipBD = bd \/ (chipBD = Quiet /\ bd = bdSent)

\* The help text says "'.': Fade out" (jukebox.asm:2010): when the key is
\* dealt with, the song fades out.
FadeKeyFadesOut == [][FadeKeyClearsIn => fadeOut']_vars

\* Once BDh and the copy of it agree they part only at a start.
DrumsStayInStep ==
    [][chipBD = bdSent /\ chipBD' # bdSent'
         => chipBD' = Quiet /\ bd' = Quiet /\ order' = 0 /\ row' = 0 /\ isr = "idle"]_vars

\* A song that plays on, and is not started afresh for ever, leaves every row
\* it comes to and comes past the end of a pattern again and again: no break,
\* jump or change of speed holds it in place, on its first row or any other.
PlaysOn ==
    <>[]playing /\ <>[][~Start]_vars
    => []<><<Advance>>_vars /\ []<><<Advance /\ row' = 0>>_vars

\* A fade-out that nothing takes back ends in silence and stays there, however
\* the interrupt struck the two instructions of the key.
FadeOutEnds ==
    /\ <>[](playing /\ fadeOut)
    /\ <>[][fade' >= fade]_fade
    => <>[](fade = FadeMax)
=============================================================================
