------------------------------ MODULE Jukebox ------------------------------
(***************************************************************************)
(* The main program of the jukebox (src/attick/jukebox.asm) against the    *)
(* timer interrupt: keys select, start, silence and quit; a song plays when*)
(* Int1CISR is in the timer vector; the main program and the interrupt     *)
(* share the vector, the flag that says whose it is, the song buffer and   *)
(* the two ports of the chip, of which the first latches a register number *)
(* for the second.  What the interrupt plays is in HscSequencer and        *)
(* HscVoice.                                                               *)
(***************************************************************************)
EXTENDS Naturals

CONSTANTS
    LastSong,   \* index of the last song of the list: 15h
    Writes      \* registers InitSB and InitPlayer write in a go

ASSUME JukeboxAssumption == LastSong \in Nat /\ Writes \in Nat \ {0}

VARIABLES
    pc,         \* where the main program is
    why,        \* who called RestoreTimerISR: a start, a stop or the end
    left,       \* registers still to be written by InitSB or InitPlayer
    pair,       \* is a register number out and its data to come?
    vector,     \* the handler of interrupt 1Ch
    oldVector,  \* OldInt1C
    flag,       \* Flag2, a song is on
    latch,      \* who wrote the register number the chip has latched
    keyed,      \* what it has keyed on: channels by B0h-B8h, drums by BDh
    selected,   \* the highlighted song
    buffer,     \* the song in SndBuffer
    bars        \* byte_15375, the raster time display

vars == <<pc, why, left, pair, vector, oldVector, flag, latch, keyed,
          selected, buffer, bars>>

NoSong == LastSong + 1
AtKeys == {"keys", "open", "read", "start"}
Programming == {"silence", "program"}
Sources == {"channel", "drum"}

TypeOK ==
    /\ pc \in AtKeys \cup Programming
              \cup {"detect", "restore", "save", "install", "flag", "clear", "gone"}
    /\ why \in {"start", "stop", "quit"}
    /\ left \in 0..Writes /\ pair \in BOOLEAN
    /\ vector \in {"bios", "own"} /\ oldVector \in {"none", "bios", "own"}
    /\ flag \in BOOLEAN /\ keyed \in SUBSET Sources /\ bars \in BOOLEAN
    /\ latch \in {"main", "isr"}
    /\ selected \in 0..LastSong /\ buffer \in 0..NoSong

Init ==
    /\ pc = "detect" /\ why = "start" /\ left = 0 /\ pair = FALSE
    /\ vector = "bios" /\ oldVector = "none" /\ flag = FALSE
    /\ latch = "main" /\ keyed = {}
    /\ selected = 0 /\ buffer = NoSong /\ bars = FALSE

\* The main program goes on from one place to the next.
Goto(here, next) == pc = here /\ pc' = next

chipSide == <<left, pair, latch, keyed>>
vectors == <<vector, oldVector, flag>>
songs == <<selected, buffer>>

(***************************************************************************)
(* The keys.                                                               *)
(***************************************************************************)
DetectSB ==
    /\ pc = "detect"
    /\ pc' \in {"keys", "gone"}
    /\ UNCHANGED <<why, chipSide, vectors, songs, bars>>

CursorUp ==
    /\ pc = "keys" /\ selected # 0
    /\ selected' = selected - 1
    /\ UNCHANGED <<pc, why, chipSide, vectors, buffer, bars>>

\* Mutant: the highlight leaves the list.
CursorDownPast ==
    /\ pc = "keys" /\ selected <= LastSong
    /\ selected' = selected + 1
    /\ UNCHANGED <<pc, why, chipSide, vectors, buffer, bars>>

CursorDown ==
    /\ pc = "keys" /\ selected # LastSong
    /\ selected' = selected + 1
    /\ UNCHANGED <<pc, why, chipSide, vectors, buffer, bars>>

\* 't' and 'T'.
ToggleBars ==
    /\ pc = "keys"
    /\ bars' = ~bars
    /\ UNCHANGED <<pc, why, chipSide, vectors, songs>>

Enter ==
    /\ Goto("keys", "open")
    /\ UNCHANGED <<why, chipSide, vectors, songs, bars>>

Escape ==
    /\ pc = "keys"
    /\ pc' = IF flag THEN "restore" ELSE "gone"
    /\ why' = "quit"
    /\ UNCHANGED <<chipSide, vectors, songs, bars>>

OtherKey ==
    /\ flag
    /\ Goto("keys", "restore")
    /\ why' = "stop"
    /\ UNCHANGED <<chipSide, vectors, songs, bars>>

(***************************************************************************)
(* OpenSndFile: no error is told to StartPlay.  At "read" DOS fills the    *)
(* buffer, from which the interrupt may still be playing.                  *)
(***************************************************************************)
OpenFails ==
    /\ Goto("open", "start")
    /\ UNCHANGED <<why, chipSide, vectors, songs, bars>>

OpenAndRead ==
    /\ Goto("open", "read")
    /\ UNCHANGED <<why, chipSide, vectors, songs, bars>>

ReadEnds ==
    /\ Goto("read", "start")
    /\ buffer' = selected
    /\ UNCHANGED <<why, chipSide, vectors, selected, bars>>

(***************************************************************************)
(* PlayMusic, RestoreTimerISR and InitPlayer.                              *)
(***************************************************************************)

\* Mutant: a playing song is not stopped before the next.
PlayMusicOver ==
    /\ Goto("start", "program")
    /\ left' = Writes
    /\ UNCHANGED <<why, pair, latch, keyed, vectors, songs, bars>>

PlayMusic ==
    /\ pc = "start"
    /\ pc' = IF flag THEN "restore" ELSE "program"
    /\ why' = "start"
    /\ left' = Writes
    /\ UNCHANGED <<pair, latch, keyed, vectors, songs, bars>>

\* Mutant: the chip is silenced while the interrupt still plays.
RestoreVectorLate ==
    /\ Goto("restore", "silence")
    /\ left' = Writes
    /\ UNCHANGED <<why, pair, latch, keyed, vectors, songs, bars>>

RestoreVector ==
    /\ Goto("restore", "silence")
    /\ vector' = oldVector
    /\ left' = Writes
    /\ UNCHANGED <<why, pair, latch, keyed, oldVector, flag, songs, bars>>

\* The number of the register goes to BasePort, its value to the port after.
OutAddress ==
    /\ pc \in Programming /\ left > 0 /\ ~pair
    /\ pair' = TRUE /\ latch' = "main"
    /\ UNCHANGED <<pc, why, left, keyed, vectors, songs, bars>>

OutData ==
    /\ pair
    /\ pair' = FALSE /\ left' = left - 1
    /\ UNCHANGED <<pc, why, latch, keyed, vectors, songs, bars>>

\* Mutant: the key bits are not among the registers written.
SilencedKeysOn ==
    /\ pc = "silence" /\ left = 0
    /\ pc' = CASE why = "start" -> "program"
               [] why = "stop"  -> "clear"
               [] why = "quit"  -> "gone"
    /\ left' = IF why = "start" THEN Writes ELSE 0
    /\ UNCHANGED <<why, pair, latch, keyed, vectors, songs, bars>>

\* InitSB has written its registers, B0h to B8h among them (1071-1143) and BDh
\* not: rhythm mode and its drums stay as they are.
Silenced ==
    /\ pc = "silence" /\ left = 0
    /\ pc' = CASE why = "start" -> "program"
               [] why = "stop"  -> "clear"
               [] why = "quit"  -> "gone"
    /\ left' = IF why = "start" THEN Writes ELSE 0
    /\ keyed' = keyed \ {"channel"}
    /\ UNCHANGED <<why, pair, latch, vectors, songs, bars>>

ClearFlag ==
    /\ Goto("clear", "keys")
    /\ flag' = FALSE
    /\ UNCHANGED <<why, chipSide, vector, oldVector, songs, bars>>

\* InitPlayer has called InitSB, cleared BDh and put the nine instruments.
Programmed ==
    /\ left = 0
    /\ Goto("program", "save")
    /\ keyed' = {}
    /\ UNCHANGED <<why, left, pair, latch, vectors, songs, bars>>

SaveVector ==
    /\ Goto("save", "install")
    /\ oldVector' = vector
    /\ UNCHANGED <<why, chipSide, vector, flag, songs, bars>>

InstallVector ==
    /\ Goto("install", "flag")
    /\ vector' = "own"
    /\ UNCHANGED <<why, chipSide, oldVector, flag, songs, bars>>

SetFlag ==
    /\ Goto("flag", "keys")
    /\ flag' = TRUE
    /\ UNCHANGED <<why, chipSide, vector, oldVector, songs, bars>>

(***************************************************************************)
(* Interrupt 1Ch, from the timer at any time or from the right shift key.  *)
(***************************************************************************)
Int1CISR ==
    /\ vector = "own"
    /\ latch' \in {latch, "isr"}
    /\ keyed' \in SUBSET Sources
    /\ UNCHANGED <<pc, why, left, pair, vectors, songs, bars>>

Keys == CursorUp \/ CursorDown \/ ToggleBars \/ Enter \/ Escape \/ OtherKey
Loading == OpenFails \/ OpenAndRead \/ ReadEnds
Switching ==
    \/ PlayMusic \/ RestoreVector \/ OutAddress \/ OutData
    \/ Silenced \/ ClearFlag \/ Programmed
    \/ SaveVector \/ InstallVector \/ SetFlag

Next == DetectSB \/ Keys \/ Loading \/ Switching \/ Int1CISR

Spec == Init /\ [][Next]_vars

(***************************************************************************)
(* Properties.                                                             *)
(***************************************************************************)

\* The vector is handed over and back whole, though starts, restarts and
\* stops go by a flag that is written apart from it (jukebox.asm:333, 923-936,
\* 1020-1033).
\* The handler the program will put back is never its own: restarts do not
\* make it forget whose vector it was.
OldVectorIsForeign == oldVector # "own"

\* When the program has left, its handler has left the vector before it.
NoHandlerLeftBehind == pc = "gone" => vector = "bios"

\* Whenever the program waits for a key, the flag tells whether its handler
\* is in the vector, which is all a stop, a start and the end go by.
FlagTellsVector == pc = "keys" => (flag <=> vector = "own")

VectorHandedOver == OldVectorIsForeign /\ NoHandlerLeftBehind /\ FlagTellsVector

\* Between the two writes of the main program to the chip the interrupt
\* latches no register of its own: the data reaches the register meant.
PairsWhole == pair => latch = "main"

\* A stop and the program's end release the nine channels for good, and a start
\* has released all of the song before, its drums too, when its own handler
\* comes in.  A stop is held to no more: InitSB never writes BDh, so a drum that
\* effects 05 and 5x hold sounds on after it, with a sustained instrument till
\* the next start, though the help text calls the key "Silence"
\* (jukebox.asm:2011, 923-946, 993-1001).
StopReleasesChannels ==
    /\ (pc = "keys" /\ ~flag) \/ pc = "gone" => "channel" \notin keyed
    /\ pc = "install" => keyed = {}
=============================================================================
