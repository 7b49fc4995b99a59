--------------------------- MODULE JukeboxProofs ---------------------------
(***************************************************************************)
(* Proofs about Jukebox, for any list of songs and any number of register  *)
(* writes.  Every property rests on one invariant, Ownership, that says    *)
(* for each place of the main program whose handler is in the vector.      *)
(***************************************************************************)
EXTENDS Jukebox, TLAPS

\* With a song on, at a place from which it may still be heard, the vector is
\* the program's and the saved one the BIOS's; nowhere else is the program's
\* handler in the vector, but between its installation and the flag.
Ownership ==
    /\ vector = "own" => pc = "flag" \/ (pc \in AtKeys \cup {"restore"} /\ flag)
    /\ flag /\ pc \in AtKeys \cup {"restore"} => vector = "own"
    /\ vector = "own" \/ pc = "install" => oldVector = "bios"
    /\ oldVector # "own"
    /\ pc = "restore" => flag
    /\ pc = "flag" => vector = "own"
    /\ pc = "detect" => ~flag

\* No channel is keyed when no song is on, and nothing at all is from the
\* programming of the chip until the handler is installed.
Quietness ==
    /\ pc \in AtKeys /\ ~flag => "channel" \notin keyed
    /\ pc \in {"clear", "gone"} => "channel" \notin keyed
    /\ pc \in {"detect", "save", "install"} => keyed = {}

\* A register number waits for its data only while the chip is programmed.
Pairing == pair => pc \in Programming /\ latch = "main" /\ left > 0

IInv == TypeOK /\ Ownership /\ Quietness /\ Pairing

LEMMA NoSongInRange == NoSong \in 0..NoSong /\ 0..LastSong \subseteq 0..NoSong
BY JukeboxAssumption DEF NoSong

LEMMA InitIInv == Init => IInv
<1> SUFFICES ASSUME Init PROVE IInv
    OBVIOUS
<1> USE DEF Init
<1>1. TypeOK
    <2>1. 0 \in 0..Writes /\ 0 \in 0..LastSong
        BY JukeboxAssumption
    <2> QED BY <2>1, NoSongInRange DEF TypeOK, AtKeys, Programming
<1>2. Ownership
    BY DEF Ownership, AtKeys
<1>3. Quietness
    BY DEF Quietness, AtKeys
<1>4. Pairing
    BY DEF Pairing, Programming
<1> QED BY <1>1, <1>2, <1>3, <1>4 DEF IInv

LEMMA StepIInv == IInv /\ [Next]_vars => IInv'
<1> SUFFICES ASSUME IInv, [Next]_vars PROVE IInv'
    OBVIOUS
<1> USE DEF IInv, TypeOK, Ownership, Quietness, Pairing, AtKeys,
        Programming, Sources,
        Goto, chipSide, vectors, songs
<1>1. CASE DetectSB
    BY <1>1 DEF DetectSB
<1>2. CASE Keys
    <2>1. CASE CursorUp
        BY <2>1, JukeboxAssumption DEF CursorUp
    <2>2. CASE CursorDown
        BY <2>2, JukeboxAssumption DEF CursorDown
    <2>3. CASE ToggleBars
        BY <2>3 DEF ToggleBars
    <2>4. CASE Enter
        BY <2>4 DEF Enter
    <2>5. CASE Escape
        BY <2>5 DEF Escape
    <2>6. CASE OtherKey
        BY <2>6 DEF OtherKey
    <2> QED BY <1>2, <2>1, <2>2, <2>3, <2>4, <2>5, <2>6 DEF Keys
<1>3. CASE Loading
    <2>1. CASE OpenFails
        BY <2>1 DEF OpenFails
    <2>2. CASE OpenAndRead
        BY <2>2 DEF OpenAndRead
    <2>3. CASE ReadEnds
        BY <2>3, NoSongInRange DEF ReadEnds
    <2> QED BY <1>3, <2>1, <2>2, <2>3 DEF Loading
<1>4. CASE Switching
    <2>1. CASE PlayMusic
        BY <2>1, JukeboxAssumption DEF PlayMusic
    <2>2. CASE RestoreVector
        BY <2>2, JukeboxAssumption DEF RestoreVector
    <2>3. CASE OutAddress
        BY <2>3 DEF OutAddress
    <2>4. CASE OutData
        <3>1. left > 0 /\ left - 1 \in 0..Writes
            BY <2>4, JukeboxAssumption DEF OutData
        <3>2. TypeOK'
            BY <2>4, <3>1 DEF OutData
        <3>3. Ownership' /\ Quietness'
            BY <2>4 DEF OutData
        <3>4. Pairing'
            BY <2>4 DEF OutData
        <3> QED BY <3>2, <3>3, <3>4
    <2>5. CASE Silenced
        <3>1. ~pair
            BY <2>5 DEF Silenced
        <3>2. why = "start" \/ why = "stop" \/ why = "quit"
            OBVIOUS
        <3>3. 0 \in 0..Writes /\ Writes \in 0..Writes
            BY JukeboxAssumption
        <3>4. TypeOK'
            BY <2>5, <3>2, <3>3 DEF Silenced
        <3>5. Ownership' /\ Quietness'
            BY <2>5, <3>2 DEF Silenced
        <3>6. Pairing'
            BY <2>5, <3>1 DEF Silenced
        <3> QED BY <3>4, <3>5, <3>6
    <2>6. CASE ClearFlag
        BY <2>6 DEF ClearFlag
    <2>7. CASE Programmed
        <3>1. ~pair
            BY <2>7 DEF Programmed
        <3>2. TypeOK'
            BY <2>7 DEF Programmed
        <3>3. Ownership' /\ Quietness'
            BY <2>7 DEF Programmed
        <3>4. Pairing'
            BY <2>7, <3>1 DEF Programmed
        <3> QED BY <3>2, <3>3, <3>4
    <2>8. CASE SaveVector
        BY <2>8 DEF SaveVector
    <2>9. CASE InstallVector
        BY <2>9 DEF InstallVector
    <2>10. CASE SetFlag
        BY <2>10 DEF SetFlag
    <2> QED BY <1>4, <2>1, <2>2, <2>3, <2>4, <2>5, <2>6, <2>7, <2>8, <2>9, <2>10
            DEF Switching
<1>5. CASE Int1CISR
    BY <1>5 DEF Int1CISR
<1>6. CASE UNCHANGED vars
    BY <1>6 DEF vars
<1> QED BY <1>1, <1>2, <1>3, <1>4, <1>5, <1>6 DEF Next

LEMMA AlwaysIInv == Spec => []IInv
BY InitIInv, StepIInv, PTL DEF Spec

\* TypeOK: every reachable state is well typed; the highlight stays in the
\* list (Main, the cursor keys).
THEOREM TypeCorrect == Spec => []TypeOK
<1>1. IInv => TypeOK
    BY DEF IInv
<1> QED BY <1>1, AlwaysIInv, PTL

\* VectorHandedOver: a start saves the vector only after the handler of the
\* song before has left it, the program's end finds it gone, and the flag
\* tells a key press whose it is (PlayMusic, RestoreTimerISR, InitPlayer).
THEOREM VectorSafe == Spec => []VectorHandedOver
<1>1. IInv => VectorHandedOver
    BY DEF IInv, TypeOK, Ownership, AtKeys, OldVectorIsForeign,
           NoHandlerLeftBehind, FlagTellsVector, VectorHandedOver
<1> QED BY <1>1, AlwaysIInv, PTL

\* PairsWhole: the chip is programmed with the interrupt out of the vector, so
\* no register number is lost to it (InitSB in RestoreTimerISR and InitPlayer).
THEOREM PairsSafe == Spec => []PairsWhole
<1>1. IInv => PairsWhole
    BY DEF IInv, Pairing, PairsWhole
<1> QED BY <1>1, AlwaysIInv, PTL

\* StopReleasesChannels: the channel keys that InitSB clears stay cleared until
\* the next song is on, the interrupt being out of the vector before they are,
\* and the next song finds those of the drums cleared too (RestoreTimerISR,
\* InitPlayer).
THEOREM ChannelsReleased == Spec => []StopReleasesChannels
<1>1. IInv => StopReleasesChannels
    BY DEF IInv, Quietness, AtKeys, StopReleasesChannels
<1> QED BY <1>1, AlwaysIInv, PTL
=============================================================================
