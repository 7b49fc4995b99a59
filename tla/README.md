# A verification development of hscplay

hscplay is a collection of sources for playing HSC music through an OPL
(Adlib) synthesizer: an assembly program of 1994 that plays HSC songs from the
timer interrupt of a PC (`src/attick/jukebox.asm`), the DOSBox emulation of
the OPL2/OPL3 chip (`src/opl`), and pieces of a port to OS X: a thin wrapper
around the emulator, a dispatch timer and a Core Audio player (`src/t.c`,
`src/arch/osx`). Nothing yet connects the player with the emulator; what they
share is the register set of the chip.

This directory holds TLA+ models of its core, configurations that check them
with TLC, and proofs checked with TLAPS. Contents:

1. the system and its hazards, 2. the modules, 3. the runs, 4. the proofs,
5. findings, 6. what is left out, 7. the plan.

## 1. The system

| Component | Code | State | Operations | Interacts with |
|---|---|---|---|---|
| OPL operator | `opl/dbopl.cpp:289-623` | registers 20h-80h; cached rates, `rateZero`, `totalLevel`, `waveAdd`; `keyOn`, `state`, `volume`, `rateIndex` | six register and frequency handlers, `KeyOn`, `KeyOff`, one `ForwardVolume` a sample | called by its channel, by rhythm mode and by `BlockTemplate` |
| OPL chip and channels | `dbopl.cpp:629-1203`, `1292-1327` | 104h, 105h, BDh; per channel A0/B0/C0, handler, pan masks | register writes, generation of a block | two channels of a pair share writes; rhythm mode borrows channels 6-8 |
| LFO and noise | `dbopl.cpp:984-1020`, `1026-1030` | `lfoCounter`, vibrato and tremolo indices and depths, the noise register | `ForwardLFO`, `ForwardNoise`, the depth bits of BDh | cut every block into chunks; percussion takes the noise |
| Register map, tables, `Handler` | `dbopl.cpp:1085-1176`, `1205-1512` | offset and rate tables | `WriteReg`, `WriteAddr`, `Setup`, `InitTables`, `Generate` | decode writes for, and drive, the three above |
| HSC sequencer | `jukebox.asm:394-640`, `669-903` | tick counter, speed, order, row, fade flags and level, drum register and its copy | the interrupt `Int1CISR`: `NewSong`, `SomeHSC2`, `CheckHscCntr`; `InitPlayer` | shares the fade flags with the key '.' of the main program |
| HSC voice | `jukebox.asm:645-917`, `1307-1745` | per channel: instrument, frequency and volumes, the copies of what was sent | `PutAXIns`, `SomeHSC`, effects, `PlayTick`, `SomeHSC3`, `SomeHSC4` | the sequencer's rows and fade; writes the chip directly and through copies |
| Jukebox main program | `jukebox.asm:36-390`, `923-1301` | timer vector and its saved value, `Flag2`, the song buffer, the selection | keys, loading, start, stop, end | shares vector, flag, buffer and the chip's two ports with the interrupt |
| Screen, card detection, delays | `jukebox.asm:254-316`, `1751-1986` | none that lasts | output and probing | - |
| Wrapper | `opl/myopl.hpp` | one sample buffer | `opl_writeReg`, `opl_getSamples`, `AddSamples_m32`, `AddSamples_s32` | the emulator |
| Dispatch timer and test program | `arch/osx/timer.c`, `t.c`, `time.c` | one static timer slot; `ts`, `cnt` | create, remove, the periodic task | a queue's thread against `main` |
| Core Audio player | `arch/osx/core_audio.c`, `audio.c` | file in memory, its length, read position; how far the unit is set up | render callback, open and close | the audio thread against `main` |
| POSIX timer sample | `attick/timer.c` | - | - | does not compile |

What is hard in this code is rarely one function. It is

- *caches patched from many places*: the rates and levels of an operator, the
  handlers of the channels, the copies of frequency and volume the player
  compares with before it writes, the copy of register BDh;
- *lending*: one operator with two holders of its key; channel 6 lent to
  rhythm mode; two channels that are one voice as long as a mode lasts;
- *an interrupt between two instructions*: of the key '.', of a start, of a
  stop, between a register number and its data;
- *threads without a lock*: a task and its program share a count and a time
  stamp; a render callback reads memory that the main program frees;
- *tables built apart that must agree*: offsets of channels and operators,
  the pairs, the rates;
- *things that must go on*: a released note must end, a block must be played
  to its end, a song must not get stuck in a row, a fade-out must reach
  silence.

For each component the properties that make it correct follow from this:

- operator: the caches equal a recomputation; the envelope keeps its contract
  with two key sources; skipping a silent channel moves no volume, and holds up
  no phase but a decay that has no rate (section 5); every released voice ends.
- chip: every channel has a handler that fits it and the panning of its C0, and
  its handler follows C0 but for the stale ones of section 5; a block plays
  each operator once; key bits, drum bits and operators agree.
- oscillator and whole chip: a sample sounds the same however requests are
  cut; no sample is lost or put past a buffer; the sweep of `Setup` really
  resets; a register reaches the channel that it belongs to.
- sequencer: it stays inside the song and never stalls; fades are exclusive
  and end; the drum register holds what the song asks for, or the zero of a
  start for as long as the copy of the song before hides it.
- voice: what sounds is what the player believes sounds (note, pitch, volume).
- main program: the vector and the flag are handed over whole; no pair of
  writes to the chip is torn; a stop releases the nine channels, and a start
  the drums of the song before too.
- timer program: the books of the ticks balance whenever the task runs.
- audio player: the callback hands out the file, from memory that is still
  there, and passes its end in the last call only, by less than that call asks
  for.

`PROJECT.json` lists every hazard at its line and the properties that would
catch it.

## 2. The modules

Each model keeps the control of the code, every write, early return and
order, and abstracts its data: a register is a record of its fields, an
instrument is its volumes, its tune and its connection bit, a song is whatever
cells it may contain, chosen at each step.

**Envelope** is the abstract specification of one operator's envelope: who
holds the key, the phase, the loudness. Only the first source attacks, only
the last releases; loudness grows only in the attack and falls only after it;
OFF is silence.

**Operator** is `struct Operator`. `Write20` to `Write80` and `SetChanData`
are the handlers with exactly the change tests they make; `KeyOn` and `KeyOff`
take a source (the mask 1 or 2); `Sample` is one call of the phase's
`TemplateVolume`. The two rate tables are constants, assumed to have the shape
the code computes (indices of a rate of 1 or more move; an attack step is at
most 8; see RateTables). Left out: waveforms, phase and tremolo. It implements Envelope with
`Source`, `keyOn`, `state` and `volume` mapped to themselves and
`MaxVolume <- ENV_MAX`.

**RateTables** computes `linearRates` and `attackRates` number for number as
`Setup` does at 44100 Hz, the attack's search pass by pass with the wrapping
of its 32-bit products. Its assumption `TablesFit` says that they have the
shape Operator assumes, that a faster rate is never a slower one, and that
every attack takes the time of the chip's to within an eighth, although the
products overflow from index 31 on and the search then runs on arbitrary
guesses. It declares recursive operators, so nothing is proved about it; TLC
evaluates it in the run `operator`.

**Chip** is `struct Chip` with its channels, of whose operators it keeps the
key sources. `WriteC0` may also rewrite what is there, as a write that changes the feedback
bits alone does; `Write105` runs it on every channel as `ResetC0` does;
`WriteBDRhythm` and `WriteBDMelodic` are the two halves of `WriteBD`;
`GenerateBlock`, `PlayChannel` and `FinishBlock` are the walk over the
channels, each handler telling where the next one is. The layout of pairs and
drums is a constant, under the assumption that states what `Setup`'s table
guarantees. Feedback and note select are data.

**SampleClock** is the abstract oscillator: a clock that every sample moves
on, vibrato and tremolo that step when it wraps, and pieces of samples that
are played with what their samples ask for.

**Lfo** is the code's: `BeginBlock`, `ForwardLFO` (to the end of the block or
to the wrap), `EndChunk`, the depths of BDh, and the noise, whose register is
the set of its bits that are one, shifted once a step of `ShiftNoise`. It
implements SampleClock with the counter and the indices mapped to themselves
and what was prepared for the operators as what was played. Its constants are
the code's (`LFO_MAX`, `lfoAdd`, the taps `0x800302` and so on).

**Handler** is the whole chip: it EXTENDS Chip and Lfo and adds the decoding
of register numbers. `ChanAt` and `OpAt` are the two offset tables, `PairOfBit`
is `fourMask`; `WriteReg` has a disjunct for each group of its switch and calls
the actions of Chip and Lfo. `EnterOpl3`, `Sweep`, `EnterOpl2`, `SetupDone` are
the writes of `Setup`, one register at a time. `Generate` takes a request,
`NextChunk`, `PlayVoice`, `PlayDrums`, `DrumNoise`, `DrumsPlayed`, `ChunkPlayed`
and `AddSamples` play it: a chunk of the oscillator is one walk over the
channels. Of the operators it keeps which registers have never changed
(`unset`), since only a change makes Operator compute its caches.

**HscSequencer** is the song clock: `Tick` is `Int1CISR`'s count-down, the
cell actions are the branches of `SomeHSC2` that touch the clock, the fade or
the drums (one per channel of the row, each with the BDh write at its end),
`Advance` is the end of `NewSong`, `CheckHscCntr` the fade. The interrupt runs
with interrupts off, so the main program moves only while `isr = "idle"`; the
key '.' is two actions because the interrupt may come between them. The bytes
wrap (`% 256`).

**HscVoice** is one channel of the player in detail: the frequency and the
volumes the player wants, the copies of what it sent last, and the chip's
registers. `PutAXIns`, `Note` and `Stop` write the chip behind the copies;
`PlayTick` writes it when the copies differ. `ResetCopies` is the tail of
`InitPlayer`, which runs after the vector is installed, and resets only the
first byte of each table since its loops never step `di`; `First` says whether
the channel is the one that this reaches. `Rest` is the least number of ticks
between rows, `Fades` whether the song fades at all. `struck` is a history
variable for one property. Notes above the table's last key are zeros in
`word_154EC`; they are excluded by the assumption on `Notes`.

**Jukebox** is the main program against the interrupt: `pc` is where it is,
`vector`/`oldVector`/`flag` are the handover of the timer, `pair`/`latch`
the two-port protocol of the chip, `buffer`/`selected` the songs. `Int1CISR`
may run whenever the vector is the program's own, also by the right shift key,
which calls it from the key loop. What it plays is in the two modules above.
`InitSB` and `InitPlayer` write some number of registers (`Writes`), each in
two steps. `keyed` is what those writes and the interrupt leave keyed on:
channels, which `InitSB` releases, and drums, which only `InitPlayer` does.

**DispatchTimer** is `t.c` over `timer.c`: `main` makes the timer, sleeps for
a second, removes it and prints the count; on another thread `Fire` starts the
task `tt`, whose four statements are four actions. Dispatch is external: it
runs the handler when it is due and not running, folds missed deadlines into
one run, and a cancelled source starts no run but lets the present one end.
`now` is the clock of `time.c`, which passes at will, so either thread may be
as late as it likes. `shown`, `began`, `lines` and `total` are history.

**CoreAudio** is `core_audio.c` over `audio.c`: `main` is a sequence of calls
none of which it looks at, `open_audio` one step for each of its early returns
(`OpenStep`), the callback a loop over the buffers of a call on the unit's
thread. The unit is external: each call may fail, a stop that succeeds waits
for the callback, and what was handed out is read until the next call.
`held`, the pieces of the buffer that the unit was handed by the last call,
`burst` and `broken` are history.

The `MC...` modules give the constants their values for TLC. Operators with a
comment that starts "Mutant:" are deliberate errors next to the definition
they distort; no specification uses them. They document what each property is
able to notice.

## 3. The runs

| Run | Question | Properties |
|---|---|---|
| `operator` | Do the caches of an operator stay coherent under every order of writes, does the envelope keep its contract, what does skipping a silent operator leave undone, does every note end? | `TypeOK`, `RatesCoherent`, `SoundCoherent`, `SkipKeepsEnvelope`, `EnvelopeContract`, `ReleaseEnds`, `AttackEnds` |
| `chip` | Does every channel have a fitting handler after any order of writes, and where does it follow C0; do channel keys, drum keys and operators agree; what can make a note stick? | `TypeOK`, `HandlersFit`, `WalkStaysInBank`, `SoundFollowsC0`, `DrumKeysFollowBD`, `PairStaysInStep`, `NoStuckNote` |
| `chip_switch` | Does a mode switch reach all channels, as the comment says? (it does not) | `ModeSwitchReachesAllChannels` |
| `handler` | Does `Setup` reset the chip, do the tables agree, are blocks played whole and to their end, does the oscillator keep its contract, does the noise live? | `HandlerTypeOK`, `SetupResets`, `NoiseNeverDies`, `RegistersMeet`, `SamplesWhole`, `LfoContract`, `BlockEnds` |
| `sequencer` | Is the song clock safe, and does it go on? | `TypeOK`, `ClockInSong`, `FadesExclusive`, `DrumsReachChip`, `PlaysOn`, `FadeOutEnds` |
| `sequencer_key` | Does the key '.' always fade out? (it does not) | `FadeKeyFadesOut` |
| `voice_pitch` | Is what sounds the note and the pitch the player holds, and is every note heard? | `TypeOK`, `HeardIsHeld`, `HeardInTune`, `NoteSounds` |
| `voice_volume` | Do volumes reach the chip through two copies of which one is noted a tick? | `VolumeFollows` |
| `voice_fade` | Is a faded-out song silent? (it is not) | `FadeOutSilences` |
| `jukebox` | Are vector and flag handed over whole, are pairs of writes kept together, what does a stop release? | `TypeOK`, `VectorHandedOver`, `PairsWhole`, `StopReleasesChannels` |
| `timer` | Do the ticks' books balance with a thread of their own and no lock? | `TickBooks`, `CountPrinted` |
| `audio` | What does the callback hand out, whatever fails? | `OverrunIsLastCall`, `HoldsLiveFile` |

**Bounds.** Three runs explore two instances in one state space, by a
constraint `OneOfTwo` that lets a behaviour go on while it is inside either;
both contain the initial state, and the steps that leave them are checked too.
`operator` takes three or four values of each register, chosen so that each
field changes alone and together on an envelope at rest (`OnCaches`), or so
that rates are zero, slow and instant while the envelope runs
(`OnEnvelope`), and rate tables of three values with the code's shape and
steps large enough for an envelope to end within a few samples; volumes keep
their real range. `chip` has six channels, enough for a pair, three drums and
a channel of the second bank; interactions are between neighbours of a pair or
among the drums, so more of each adds nothing; it moves the handlers of all
channels (`OnHandlers`) or the keys of the pair and the bass drum (`OnKeys`).
`handler` has the real 18 channels and 512 registers, since the tables are
what it is about, the whole sweep of `Setup`, and after it nine writes that
change the modes; the oscillator is small (a wrap after one or two samples, a
tremolo of four steps, a noise of two bits) and a block three samples, so that
a block is one chunk, several, and cut inside or at its end; it runs the
oscillator through all its steps (`OnOscillator`) or plays pairs and drums
through the first two (`OnHandlers`). The sequencer has two channels, so that one cell of a row
can undo another's effect, three rows and three orders, so that a first, a
middle and a last exist, speeds up to 3 and three fade levels. The voice has a
low byte of four values (two in `voice_volume`), so that slides and tunes wrap
after few steps, one or two notes and two instruments; the fade has two or
four levels. The jukebox has three songs and two writes a go, so that there is
a first and a later one. `timer` has a second of six units and a period of
four, so that ticks fall before, at and after the wrap of the clock's
fraction; `TimeBound` lets nearly two seconds pass after the last start, the
sleep and as much again for threads that are late. `audio` has files that are
empty, shorter than a buffer and of several calls with and without a rest, and
calls of one and two buffers. `CHECK_DEADLOCK FALSE` is set for `jukebox` and
`audio` only: those programs end.

**Fairness.** `operator` assumes that a channel whose carrier is not
silent is generated again and again, which is what the mixer and
`BlockTemplate` do; nobody is obliged to write a register. `handler` assumes weak fairness of `Playing`: `Generate` is
called and runs until it returns, no write comes in between. `sequencer` assumes
weak fairness of the interrupt's steps (the timer keeps ticking and a handler
returns) and strong fairness of the second instruction of the key '.': the
interrupt may come before it any number of times, but between two interrupts
the processor runs the main program.

**Properties with a condition.** `PlaysOn` is about a song that plays on and is
not started again for ever: rows are left again and again, and the first row
of an order is reached again and again. `SkipKeepsEnvelope`, `SoundFollowsC0`,
`StopReleasesChannels`, `DrumsReachChip` and `HoldsLiveFile` each name in the
formula the case in which the code falls short (section 5), so that they say
that there is no other. `VolumeFollows` is stated for songs
of five or more ticks a row that never fade. `PlayTick` sends both volumes when either differs from its
copy but brings only one copy up to date, none when the fade moved; carrier
and modulator take turns, and with rows in quick succession a change of one
can meet a copy that happens to equal it and is then lost. With `Rest = 4` the
copies settle between rows. `HeardInTune` is stated for all channels but the first: there a start may
overwrite the low byte of the copy after a tick has used it, and a slide to
FFh right after is taken for sent.

## 4. The proofs

TLAPS proves the following for all values of the constants that satisfy the
modules' assumptions; TLC has checked each statement, and each inductive
invariant, on the instances above first.

- **OperatorProofs**: `TypeCorrect`, and with it that every step of an
  operator is a step of Envelope or a stutter (`ImplementsEnvelope`), hence
  `EnvelopeSafe`. `RatesAlwaysCoherent` says that the rates and flags that the
  handlers patch one at a time always equal a recomputation; it is inductive by
  itself once each handler's patch is shown to commute with it.
  `SkippedEnvelopeStands` needs three invariants together, `TypeOK`,
  `OffIsSilent` and `RatesCoherent`: an operator that is silent and whose phase
  is flagged has a rate of zero and hence no sample would move it, but for the
  two ends of a phase that a volume may have reached already. `SoundAlwaysCoherent` is the same
  for levels and the wave step. `EnvelopeGoesOn` is the variant behind
  `ReleaseEnds` and `AttackEnds`: an operator whose phase has a rate is never
  Silent (by `RatesCoherent`), and each of its samples moves the volume the
  phase's way, or adds to `rateIndex`, or ends the phase; the attack moves since
  its arithmetic shift rounds towards louder (`AttackedMoves`).
- **ChipProofs**: `TypeCorrect`; `HandlersSafe`, inductive since it says of
  the percussion and the four-operator handlers at once where they may be, and
  a C0 write in either mode must know of both; `SoundSafe`, for the panning of
  all channels, the handlers of those that are never lent and of channel 6
  (`SynthMatchesC0`), and for the others the action property `SoundFollowsC0`:
  each step leaves a channel that is its own with what its C0 asks for or
  untouched (`SoundStep`); `WalkSafe`, which adds that outside a block the walk
  rests at channel 0; `DrumKeysSafe`; and `NoNoteSticks`, an action property
  that follows from what each write does to the keys and to the channel that
  governs them, with `DrumKeysFollowBD` to know that drums never hold others;
  `PairsSafe`, in the same way, for two channels that sound one note.
- **HandlerProofs**: `OscillatorTyped`, for any sample rate that leaves
  `lfoAdd` in its range; `ImplementsClock`, that a chunk of `ForwardLFO` is one
  step of SampleClock: the number of samples until the wrap, rounded up, is
  the first whose clock has wrapped, by the division lemmas at its head;
  `NoiseAlive`, since feeding back sets the highest tap exactly if the bit that
  is shifted out was set. Then the composition: `WriteRegSteps` and
  `HandlerSteps` show that each step of the whole chip is a step, or a stutter,
  of Chip and of Lfo, hence `ChipImplementsClock`, and `ChipStaysSound`, which
  carries over what ChipProofs shows of each step from the chip as `Chip::Chip`
  makes it; `ChipKeepsNotes` does so for its two action properties.
  `SamplesKept` adds that out, chunk and rest make up the block, and
  `ChipTyped`, from `BeatInv`, that the drums play no sample beyond their
  chunk.
  `RegistersAlwaysMeet` needs no invariant: for the offsets as Setup's loops
  compute them, each of the 18 channels and 36 operators is found, one leaf
  for each kind of offset.
  `SweepResets` is about the longest behaviour of the chip, some 1500
  writes. Its
  invariant describes what the chip holds at one place of the sweep by a record
  `h`: which channels have FFh in their A0, B0 and C0 registers and whether
  rhythm mode is on (`Holds(h)`). At most one register differs from zero at a
  time (`Content`), a write of FFh or 0 leads from one such chip to another
  (`WriteHolds`), and an operator's caches are computed for every register
  behind the sweep (`Computed`), since FFh differs from what is there.
  `BlocksEnd` is the variant behind `BlockEnds`: samples owed, chunk begun,
  place of the walk, samples the drums have played, steps of noise go down
  lexicographically with every step of a block (`BlockShrinks`), and in a block
  one of the guards is always true (`BlockGoesOn`, from `ChunkInv`: the
  channels are walked exactly while a chunk is played, and no chunk is empty by
  the division lemmas).
- **DispatchTimerProofs**: three invariants: where either thread may be and
  what it knows then (`OrderInv`, `ShownInv`), and that a deadline lies beyond
  as many periods as there were runs (`PeriodInv`). From them `TypeCorrect`,
  `BooksKept` and `CountSound`.
- **CoreAudioProofs**: the file's memory, the unit's state and the callback's
  place are each tied to the place of `main` (`BufferInv`, `UnitInv`,
  `CallInv`); the pieces handed out lie between where the call began and where
  it has got, and one begins there (`PieceInv`). From it `TypeCorrect`,
  `OverrunBounded` and `MemorySafe`.
- **HscSequencerProofs**: one inductive invariant: the interrupt belongs to a
  playing song (`InterruptInv`), the position is good in the middle of the
  interrupt also (`PositionInv`), and the three possible relations of BDh, its
  copy and what the song wants (`DrumsInv`). From it `TypeCorrect`,
  `ClockSafe`, `FadesSafe`, `DrumsSafe`; `DrumsPartAtStart` by cases over the
  steps. `SongGoesOn` is the variant behind `PlaysOn` and `FadeOutEnds`: no
  effect leads to an earlier row, only the end of the last row leads to the
  first one, and within a row, the first included, places, cells and ticks go
  one way.
- **HscVoiceProofs**: the invariant relates chip, copy and wanted frequency:
  if the chip sounds then it sounds the copy, tuned (`SentInv`); between ticks
  the copy is what is wanted or the chip is quiet (`RestInv`); a note read in
  this tick differs from the copy until it is sent (`StruckInv`). From it
  `TypeCorrect`, `NoNoteSticks`, `NoNoteLost`, and for channels other than the
  first `InTune`. `VolumesFollow` has an invariant of its own, `VolumeInv`:
  PlayTick brings one of the two copies up to date a tick, and none in the tick
  that sends everything after a start; `PaceInv` says how many ticks since the
  row may have passed while a copy is still due, and `RowInv` that none that
  could hide a change is when the next row is read. It is a theorem for
  `Rest >= 4` and `~Fades`, the songs the property is about; with fewer ticks a
  change may be overtaken, with fades it is false (section 5).
- **JukeboxProofs**: the invariant `Ownership` says for each place of the main
  program whose handler is in the vector and in `OldInt1C`, `Quietness` where
  no channel, or nothing at all, may be keyed, `Pairing` where a register number may be pending.
  From it `TypeCorrect`, `VectorSafe`, `PairsSafe` and `ChannelsReleased`.

The type invariants of DispatchTimer and CoreAudio, `KeyedState` and
`OffIsSilent` of Operator and `DrumsStayInStep` of HscSequencer are proved and
left out of the runs.

Only model-checked: the liveness properties (`ReleaseEnds`, `AttackEnds`,
`BlockEnds`, `PlaysOn`, `FadeOutEnds`), which need fairness and so are out of
this prover's reach. What each rests on is proved: that every step goes forward
in a bounded order (`EnvelopeGoesOn`, `BlocksEnd`, `SongGoesOn`). That such an
order comes to an end is induction over data, and that a step is taken is
fairness; both are left to TLC, as are the tables of RateTables (`TablesFit`),
whose search is recursive. Every other property of the passing runs is a
theorem.

## 5. Findings

- **`chip_switch`** (`dbopl.cpp:1117`, by the tests at 762 and 775): while rhythm mode is on, a switch
  between opl2 and opl3 mode leaves channel 6 on the percussion handler of the
  old mode, mono where the mixer expects stereo or the other way round.
- **`sequencer_key`** (`jukebox.asm:960`): an interrupt between the two
  instructions of the key '.' that reads the fade-in effect leaves both flags
  clear: the key is lost and so is the fade-in.
- **`voice_fade`** (`jukebox.asm:1578`): an instrument put after a completed
  fade-out is written unfaded, and nothing scales it again.

Also seen, without a run of their own:

- A stop does not silence drums: `InitSB` (`jukebox.asm:1063-1301`) writes B0h
  to B8h and the sustain and release registers but never BDh, so in a song with
  rhythm mode a drum that effects 05 and 5x hold, of a sustained instrument,
  sounds on after the key whose help text is "Silence" (2011), and after the
  program's end. Only the next start writes zero to BDh (993-1001).
  `StopReleasesChannels` therefore asks this of the channels only, and of the
  drums that they are released when the next song begins.
- `BlockTemplate` skips a channel whose carriers are silent, and with them a
  decay without a rate that has reached its sustain level (`dbopl.cpp:402-414`,
  847): its end is put off until a write makes the note loud again. The
  modulators of a skipped channel stand still too (856-862).
- Leaving rhythm mode resets channel 6 alone (`dbopl.cpp:1071-1076`): 7 and 8
  keep the mono or stereo handler of the mode in which rhythm mode was entered.
  A pair that is disabled gives its second channel back with the handler of
  before, and 104h changes no handler at all (735-760, 1106-1111). What
  `SoundFollowsC0` shows is that this lasts until C0 or the mode changes and
  happens in no other way.
- A start clears BDh and not its copy (`jukebox.asm:890`, 993): a song that
  wants what the song before had is not given it until it asks for something
  else.

- `cmp al, 0Fh` at `jukebox.asm:883` is followed by no jump, so every effect
  unknown to the player sets the speed.
- `SomeHSC4` mirrors the key scale bits (`3Fh - byte` turns 1 into 3 and 3
  into 1) and PlayTick thereby changes the timbre of an instrument at the first
  volume it sends.
- A song whose file cannot be opened starts whatever the buffer holds
  (`jukebox.asm:364`).
- `noiseCounter` is masked with `WAVE_MASK` (`dbopl.cpp:987`), 22 bits, and not
  reduced by the steps it is worth, of 12 bits: the noise is shifted up to 1023
  times a sample instead of about once. It still never dies.
- The search for the attack rates overflows (`dbopl.cpp:1278`); the best guess
  it keeps is good to an eighth nevertheless (RateTables).
- `NSEC_IN_MSEC` (`timer.h:15`) is octal, so the 55 ms timer of `t.c` fires
  every 14.4 ms; the differences it prints are negative once a second
  (`t.c:20`), which `TickBooks` allows for.
- One static slot holds the timer (`timer.c:27`): a second timer would make
  the first handle cancel the second. No program makes two.
- `opl_getSamples` (`myopl.hpp:93`) takes the buffer for filled after 512 of
  2048 samples and deletes a member of its handler. No program calls it.
- `core_audio.c` hands out up to a call's length of memory behind the file in
  its last call (10-13), a later buffer of it perhaps wholly behind, and plays freed memory if the unit cannot be stopped;
  `audio.c:66` keeps a pointer to a loop variable after its loop.

## 6. What is left out, and why

The sound itself (wave and volume tables, phase, feedback, mixing, clipping) is
arithmetic without control; the screen and the card detection are input and
output of hardware; the file system appears as an open that may fail.
`attick/timer.c` does not compile. Registers 01h, 08h, E0h and the feedback
bits of C0h change none of the state the properties speak of. `opl_getSamples`,
`set_volume` and `pause_audio` are called by no program. The emulator that
`t.c` creates takes no part in what it does. A song whose jumps leave its order list is malformed: the assumption
on `Jumps` excludes it, as the assumption on `Notes` excludes keys beyond the
table.

## 7. The plan

Done: *Operator* with *Envelope* and *RateTables*, *Chip*, *HscSequencer*,
*HscVoice*, *Jukebox*, *Lfo* with *SampleClock*, *Handler*, *DispatchTimer*,
*CoreAudio*, and their proofs. What could follow, the most worthwhile first:

1. *Player*: HscSequencer composed with several HscVoices, an abstract player
   (what a position of the song sounds) that the composition implements; a song
   of rows instead of free cells.
2. Handler composed with Operator for one channel, so that the caches are
   followed through the decoding of registers.
