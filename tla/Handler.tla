------------------------------ MODULE Handler ------------------------------
(***************************************************************************)
(* A whole chip as the program sees it (opl/dbopl.cpp:1085-1203, 1313-1327,*)
(* 1425-1512, and its wrapper opl/myopl.hpp): DBOPL::Handler is set up by  *)
(* a sweep over all registers, takes writes by register number, which      *)
(* WriteReg decodes by two tables of offsets, and plays blocks of samples, *)
(* cut into chunks by the oscillator (Lfo), each chunk played by a walk    *)
(* over the channels (Chip).                                               *)
(*                                                                         *)
(* Of the operators' registers it is kept which are still as the chip was   *)
(* made: only a change makes Operator compute what it caches.              *)
(***************************************************************************)
EXTENDS Chip, Lfo

CONSTANTS
  MaxSamples,    \* of one block: 512
  BufLen,        \* bytes of the wrapper's buffer: 8192
  OutChannels,   \* channels of the output: 1 or 2
  Requests,      \* samples asked for
  PortWrites     \* [port, index, val] written by the program

ASSUME HandlerAssumption ==
  /\ NChan = 18 /\ Opl2Chan = 9 /\ DrumChan = 6
  /\ FourOpFirst = {0, 2, 4, 9, 11, 13}
  /\ Played = Chan /\ FreqLo = 0..255 /\ FreqHi = 0..31
  /\ C0Value = [am : BOOLEAN, pan : SUBSET Speakers]
  /\ BDValue = [on : BOOLEAN, keys : SUBSET Drum]
  /\ MaxSamples \in Nat \ {0} /\ OutChannels \in {1, 2}
  /\ BufLen \in Nat /\ 2 * OutChannels * MaxSamples <= BufLen
  /\ Requests \subseteq Nat
  /\ PortWrites \subseteq [port : {0, 1, 2, 3}, index : 0..255, val : 0..255]

Reg  == 0..511
Byte == 0..255
OpReg == {"20", "40", "60", "80", "E0"}

VARIABLES
  phase,      \* of Setup's sweep, or "ready"
  reg, fill,  \* its next register, and is 0xff to be written to it?
  unset,      \* <<channel, operator, register>> whose caches were never computed
  out,        \* samples of the block that are in the buffer
  block,      \* samples of the block
  beats       \* samples the percussion channel still has to play in the chunk

sweepVars   == <<phase, reg, fill, unset>>
outVars     == <<out, block, beats>>
handlerVars == <<chipVars, lfoVars, sweepVars, outVars>>
-----------------------------------------------------------------------------
(* Decoding.                                                                *)

Bit(v, n) == (v \div 2^n) % 2 = 1

\* Mutant: the channels of a bank in the order of their registers.
ChanAtPlain(i) ==
  IF i % 16 >= 9 THEN {} ELSE {(i % 16) + (IF i >= 16 THEN 9 ELSE 0)}

\* ChanOffsetTable: the two channels of a pair, three registers apart, become
\* neighbours.  A register of no channel gives the empty set.
ChanAt(i) ==
  LET index == i % 16
      place == IF index < 6 THEN (index % 3) * 2 + (index \div 3) ELSE index
  IN  IF index >= 9 THEN {} ELSE {place + (IF i >= 16 THEN 9 ELSE 0)}

\* OpOffsetTable: six operators to eight registers, three channels to a row.
OpAt(i) ==
  IF i % 8 >= 6 \/ (i \div 8) % 4 = 3 THEN {}
  ELSE LET chNum == (i \div 8) * 3 + ((i % 8) % 3)
       IN  {<<c, (i % 8) \div 3>> : c \in ChanAt(IF chNum >= 12 THEN chNum + 4 ELSE chNum)}

\* REGCHAN and REGOP.
RegChan(r) == ChanAt((r \div 256) * 16 + (r % 16))
RegOp(r)   == OpAt((r \div 256) * 32 + (r % 32))

\* Mutant: the three drums between the two banks are forgotten.
PairOfBitPlain(n) == 2 * n

\* The first channel of the pair that bit n of 0x104 joins: fourMask.
PairOfBit(n) == IF n < 3 THEN 2 * n ELSE 2 * n + 3
Pairs(val)   == {PairOfBit(n) : n \in {m \in 0..5 : Bit(val, m)}}

C0Of(val) == [am  |-> Bit(val, 0),
              pan |-> (IF Bit(val, 4) THEN {"left"} ELSE {})
                        \cup (IF Bit(val, 5) THEN {"right"} ELSE {})]

DrumOfBit == <<"hihat", "cymbal", "tom", "snare", "bass">>
BDOf(val) == [on   |-> Bit(val, 5),
              keys |-> {DrumOfBit[n] : n \in {m \in 1..5 : Bit(val, m - 1)}}]

\* Chip::WriteAddr: in opl2 mode only the mode register itself is reached in
\* the second bank.
WriteAddr(port, index) ==
  CASE port = 0 -> index
    [] port = 2 -> IF opl3Active \/ index = 5 THEN 256 + index ELSE index
    [] OTHER    -> 0
-----------------------------------------------------------------------------
(* WriteReg.                                                                *)

\* Registers 0x104 and 0x105, of the second bank only.
WriteMode(r, val) ==
  \/ /\ r = 260
     /\ IF reg104 = Pairs(val) THEN UNCHANGED chipVars ELSE Write104(Pairs(val))
  \/ /\ r = 261
     /\ IF opl3Active = Bit(val, 0) THEN UNCHANGED chipVars
        ELSE Write105(Bit(val, 0))
  \/ r \notin {260, 261} /\ UNCHANGED chipVars

\* Register 0xBD, of the first bank only.  The early return for a byte that is
\* there already leaves the depths as writing it again would.
WriteBD(val) ==
  /\ WriteDepth(Bit(val, 6), Bit(val, 7))
  /\ IF regBD = BDOf(val) THEN UNCHANGED chipVars
     ELSE WriteBDRhythm(BDOf(val)) \/ WriteBDMelodic(BDOf(val))

\* A handler that finds nothing changed, or a muted channel, returns at once.
WriteChan(r, val) ==
  \E c \in RegChan(r) :
    CASE (r \div 16) % 16 = 10 ->
           IF Muted(c) \/ chanData[c].lo = val THEN UNCHANGED chipVars
           ELSE WriteA0(c, val)
      [] (r \div 16) % 16 = 11 ->
           IF Muted(c) THEN UNCHANGED chipVars
           ELSE WriteB0(c, val % 32, Bit(val, 5))
      [] (r \div 16) % 16 = 12 ->
           \/ regC0[c] = C0Of(val) /\ UNCHANGED chipVars
           \/ WriteC0(c, C0Of(val))

OpRegOf(r) ==
  CASE (r \div 32) % 8 = 1 -> "20" [] (r \div 32) % 8 = 2 -> "40"
    [] (r \div 32) % 8 = 3 -> "60" [] (r \div 32) % 8 = 4 -> "80"
    [] (r \div 32) % 8 = 7 -> "E0"

\* Every register is zero when the chip is made.
WriteOp(r, val) ==
  unset' = IF val = 0 THEN unset
           ELSE unset \ {<<op[1], op[2], OpRegOf(r)>> : op \in RegOp(r)}

OfChip(r)    == (r \div 16) % 16 = 0
OfRhythm(r)  == r = 189
OfChannel(r) == (r \div 16) % 16 \in {10, 11, 12} /\ ~OfRhythm(r) /\ RegChan(r) # {}
OfOp(r)      == (r \div 32) % 8 \in {1, 2, 3, 4, 7}

WriteReg(r, val) ==
  \/ OfChip(r) /\ WriteMode(r, val) /\ UNCHANGED <<lfoVars, unset>>
  \/ OfRhythm(r) /\ WriteBD(val) /\ UNCHANGED unset
  \/ OfChannel(r) /\ WriteChan(r, val) /\ UNCHANGED <<lfoVars, unset>>
  \/ OfOp(r) /\ WriteOp(r, val) /\ UNCHANGED <<chipVars, lfoVars>>
  \/ /\ ~(OfChip(r) \/ OfRhythm(r) \/ OfChannel(r) \/ OfOp(r))
     /\ UNCHANGED <<chipVars, lfoVars, unset>>
-----------------------------------------------------------------------------
(* Chip::Chip and Setup: 0xff and then 0 to every register, in opl3 mode to  *)
(* those of both banks and in opl2 mode to those of the first.               *)

HandlerInit ==
  /\ opl3Active = FALSE /\ reg104 = {} /\ regBD = [on |-> FALSE, keys |-> {}]
  /\ regC0 = [c \in Chan |-> [am |-> FALSE, pan |-> {}]]
  /\ synthHandler = [c \in Chan |-> "sm2FM"]
  /\ mask = [c \in Chan |-> Speakers]
  /\ regB0 = [c \in Chan |-> FALSE]
  /\ chanData = [c \in Chan |-> [lo |-> 0, hi |-> 0]]
  /\ keyOn = [c \in Chan |-> [o \in 0..1 |-> {}]]
  /\ generating = FALSE /\ ch = 0
  /\ LfoInit
  /\ phase = "made" /\ reg = 0 /\ fill = TRUE /\ unset = Chan \X (0..1) \X OpReg
  /\ out = 0 /\ block = 0 /\ beats = 0

EnterOpl3 ==
  /\ phase = "made"
  /\ phase' = "opl3"
  /\ WriteReg(261, 1)
  /\ UNCHANGED <<reg, fill, outVars>>

SweepEnd == IF phase = "opl3" THEN 512 ELSE 255

\* Mutant: zeros alone, to registers that hold zero.
SweepZeros ==
  /\ phase \in {"opl3", "opl2"} /\ reg < SweepEnd
  /\ WriteReg(reg, 0)
  /\ reg' = IF reg = 260 THEN 262 ELSE reg + 1
  /\ UNCHANGED <<phase, fill, outVars>>

\* The mode register is left out.
Sweep ==
  /\ phase \in {"opl3", "opl2"} /\ reg < SweepEnd
  /\ WriteReg(reg, IF fill THEN 255 ELSE 0)
  /\ fill' = ~fill
  /\ reg' = IF fill THEN reg ELSE IF reg = 260 THEN 262 ELSE reg + 1
  /\ UNCHANGED <<phase, outVars>>

EnterOpl2 ==
  /\ phase = "opl3" /\ reg = SweepEnd
  /\ phase' = "opl2" /\ reg' = 0
  /\ WriteReg(261, 0)
  /\ UNCHANGED <<fill, outVars>>

SetupDone ==
  /\ phase = "opl2" /\ reg = SweepEnd
  /\ phase' = "ready"
  /\ UNCHANGED <<chipVars, lfoVars, reg, fill, unset, outVars>>
-----------------------------------------------------------------------------
(* The program: writes, and blocks of samples.                              *)

WritePort(w) ==
  /\ phase = "ready"
  /\ WriteReg(WriteAddr(w.port, w.index), w.val)
  /\ UNCHANGED <<phase, reg, fill, outVars>>

\* Mutant: the request is taken as it is.
BlockOfAny(n) == n
BlockOf(n) == Min(n, MaxSamples)

\* Handler::Generate, whose buffer has room for MaxSamples pairs.
Generate(n) ==
  /\ phase = "ready"
  /\ phase' = "block"
  /\ BeginBlock(BlockOf(n))
  /\ out' = 0 /\ block' = BlockOf(n)
  /\ UNCHANGED <<chipVars, reg, fill, unset, beats>>

NextChunk ==
  /\ phase = "block"
  /\ GenerateBlock
  /\ ForwardLFO
  /\ UNCHANGED <<sweepVars, outVars>>

PlayVoice ==
  /\ ch < Limit /\ synthHandler[ch] \notin Percussion
  /\ PlayChannel
  /\ UNCHANGED <<lfoVars, sweepVars, outVars>>

\* GeneratePercussion, one sample: the noise goes on by one ForwardNoise.
PlayDrums ==
  /\ generating /\ ch < Limit /\ synthHandler[ch] \in Percussion
  /\ beats < samples
  /\ beats' = beats + 1
  /\ ForwardNoise
  /\ UNCHANGED <<chipVars, sweepVars, out, block>>

DrumNoise ==
  /\ generating
  /\ ShiftNoise
  /\ UNCHANGED <<chipVars, sweepVars, outVars>>

DrumsPlayed ==
  /\ ch < Limit /\ synthHandler[ch] \in Percussion
  /\ beats = samples /\ noiseCount = 0
  /\ PlayChannel
  /\ beats' = 0
  /\ UNCHANGED <<lfoVars, sweepVars, out, block>>

ChunkPlayed ==
  /\ FinishBlock
  /\ EndChunk
  /\ out' = out + samples
  /\ UNCHANGED <<sweepVars, block, beats>>

\* AddSamples_m32 or _s32 doubles and clips the block into the wrapper's
\* buffer: two bytes for each sample and output channel.
AddSamples ==
  /\ phase = "block" /\ total = 0
  /\ phase' = "ready"
  /\ UNCHANGED <<chipVars, lfoVars, reg, fill, unset, outVars>>

Playing == NextChunk \/ PlayVoice \/ PlayDrums \/ DrumNoise \/ DrumsPlayed
           \/ ChunkPlayed \/ AddSamples

HandlerNext ==
  \/ EnterOpl3 \/ Sweep \/ EnterOpl2 \/ SetupDone
  \/ \E w \in PortWrites : WritePort(w)
  \/ \E n \in Requests : Generate(n)
  \/ Playing

HandlerSpec == HandlerInit /\ [][HandlerNext]_handlerVars

\* Handler::Generate runs on until it returns.
HandlerFairSpec == HandlerSpec /\ WF_handlerVars(Playing)
-----------------------------------------------------------------------------
HandlerTypeOK ==
  /\ TypeOK /\ LfoTypeOK
  /\ phase \in {"made", "opl3", "opl2", "ready", "block"}
  /\ reg \in 0..512 /\ fill \in BOOLEAN
  /\ unset \subseteq Chan \X (0..1) \X OpReg
  /\ out \in 0..MaxSamples /\ block \in 0..MaxSamples /\ beats \in 0..samples

\* The sweep leaves the chip as a program expects it, though it goes through
\* both modes, rhythm mode, all pairs and all keys on its way, and makes every
\* operator compute all it caches: a zero alone, to a register that is zero,
\* would not (dbopl.cpp:452-507, 1313-1327).
SetupResets ==
  phase = "opl2" /\ reg = 255 =>
    /\ Init
    /\ lfoCounter = 0 /\ vibratoStrength = 1 /\ tremoloStrength = 2 /\ noiseValue = {0}
    /\ unset = {}

\* Three tables agree (dbopl.cpp:1292-1311, 1427-1452): the registers of a
\* channel and those of its operators reach one channel, and the channels that
\* a bit of 0x104 joins are the two whose registers lie three apart.
Bank(n) == (n \div 3) * 16
RegistersMeet ==
  /\ \A b \in 0..1, n \in 0..8, o \in 0..1 :
       RegOp(b * 256 + (n \div 3) * 8 + (n % 3) + 3 * o)
         = {<<c, o>> : c \in RegChan(b * 256 + n)}
  /\ \A n \in 0..5 :
       LET first == ChanAt(Bank(n) + (n % 3))
           second == ChanAt(Bank(n) + (n % 3) + 3)
       IN  opl3Active /\ PairOfBit(n) \in reg104 =>
             /\ \A c \in first : Voice(c) = first \cup second
             /\ \A c \in second : Muted(c)

\* No sample of a block is lost, played twice or put past the buffers, into
\* however many chunks the oscillator cuts it (dbopl.cpp:1177-1203, 1484-1494;
\* myopl.hpp:57-82).
SamplesWhole ==
  phase = "block" =>
    /\ out + total = block /\ samples <= total
    /\ 2 * block <= 2 * MaxSamples /\ 2 * OutChannels * block <= BufLen

\* A block is played to its end: no chunk is empty and the walk over the
\* channels always goes on (dbopl.cpp:1002-1006, 1178, 1192).
BlockEnds == phase = "block" ~> phase = "ready"
=============================================================================
