---------------------------- MODULE SampleClock ----------------------------
(***************************************************************************)
(* What the low-frequency oscillator promises to the operators: a clock    *)
(* that runs from sample to sample, and vibrato and tremolo that step on   *)
(* whenever it wraps.  Samples are played in pieces of any length, yet     *)
(* each of them has the vibrato and tremolo of its own moment, however the *)
(* program cuts its requests.  Lfo.tla is the detailed model and is shown  *)
(* to implement this one.                                                  *)
(***************************************************************************)
EXTENDS Integers

CONSTANTS
  Max,         \* the clock wraps here
  Add,         \* what a sample adds to it
  Vibrato,     \* the shape of the vibrato: eight times [shift, sign]
  Half         \* tremolo rises for so many steps and falls for as many

VARIABLES
  clock, vibrato, tremolo,   \* at the next sample
  depth,                     \* shifts of vibrato and tremolo
  played                     \* what the last piece was played with

clockVars == <<clock, vibrato, tremolo, depth, played>>

Init ==
  /\ clock = 0 /\ vibrato = 0 /\ tremolo = 0
  /\ depth \in [vibrato : {0, 1}, tremolo : {0, 2}]
  /\ played = [sign |-> 0, shift |-> 0, level |-> 0]

SetDepth ==
  /\ depth' \in [vibrato : {0, 1}, tremolo : {0, 2}]
  /\ UNCHANGED <<clock, vibrato, tremolo, played>>

\* How often the clock wraps in the next k samples.
Wraps(k) == (clock + k * Add) \div Max

\* Vibrato runs four times slower; tremolo is a triangle.
Sound ==
  [sign  |-> Vibrato[vibrato \div 4].sign,
   shift |-> Vibrato[vibrato \div 4].shift + depth.vibrato,
   level |-> (IF tremolo < Half THEN tremolo ELSE 2 * Half - 1 - tremolo)
               \div 2^depth.tremolo]

\* A piece of k samples, of which the last belongs to the step of the first.
Play(k) ==
  /\ Wraps(k - 1) = 0
  /\ clock' = (clock + k * Add) % Max
  /\ vibrato' = (vibrato + Wraps(k)) % 32
  /\ tremolo' = (tremolo + Wraps(k)) % (2 * Half)
  /\ played' = Sound
  /\ UNCHANGED depth

Next == SetDepth \/ \E k \in 1..Max : Play(k)

Spec == Init /\ [][Next]_clockVars
=============================================================================
