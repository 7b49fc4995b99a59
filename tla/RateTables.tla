----------------------------- MODULE RateTables -----------------------------
(***************************************************************************)
(* The tables of envelope rates as Chip::Setup computes them for an output *)
(* of 44100 Hz (opl/dbopl.cpp:119-133, 196-210, 1243-1291), number for     *)
(* number: linearRates directly, attackRates by a search, pass after pass, *)
(* for the step whose attack takes the number of samples of the real chip. *)
(* Operator takes its tables as constants and assumes their shape; here    *)
(* the shape is checked of the tables themselves.                          *)
(***************************************************************************)
EXTENDS Operator

RATE_SH == 24

\* OPLRATE / rate = (14318180 / 288) / 44100, in lowest terms.
OplRate == 715909
OutRate == 635040

AttackSamplesTable == <<69, 55, 46, 40, 35, 29, 23, 20, 19, 15, 11, 10, 9>>
EnvelopeIncreaseTable == <<4, 5, 6, 7, 8, 10, 12, 14, 16, 20, 24, 28, 32>>

\* n * 2^k / d, rounded down, by long division: TLC's integers have 32 bits.
ShiftedQuotient(n, k, d) ==
  LET division[j \in 0..k] ==
        IF j = 0 THEN [quot |-> n \div d, rest |-> n % d]
        ELSE LET half == division[j - 1]
             IN  [quot |-> 2 * half.quot + (2 * half.rest) \div d,
                  rest |-> (2 * half.rest) % d]
  IN  division[k].quot

\* EnvelopeSelect: the row of a rate in the two tables, and its octave.
EnvelopeSelect(val) ==
  CASE val < 52              -> [index |-> val % 4, shift |-> 12 - (val \div 4)]
    [] val >= 52 /\ val < 60 -> [index |-> val - 48, shift |-> 0]
    [] val >= 60             -> [index |-> 12, shift |-> 0]

Increase(i) ==
  LET row == EnvelopeSelect(i)
  IN  ShiftedQuotient(OplRate * EnvelopeIncreaseTable[row.index + 1],
                      RATE_SH - row.shift - 3, OutRate)

Original(i) ==
  LET row == EnvelopeSelect(i)
  IN  ShiftedQuotient(OutRate * AttackSamplesTable[row.index + 1], row.shift, OplRate)

\* The samples an attack takes with a step of add, counted up to limit.  From
\* one change of the volume to the next nothing happens: the samples between
\* are taken at once.  The count is unsigned, a negative step runs through 2^32.
RECURSIVE Attack(_, _, _, _, _)
Attack(add, limit, vol, count, taken) ==
  LET unit == 2^RATE_SH
      k    == IF add \in 1..unit THEN (unit - count + add - 1) \div add
              ELSE IF add = 0 THEN limit ELSE 1
      change == ((count + k * add) \div unit) % 256
  IN  IF vol <= 0 \/ taken >= limit THEN taken
      ELSE IF taken + k > limit THEN limit
      ELSE Attack(add, limit, vol + (((-1 - vol) * change) \div 8),
                  (count + k * add) % unit, taken + k)

AttackSamples(i, add) == Attack(add, 2 * Original(i), ENV_MAX, 0, 0)

\* (guess * mul) >> 12 of two 32-bit numbers, whose product wraps.
Product(guess, mul) ==
  LET low == (guess \div 4096) * mul + ((guess % 4096) * mul) \div 4096
  IN  ((low + 2^19) % 2^20) - 2^19

\* Sixteen passes; the best one is kept, also where a product that wrapped
\* has led the search astray.
RECURSIVE Search(_, _, _, _, _)
Search(i, guess, best, bestDiff, passes) ==
  LET original == Original(i)
      taken == AttackSamples(i, guess)
      diff  == original - taken
      off   == IF diff < 0 THEN -diff ELSE diff
      next  == Product(guess, (taken * 4096) \div original)
                 + (IF diff < 0 THEN 1 ELSE -1)
      found == IF off < bestDiff THEN [add |-> guess, off |-> off]
               ELSE [add |-> best, off |-> bestDiff]
  IN  IF passes = 16 \/ bestDiff = 0 THEN best
      ELSE Search(i, next, found.add, found.off, passes + 1)

LinearRates == [i \in RateIndex |-> Increase(i)]
AttackRates == [i \in RateIndex |->
  IF i < 62 THEN Search(i, Increase(i), Increase(i), 2^30, 0) ELSE 8 * 2^RATE_SH]

\* The tables have the shape that Operator assumes, a faster rate is never a
\* slower one, and although the search's products do not fit 32 bits from
\* the middling rates on, every attack takes its time to within an eighth.
ASSUME TablesFit ==
  /\ AttackRates \in [RateIndex -> 1..(8 * 2^RATE_SH)]
  /\ LinearRates \in [RateIndex -> 1..(8 * 2^RATE_SH)]
  /\ \A i \in 0..74 :
       AttackRates[i] <= AttackRates[i + 1] /\ LinearRates[i] <= LinearRates[i + 1]
  /\ \A i \in 0..61 :
       LET off == Original(i) - AttackSamples(i, AttackRates[i])
       IN  8 * off \in -Original(i)..Original(i)
=============================================================================
