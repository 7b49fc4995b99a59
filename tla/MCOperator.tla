----------------------------- MODULE MCOperator -----------------------------
(***************************************************************************)
(* Values for model-checking Operator.  The rate tables keep the shape of  *)
(* the code's (slow, middling and fast indices, the instant attack from 62 *)
(* on) with steps large enough for an envelope to run in a few samples;    *)
(* RateTables checks that shape of the tables the code computes.           *)
(***************************************************************************)
EXTENDS RateTables

MCRateUnit == 2

MCattackRates == [i \in RateIndex |->
  IF i < 4 THEN 0 ELSE IF i < 62 THEN 7 ELSE 16]

MClinearRates == [i \in RateIndex |->
  IF i < 4 THEN 0 ELSE IF i < 8 THEN 145 ELSE 256]

R20(ksr, sus, vib, mul) == [ksr |-> ksr, sus |-> sus, vib |-> vib, mul |-> mul]
R40(ksl, tl) == [ksl |-> ksl, tl |-> tl]
R60(ar, dr)  == [ar |-> ar, dr |-> dr]
R80(sl, rr)  == [sl |-> sl, rr |-> rr]

Word(freq, ksl, key) == [freq |-> freq, ksl |-> ksl, key |-> key]

\* Registers for the caches: each field changes alone and together.
CacheReg20 == {R20(FALSE, FALSE, FALSE, 0), R20(TRUE, FALSE, FALSE, 0),
               R20(TRUE, TRUE, FALSE, 1), R20(FALSE, TRUE, TRUE, 1)}
CacheReg40 == {R40(0, 0), R40(1, 63), R40(3, 0)}
CacheReg60 == {R60(0, 0), R60(15, 0), R60(15, 1)}
CacheReg80 == {R80(0, 0), R80(15, 15), R80(15, 1)}
CacheData  == {Word(0, 0, 0), Word(600, 96, 9), Word(601, 96, 9)}

\* Registers for the envelope: rates and levels, no frequencies.
EnvReg20 == {R20(FALSE, FALSE, FALSE, 0), R20(FALSE, TRUE, FALSE, 0)}
EnvReg40 == {R40(0, 0), R40(0, 63)}
EnvReg60 == {R60(0, 0), R60(1, 8), R60(15, 1)}
EnvReg80 == {R80(0, 0), R80(4, 8), R80(15, 1)}
EnvData  == {Word(0, 0, 0)}

MCReg20 == CacheReg20 \cup EnvReg20
MCReg40 == CacheReg40 \cup EnvReg40
MCReg60 == CacheReg60 \cup EnvReg60
MCReg80 == CacheReg80 \cup EnvReg80
MCData  == CacheData \cup EnvData

\* The run explores two instances in one: all writes on an envelope that no
\* sample has moved yet, and the envelope under the writes that matter to it.
OnCaches ==
  /\ reg20 \in CacheReg20 /\ reg40 \in CacheReg40 /\ reg60 \in CacheReg60
  /\ reg80 \in CacheReg80 /\ chanData \in CacheData
  /\ volume = ENV_MAX /\ rateIndex = 0

OnEnvelope ==
  /\ reg20 \in EnvReg20 /\ reg40 \in EnvReg40 /\ reg60 \in EnvReg60
  /\ reg80 \in EnvReg80 /\ chanData \in EnvData

OneOfTwo == OnCaches \/ OnEnvelope
=============================================================================
