----------------------------- MODULE MCHandler -----------------------------
(***************************************************************************)
(* The real layout of channels and registers; a small oscillator and noise. *)
(***************************************************************************)
EXTENDS Handler

MCFourOpFirst == {0, 2, 4, 9, 11, 13}
MCFreqLo  == 0..255
MCFreqHi  == 0..31
MCC0Value == [am : BOOLEAN, pan : SUBSET Speakers]
MCBDValue == [on : BOOLEAN, keys : SUBSET Drum]

\* The table of the code: 1, 0, 1, 30 & 7 and the same with the sign.
MCVibratoTable ==
  [i \in 0..7 |-> [shift |-> CASE i % 4 = 1 -> 0 [] i % 4 = 3 -> 6 [] OTHER -> 1,
                   sign  |-> IF i < 4 THEN 0 ELSE -1]]

To(port, index, val) == [port |-> port, index |-> index, val |-> val]
MCPortWrites ==
  {To(2, 5, 0), To(2, 5, 1),          \* opl2 and opl3 mode
   To(2, 4, 0), To(2, 4, 1),          \* the first pair
   To(0, 192, 0), To(2, 192, 49),     \* C0h of the first channels of the banks
   To(0, 189, 0), To(0, 189, 192),    \* melodic mode without and with both depths
   To(0, 189, 33)}                    \* rhythm mode with a drum

\* A behaviour that is explored runs the oscillator through all its steps,
\* with the modes changing, or plays pairs and drums through its first two.
OnOscillator == reg104 = {} /\ regC0[0] = C0Of(0) /\ regC0[9] = C0Of(0)
                /\ ~regBD.on /\ noiseCounter = 0
OnHandlers == vibratoIndex < 2 /\ (regBD.on \/ noiseCounter = 0)
OneOfTwo == phase \in {"ready", "block"} => OnOscillator \/ OnHandlers
=============================================================================
