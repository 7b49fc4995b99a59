------------------------------ MODULE Envelope ------------------------------
(***************************************************************************)
(* What the envelope of one OPL operator promises to the channel that      *)
(* plays it, without registers or rates: which key sources hold the note,  *)
(* which of the five phases it is in, and how loud it is.  volume is an    *)
(* attenuation: 0 is full level and MaxVolume is silence, as in the code.  *)
(* Operator.tla is the detailed model and is shown to implement this one.  *)
(***************************************************************************)
EXTENDS Naturals

CONSTANTS
  Source,      \* who may hold a key: the channel (mask 0x1), rhythm mode (0x2)
  MaxVolume    \* ENV_MAX, the attenuation of silence, a natural number

VARIABLES keyOn, state, volume

envelopeVars == <<keyOn, state, volume>>

State == {"OFF", "RELEASE", "SUSTAIN", "DECAY", "ATTACK"}

Init == keyOn = {} /\ state = "RELEASE" /\ volume = MaxVolume

\* A source presses the key: only the first one restarts the envelope, and
\* the attack starts from the current loudness.
KeyOn(m) ==
  /\ state' = IF keyOn = {} THEN "ATTACK" ELSE state
  /\ keyOn' = keyOn \cup {m}
  /\ UNCHANGED volume

\* A source lets go: only when no source is left does the note release.
KeyOff(m) ==
  /\ keyOn' = keyOn \ {m}
  /\ state' = IF keyOn' = {} /\ state # "OFF" THEN "RELEASE" ELSE state
  /\ UNCHANGED volume

Louder ==
  /\ state = "ATTACK"
  /\ volume' \in 0..volume
  /\ state' \in {"ATTACK", "DECAY"}
  /\ state' = "DECAY" => volume' = 0
  /\ UNCHANGED keyOn

Softer ==
  /\ state \in {"DECAY", "SUSTAIN", "RELEASE"}
  /\ volume' \in volume..MaxVolume
  /\ \/ state' = state
     \/ state = "DECAY" /\ state' = "SUSTAIN"
     \/ state' = "OFF" /\ volume' = MaxVolume
  /\ UNCHANGED keyOn

Next == Louder \/ Softer \/ \E m \in Source : KeyOn(m) \/ KeyOff(m)

Spec == Init /\ [][Next]_envelopeVars
-----------------------------------------------------------------------------
\* A voice nobody holds is releasing or off, never left attacking, decaying
\* or sustaining, and a held voice is never in release (KeyOn, KeyOff and the
\* phase changes of TemplateVolume, dbopl.cpp:383-432 and 550-571).
KeyedState ==
  /\ keyOn = {} => state \in {"OFF", "RELEASE"}
  /\ keyOn # {} => state # "RELEASE"

\* An envelope that is off is at the floor, so the handler of OFF, which
\* answers ENV_MAX without looking, agrees with the stored volume
\* (dbopl.cpp:388-389).
OffIsSilent == state = "OFF" => volume = MaxVolume
=============================================================================
