----------------------------- MODULE MCHscVoice -----------------------------
(***************************************************************************)
(* Values for model-checking HscVoice: a four-valued low byte, so that     *)
(* slides and fine tunes wrap, and a fade of three steps.                  *)
(***************************************************************************)
EXTENDS HscVoice

Pitch(h, l) == [high |-> h, key |-> TRUE, low |-> l]
Vol(k, l) == [ksl |-> k, level |-> l]
Patch(c, m, additive, fine) ==
    [carrier |-> c, modulator |-> m, additive |-> additive, fine |-> fine]

TwoNotes == {Pitch(1, 0), Pitch(2, 3)}
OneNote == {Pitch(1, 0)}

\* Two instruments that differ in their tune only, and two that differ in
\* their volumes and in whether the modulator is heard.
TunedPatches == {Patch(Vol(0, 0), Vol(0, 0), FALSE, f) : f \in {0, 3}}
LevelPatches == {Patch(Vol(1, 0), Vol(0, 1), FALSE, 0),
                 Patch(Vol(1, 0), Vol(3, 2), TRUE, 0)}
=============================================================================
