---------------------------- MODULE MCCoreAudio ----------------------------
(***************************************************************************)
(* Files that are empty, shorter than one buffer, and of several calls     *)
(* with and without a rest; calls of one and of two buffers.               *)
(***************************************************************************)
EXTENDS CoreAudio

MCSizes == {0, 1, 8, 11}
MCBursts == {2, 3, 4}
MCBuffers == 2
=============================================================================
