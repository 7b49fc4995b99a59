----------------------------- MODULE MCJukebox -----------------------------
(***************************************************************************)
(* Values for model-checking Jukebox: three songs, two registers a go.     *)
(***************************************************************************)
EXTENDS Jukebox

MCLastSong == 2
MCWrites == 2
=============================================================================
