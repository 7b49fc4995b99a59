-------------------------- MODULE MCHscSequencer --------------------------
(***************************************************************************)
(* Values for model-checking HscSequencer: two channels, so that one cell  *)
(* of a row can undo another's effect, three rows, three orders.           *)
(***************************************************************************)
EXTENDS HscSequencer

\* The song may jump to any of its orders.
MCJumps == 0..(Length - 1)
=============================================================================
