-------------------------- MODULE MCDispatchTimer --------------------------
(***************************************************************************)
(* A second of six units and a timer of a period that does not divide it:  *)
(* ticks before, at and after the wrap of the clock's fraction, in time    *)
(* and late.                                                               *)
(***************************************************************************)
EXTENDS DispatchTimer

MCSecond == 6
MCPeriod == 4

(* Nearly two seconds after the last possible start. *)
TimeBound == now <= 17
=============================================================================
