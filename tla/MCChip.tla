------------------------------- MODULE MCChip -------------------------------
(***************************************************************************)
(* A chip of six channels for model-checking Chip: a pair (0, 1), the      *)
(* three drums 2, 3, 4, and a channel 5 that only opl3 mode plays.  The     *)
(* program leaves drums 3 and 4 to rhythm mode.                            *)
(***************************************************************************)
EXTENDS Chip

MCPlayed  == {0, 1, 2, 5}
MCC0Value == [am : {FALSE}, pan : {{}}] \cup [am : {TRUE}, pan : {{"left"}}]
MCBDValue == [on : {FALSE}, keys : {{}, {"bass"}}]
             \cup [on : {TRUE}, keys : {{}, {"bass", "hihat"}, {"snare", "tom", "cymbal"}}]

\* A behaviour that is explored moves the handlers of all channels, or the
\* keys of the pair and of the bass drum's channel, whatever the modes do.
AtRestC0 == \A c \in Chan : regC0[c] = [am |-> FALSE, pan |-> {}]
Silent(channels) ==
  \A c \in channels : ~regB0[c] /\ chanData[c] = [lo |-> 0, hi |-> 0]
OnHandlers == Silent(Chan) /\ regBD.keys = {}
OnKeys ==
  /\ AtRestC0 /\ ~generating
  /\ Silent({5}) /\ chanData[2] = [lo |-> 0, hi |-> 0]
  /\ \A c \in {0, 1} : chanData[c].lo + chanData[c].hi < 2
OneOfTwo == OnHandlers \/ OnKeys
=============================================================================
