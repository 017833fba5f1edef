----------------------------- MODULE MCBoardB02 -----------------------------
(***************************************************************************)
(* A unit of time is the shortest timer.  Which inputs occur depends on    *)
(* the question asked.                                                     *)
(***************************************************************************)
EXTENDS BoardB02

Msg(cmd, value) == [dest |-> {"B02"}, cmd |-> cmd, value |-> value]

\* The value "other" is neither ON nor OFF.
LightAndAlarm ==
  {Msg("SET_LIGHT", "ON"), Msg("SET_LIGHT", "other"), Msg("SET_MODE", "ALARM_MODE")}

ModesOnly == {Msg("SET_MODE", mode) : mode \in Modes}

OneUnit == [kind \in Kinds |-> 1]
=============================================================================
