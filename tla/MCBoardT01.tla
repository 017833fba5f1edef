----------------------------- MODULE MCBoardT01 -----------------------------
(***************************************************************************)
(* A unit of time is the shortest timer; the 40 seconds of the node are    *)
(* two units.  Which inputs occur depends on the question asked.           *)
(***************************************************************************)
EXTENDS BoardT01

Msg(cmd, value) == [dest |-> {"T01"}, cmd |-> cmd, value |-> value]

GuardAndIntrusion == {Msg("SET_MODE", "GUARD_MODE"), Msg("SET_INTRUSION", "ON")}

LightAndAlarm ==
  {Msg("SET_LIGHT", "ON"), Msg("SET_LIGHT", "OFF"),
   Msg("SET_MODE", "ALARM_MODE"), Msg("SET_MODE", "SILENCE_MODE")}

Nothing == {}
=============================================================================
