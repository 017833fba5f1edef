---------------------------- MODULE TimerCommands ----------------------------
(***************************************************************************)
(* What the commands in the queue of the timer daemon make of a timer: the *)
(* last one that concerns it decides.                                      *)
(***************************************************************************)
EXTENDS Integers, Sequences

\* A timer that does not run has no time of expiry.
Off == 0

\* The places of the commands that concern a timer.
Concerning(timer, commands) == {i \in DOMAIN commands : commands[i].timer = timer}

\* Whether the timer runs once the commands are executed.
RunsAfter(commands, timers, timer) ==
  IF Concerning(timer, commands) = {}
  THEN timers[timer] # Off
  ELSE \E last \in Concerning(timer, commands) :
         /\ \A i \in Concerning(timer, commands) : i <= last
         /\ commands[last].expiry # Off
=============================================================================
