----------------------------- MODULE SoftTimers -----------------------------
(***************************************************************************)
(* FreeRTOS software timers as board.c, board_T01.c and board_B02.c use    *)
(* them: one-shot timers whose callbacks notify one task.  A command is    *)
(* queued for the timer daemon, which has the lowest priority; a change of *)
(* period starts the timer, counted from the call and not from its         *)
(* execution by the daemon.                                                *)
(***************************************************************************)
EXTENDS TimerCommands

CONSTANTS TimerNames,       \* the timers of the task
          BitOf(_)          \* the notification each timer's callback sends

VARIABLES tick,             \* the tick counter
          notification,     \* the notification bits pending for the task
          timers,           \* timers[t]: when t expires, or Off
          commands          \* commands waiting for the timer daemon

Start(timer, period) == [timer |-> timer, expiry |-> tick + period]
Stop(timer)          == [timer |-> timer, expiry |-> Off]

TimersType ==
  /\ timers \in [TimerNames -> Nat]
  /\ commands \in Seq([timer : TimerNames, expiry : Nat])

\* What the commands sent so far will make of a timer, once they are executed.
Scheduled(timer) == RunsAfter(commands, timers, timer)

Fire(timer) ==
  /\ timers' = [timers EXCEPT ![timer] = Off]
  /\ notification' = notification \cup {BitOf(timer)}

ExpireTimer(timer) ==
  /\ timers[timer] # Off /\ timers[timer] <= tick
  /\ Fire(timer)
  /\ UNCHANGED commands

\* A timer whose time has come before the daemon hears of it fires at once.
ExecuteCommand ==
  /\ commands # <<>>
  /\ LET cmd == Head(commands) IN
       IF cmd.expiry # Off /\ cmd.expiry <= tick
       THEN Fire(cmd.timer)
       ELSE /\ timers' = [timers EXCEPT ![cmd.timer] = cmd.expiry]
            /\ UNCHANGED notification
  /\ commands' = Tail(commands)
=============================================================================
