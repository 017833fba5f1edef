----------------------------- MODULE BoardProofs -----------------------------
(***************************************************************************)
(* Theorems about the task of the board, for all periods, numbers of       *)
(* samples, events and horizons: the types, that the daylight is measured  *)
(* again and again and in the dark, that the colour asked for last is      *)
(* shown, and that the watchdog is fed in time.                            *)
(***************************************************************************)
EXTENDS Board, SequenceTheorems, TLAPS

-----------------------------------------------------------------------------
(* Types.                                                                  *)

\* There is a sample left to take whenever the task waits to take one.
TypeInv == TypeOK /\ (pc = "delay" => samples > 0)

Command == [timer : TimerNames, expiry : Nat]

\* Events that happen are counted down.
LEMMA HappensType ==
  ASSUME left \in [Events -> Nat], NEW event \in Events, Happens(event)
  PROVE  /\ left' \in [Events -> Nat]
         /\ left'[event] = left[event] - 1
         /\ \A other \in Events : left'[other] <= left[other]
BY DEF Happens

\* A channel that is started lights its LED and no other, or fails.
LEMMA SetColorEffect ==
  ASSUME NEW c \in Colors, left \in [Events -> Nat], SetColor(c)
  PROVE  /\ lit' \subseteq Colors \ {"NO_COLOR"} /\ left' \in [Events -> Nat]
         /\ \A event \in Events : left'[event] <= left[event]
         /\ left'["lag"] = left["lag"]
         /\ c = "NO_COLOR" => lit' = {}
         /\ lit' = {c} \ {"NO_COLOR"} \/ (lit' = {} /\ left'["fault"] < left["fault"])
BY DEF SetColor, StartTimer2, StartTimer3, Colors, Events, Happens

\* Starting the timer again queues one command.
LEMMA ChangePeriodEffect ==
  ASSUME tick \in Nat, commands \in Seq(Command), NEW period \in Nat \ {0}, ChangePeriod(period)
  PROVE  /\ commands' \in Seq(Command)
         /\ commands' = Append(commands, [timer |-> "photoresistor", expiry |-> tick + period])
         /\ tick + period \in Nat \ {Off}
<1>1. [timer |-> "photoresistor", expiry |-> tick + period] \in Command
  BY DEF Command, TimerNames
<1>. QED  BY <1>1 DEF ChangePeriod, Start, Off

\* The daemon executes a command or lets a timer expire.
LEMMA DaemonType ==
  ASSUME TypeOK, Daemon
  PROVE  /\ timers' \in [TimerNames -> Nat] /\ commands' \in Seq(Command)
         /\ notification' \subseteq Bits /\ notification \subseteq notification'
<1>0. /\ timers \in [TimerNames -> Nat] /\ commands \in Seq(Command) /\ notification \subseteq Bits
      /\ "PHOTORESISTOR" \in Bits /\ Off \in Nat
  BY DEF TypeOK, TimersType, Bits, Off, Command
<1>1. CASE ExecuteCommand
  <2>1. Head(commands) \in Command /\ Tail(commands) \in Seq(Command)
    BY <1>0, <1>1, HeadTailProperties, EmptySeq DEF ExecuteCommand
  <2>2. Head(commands).timer \in TimerNames /\ Head(commands).expiry \in Nat
    BY <2>1 DEF Command
  <2>. QED  BY <1>0, <1>1, <2>1, <2>2 DEF ExecuteCommand, Fire, BitOf
<1>2. CASE \E timer \in TimerNames : ExpireTimer(timer)
  BY <1>0, <1>2 DEF ExpireTimer, Fire, BitOf
<1>. QED  BY <1>1, <1>2 DEF Daemon

\* The state board_init leaves is well typed.
LEMMA TypeInit == Init => TypeInv
<1>. SUFFICES ASSUME Init PROVE TypeInv
  OBVIOUS
<1>1. Start("photoresistor", DefaultPeriod) \in Command
  BY PeriodsAssumption DEF Init, Start, Command, TimerNames
<1>2. commands \in Seq(Command)
  BY <1>1 DEF Init
<1>3. TimersType
  BY <1>2 DEF Init, TimersType, Command, Off
<1>4. wake \in Nat /\ samples \in 0 .. MeasurementCount
  BY PeriodsAssumption DEF Init
<1>. QED
  BY <1>3, <1>4, LimitAssumption DEF Init, TypeInv, TypeOK, Colors, Bits

\* Every step keeps the types.
LEMMA TypeStep ==
  ASSUME TypeInv, [Next]_vars
  PROVE  TypeInv'
<1>. USE PeriodsAssumption
<1>0. /\ tick \in Nat /\ notification \subseteq Bits /\ bits \subseteq Bits /\ color \in Colors
      /\ is_reading \in BOOLEAN /\ wake \in Nat /\ samples \in 0 .. MeasurementCount /\ valid \in Nat
      /\ status_led_color \in Colors /\ wanted \in Colors /\ lit \subseteq Colors \ {"NO_COLOR"}
      /\ dark_until \in Nat /\ fed \in Nat /\ timers \in [TimerNames -> Nat]
      /\ commands \in Seq(Command) /\ left \in [Events -> Nat]
      /\ "PHOTORESISTOR" \in Bits /\ "STATUS_LED" \in Bits
  BY DEF TypeInv, TypeOK, TimersType, Command, Bits
<1>1. CASE Wait \/ ReadColor \/ NoPhotoresistor \/ Restore \/ Feed
  <2>1. CASE Wait \/ ReadColor
    BY <1>0, <2>1
    DEF Wait, ReadColor, Goto, TypeInv, TypeOK, TimersType, Command, asking, daemon
  <2>2. CASE NoPhotoresistor \/ Restore
    BY <1>0, <2>2
    DEF NoPhotoresistor, Restore, Goto, TypeInv, TypeOK, TimersType, Command, asking, daemon
  <2>3. CASE Feed
    <3>1. wake' \in Nat
      BY <1>0, <2>3 DEF Feed
    <3>. QED
      BY <1>0, <2>3, <3>1 DEF Feed, Goto, TypeInv, TypeOK, TimersType, Command, asking, daemon
  <2>. QED  BY <1>1, <2>1, <2>2, <2>3
<1>14. CASE DisableLightning
  <2>1. disable_period \in Nat
    BY DEF disable_period
  <2>2. dark_until' \in Nat
    BY <1>0, <1>14, <2>1 DEF DisableLightning
  <2>. QED
    BY <1>0, <1>14, <2>2
    DEF DisableLightning, Goto, TypeInv, TypeOK, TimersType, Command, asking, daemon
<1>2. CASE SetStatusLed
  <2>1. lit' \subseteq Colors \ {"NO_COLOR"} /\ left' \in [Events -> Nat]
    BY <1>0, <1>2, SetColorEffect DEF SetStatusLed
  <2>. QED
    BY <1>0, <1>2, <2>1 DEF SetStatusLed, Goto, TypeInv, TypeOK, TimersType, Command, asking, daemon
<1>3. CASE DisableLed
  <2>1. lit' \subseteq Colors \ {"NO_COLOR"} /\ left' \in [Events -> Nat]
    BY <1>0, <1>3, SetColorEffect DEF DisableLed, Colors
  <2>2. commands' \in Seq(Command)
    BY <1>0, <1>3, ChangePeriodEffect DEF DisableLed
  <2>. QED
    BY <1>0, <1>3, <2>1, <2>2 DEF DisableLed, Goto, TypeInv, TypeOK, TimersType, Command, asking
<1>4. CASE InitAdc
  <2>1. left' \in [Events -> Nat]
    BY <1>0, <1>4, HappensType DEF InitAdc, Events
  <2>2. /\ samples' \in 0 .. MeasurementCount /\ wake' \in Nat
        /\ pc' = "delay" => samples' > 0
    BY <1>0, <1>4 DEF InitAdc, Goto
  <2>3. pc' \in {"delay", "calculate"} /\ valid' \in Nat /\ is_reading' \in BOOLEAN
    BY <1>4 DEF InitAdc, Goto
  <2>. QED
    BY <1>0, <1>4, <2>1, <2>2, <2>3
    DEF InitAdc, TypeInv, TypeOK, TimersType, Command, asking, daemon
<1>5. CASE Convert
  <2>1. left' \in [Events -> Nat]
    BY <1>0, <1>5, HappensType DEF Convert, Events
  <2>2. samples > 0
    BY <1>5 DEF Convert, TypeInv
  <2>3. samples' \in 0 .. MeasurementCount
    <3>1. samples' = samples - 1
      BY <1>5 DEF Convert
    <3>. QED  BY <1>0, <2>2, <3>1
  <2>4. wake' \in Nat
    <3>1. wake' = wake \/ wake' \in {wake, tick + AdcTimeout}
      BY <1>5 DEF Convert
    <3>. QED  BY <1>0, <3>1
  <2>5. valid' \in Nat
    <3>1. valid' = valid \/ valid' = valid + 1
      BY <1>5 DEF Convert
    <3>. QED  BY <1>0, <3>1
  <2>. QED
    BY <1>0, <1>5, <2>1, <2>3, <2>4, <2>5 DEF Convert, Goto, TypeInv, TypeOK, TimersType, Command, asking, daemon
<1>6. CASE NextSample
  BY <1>0, <1>6 DEF NextSample, Goto, TypeInv, TypeOK, TimersType, Command, asking, daemon
<1>7. CASE Calculate
  <2>1. commands' \in Seq(Command)
    BY <1>0, <1>7, ChangePeriodEffect DEF Calculate
  <2>. QED
    BY <1>0, <1>7, <2>1 DEF Calculate, Goto, TypeInv, TypeOK, TimersType, Command, asking
<1>8. CASE Daemon
  BY <1>0, <1>8, DaemonType DEF Daemon, TypeInv, TypeOK, TimersType, Command, asking, round
<1>9. CASE Ask
  BY <1>0, <1>9, HappensType
  DEF Ask, Events, TypeInv, TypeOK, TimersType, Command, round, daemon
<1>10. CASE UpdateStatusLed
  BY <1>0, <1>10
  DEF UpdateStatusLed, StoreColor, NotifyTask, TypeInv, TypeOK, TimersType, Command, round, daemon
<1>11. CASE Sleep
  <2>1. tick' \in Nat
    BY <1>0, <1>11 DEF Sleep, Deadlines
  <2>. QED
    BY <1>0, <1>11, <2>1 DEF Sleep, TypeInv, TypeOK, TimersType, Command, asking, round, daemon
<1>12. CASE Late
  BY <1>0, <1>12, HappensType
  DEF Late, Events, TypeInv, TypeOK, TimersType, Command, asking, round, daemon
<1>13. CASE UNCHANGED vars
  BY <1>0, <1>13 DEF vars, TypeInv, TypeOK, TimersType, Command, asking, round, daemon
<1>. QED
  BY <1>1, <1>2, <1>3, <1>4, <1>5, <1>6, <1>7, <1>8, <1>9, <1>10, <1>11, <1>12, <1>13, <1>14
  DEF Next, TaskStep

\* The variables of the board keep their types.
THEOREM TypeCorrect == Spec => []TypeOK
<1>1. TypeInv => TypeOK
  BY DEF TypeInv
<1>. QED  BY <1>1, TypeInit, TypeStep, PTL DEF Spec

-----------------------------------------------------------------------------
(* The daylight is measured again.                                         *)

\* The timer has fired, and its bit waits for the task or is being worked on.
Notified  == "PHOTORESISTOR" \in notification
Measuring == "PHOTORESISTOR" \in bits /\ pc \notin {"wait", "restore", "feed"}

Expiry == timers["photoresistor"]
Started(expiry) == [timer |-> "photoresistor", expiry |-> expiry]

\* There is one timer: it waits to be started, runs, has fired or is worked on,
\* one of these and only one.
OneTimer ==
  \/ Notified /\ ~Measuring /\ commands = <<>> /\ Expiry = Off
  \/ ~Notified /\ Measuring /\ commands = <<>> /\ Expiry = Off
  \/ ~Notified /\ ~Measuring /\ commands = <<>> /\ Expiry # Off
  \/ /\ ~Notified /\ ~Measuring /\ Expiry = Off
     /\ \E expiry \in Nat \ {Off} : commands = <<Started(expiry)>>

\* What every stage of a measurement needs to know of the round.
Staged ==
  /\ pc \in {"dark", "delay", "poll", "calculate"} => "PHOTORESISTOR" \in bits
  /\ pc \in {"set", "dark", "delay", "poll", "calculate", "restore"} => ~is_reading

TimerInv == OneTimer /\ Staged

\* The daemon lets the timer run or fire, and leaves the queue empty.
LEMMA DaemonEffect ==
  ASSUME TypeInv, OneTimer, Daemon
  PROVE  /\ commands' = <<>> /\ ~Notified /\ ~Measuring
         /\ \/ Expiry' = Off /\ notification' = notification \cup {"PHOTORESISTOR"}
            \/ /\ Expiry' # Off /\ notification' = notification
               /\ commands = <<Started(Expiry')>>
<1>0. timers \in [TimerNames -> Nat] /\ "photoresistor" \in TimerNames
  BY DEF TypeInv, TypeOK, TimersType, TimerNames
<1>1. CASE ExecuteCommand
  <2>1. PICK expiry \in Nat \ {Off} : commands = <<Started(expiry)>>
    BY <1>1 DEF OneTimer, ExecuteCommand
  <2>2. Head(commands) = Started(expiry) /\ Tail(commands) = <<>>
    BY <2>1
  <2>3. Started(expiry).timer = "photoresistor" /\ Started(expiry).expiry = expiry
    BY DEF Started
  <2>4. ~Notified /\ ~Measuring /\ commands # <<>>
    BY <2>1 DEF OneTimer
  <2>5. CASE expiry <= tick
    <3>1. Fire("photoresistor") /\ commands' = <<>>
      BY <1>1, <2>1, <2>2, <2>3, <2>5 DEF ExecuteCommand
    <3>. QED  BY <1>0, <2>4, <3>1 DEF Fire, BitOf, Expiry
  <2>6. CASE ~(expiry <= tick)
    <3>1. /\ timers' = [timers EXCEPT !["photoresistor"] = expiry]
          /\ commands' = <<>> /\ notification' = notification
      BY <1>1, <2>1, <2>2, <2>3, <2>6 DEF ExecuteCommand
    <3>. QED  BY <1>0, <2>1, <2>4, <3>1 DEF Expiry
  <2>. QED  BY <2>5, <2>6
<1>2. CASE \E timer \in TimerNames : ExpireTimer(timer)
  <2>1. ExpireTimer("photoresistor")
    BY <1>2 DEF TimerNames
  <2>2. /\ Expiry # Off /\ commands' = commands
        /\ timers' = [timers EXCEPT !["photoresistor"] = Off]
        /\ notification' = notification \cup {"PHOTORESISTOR"}
    BY <2>1 DEF ExpireTimer, Fire, BitOf, Expiry
  <2>3. commands = <<>> /\ ~Notified /\ ~Measuring
    BY <2>2 DEF OneTimer
  <2>. QED  BY <1>0, <2>2, <2>3 DEF Expiry
<1>. QED  BY <1>1, <1>2 DEF Daemon

\* A timer is started in an empty queue: the task was measuring.
LEMMA StartedAgain ==
  ASSUME TypeInv, OneTimer, Measuring, NEW period \in Nat \ {0}, ChangePeriod(period)
  PROVE  /\ tick + period \in Nat \ {Off} /\ commands' = <<Started(tick + period)>>
         /\ ~Notified /\ Expiry = Off
<1>1. tick \in Nat /\ commands \in Seq(Command)
  BY DEF TypeInv, TypeOK, TimersType, Command
<1>2. commands = <<>> /\ ~Notified /\ Expiry = Off
  BY DEF OneTimer
<1>. QED  BY <1>1, <1>2, ChangePeriodEffect DEF Started

\* The timer is started before board_task runs.
LEMMA TimerInit == Init => TimerInv
<1>. SUFFICES ASSUME Init PROVE TimerInv
  OBVIOUS
<1>1. DefaultPeriod \in Nat \ {Off}
  BY PeriodsAssumption DEF Off
<1>2. commands = <<Started(DefaultPeriod)>>
  BY <1>1 DEF Init, Start, Started
<1>3. ~Notified /\ ~Measuring /\ Expiry = Off /\ Staged
  BY DEF Init, Notified, Measuring, Expiry, Off, Staged, TimerNames
<1>. QED  BY <1>1, <1>2, <1>3 DEF TimerInv, OneTimer

\* The timer is started again with the end of each measurement, and by nothing else.
LEMMA TimerStep ==
  ASSUME TypeInv, TimerInv, [Next]_vars
  PROVE  TimerInv'
<1>0. OneTimer /\ Staged
  BY DEF TimerInv
<1>1. ASSUME UNCHANGED <<timers, commands>>, Notified' <=> Notified, Measuring' <=> Measuring
      PROVE  OneTimer'
  BY <1>0, <1>1 DEF OneTimer, Expiry, Started
<1>2. CASE Wait
  <2>1. ~Measuring /\ ~Notified' /\ (Measuring' <=> Notified) /\ UNCHANGED <<timers, commands>>
    BY <1>2 DEF Wait, Goto, Notified, Measuring, daemon
  <2>2. OneTimer'
    BY <1>0, <2>1 DEF OneTimer, Expiry
  <2>. QED  BY <1>0, <1>2, <2>2 DEF Wait, Goto, TimerInv, Staged
<1>3. CASE ReadColor \/ SetStatusLed \/ NoPhotoresistor \/ Feed \/ InitAdc \/ Convert \/ NextSample
           \/ DisableLightning
  <2>1. /\ UNCHANGED <<timers, commands>> /\ (Notified' <=> Notified) /\ (Measuring' <=> Measuring)
        /\ Staged'
    BY <1>0, <1>3
    DEF ReadColor, SetStatusLed, NoPhotoresistor, Feed, InitAdc, Convert, NextSample,
        DisableLightning, Reading, Goto, Notified, Measuring, Staged, daemon
  <2>. QED  BY <1>1, <2>1 DEF TimerInv
<1>4. CASE Restore
  <2>1. /\ UNCHANGED <<timers, commands>> /\ (Notified' <=> Notified) /\ (Measuring' <=> Measuring)
        /\ Staged'
    BY <1>0, <1>4 DEF Restore, Goto, Notified, Measuring, Staged, daemon
  <2>. QED  BY <1>1, <2>1 DEF TimerInv
<1>5. CASE DisableLed \/ Calculate
  <2>1. Measuring
    BY <1>0, <1>5 DEF DisableLed, Calculate, Measuring, Staged
  <2>2. PICK period \in Nat \ {0} : ChangePeriod(period)
    BY <1>5, PeriodsAssumption DEF DisableLed, Calculate
  <2>3. /\ tick + period \in Nat \ {Off} /\ commands' = <<Started(tick + period)>>
        /\ ~Notified /\ Expiry = Off
    BY <1>0, <2>1, <2>2, StartedAgain
  <2>4. ~Notified' /\ ~Measuring' /\ timers' = timers /\ Staged'
    BY <1>0, <1>5, <2>3 DEF DisableLed, Calculate, Goto, Notified, Measuring, Staged
  <2>5. \E expiry \in Nat \ {Off} : commands' = <<Started(expiry)>>
    BY <2>3
  <2>6. Expiry' = Off
    BY <2>3, <2>4 DEF Expiry
  <2>7. OneTimer'
    BY <2>4, <2>5, <2>6 DEF OneTimer, Started
  <2>. QED  BY <2>4, <2>7 DEF TimerInv
<1>6. CASE Daemon
  <2>1. /\ commands' = <<>> /\ ~Notified /\ ~Measuring
        /\ \/ Expiry' = Off /\ notification' = notification \cup {"PHOTORESISTOR"}
           \/ Expiry' # Off /\ notification' = notification
    BY <1>0, <1>6, DaemonEffect
  <2>2. Staged' /\ ~Measuring'
    BY <1>0, <1>6, <2>1 DEF Daemon, round, Staged, Measuring
  <2>. QED  BY <2>1, <2>2 DEF OneTimer, TimerInv, Notified
<1>7. CASE Ask \/ UpdateStatusLed \/ Sleep \/ Late \/ UNCHANGED vars
  <2>1. /\ UNCHANGED <<timers, commands>> /\ (Notified' <=> Notified) /\ (Measuring' <=> Measuring)
        /\ Staged'
    BY <1>0, <1>7
    DEF Ask, UpdateStatusLed, StoreColor, NotifyTask, Sleep, Late, vars, round, daemon,
        Notified, Measuring, Staged
  <2>. QED  BY <1>1, <2>1 DEF TimerInv
<1>. QED
  BY <1>2, <1>3, <1>4, <1>5, <1>6, <1>7 DEF Next, TaskStep

\* One command decides what comes of the timer.
LEMMA StartedRuns ==
  ASSUME NEW expiry \in Nat \ {Off}, commands = <<Started(expiry)>>
  PROVE  Scheduled("photoresistor")
<1>1. Concerning("photoresistor", commands) = {1}
  BY DEF Concerning, Started
<1>2. commands[1].expiry # Off
  BY DEF Started
<1>. QED  BY <1>1, <1>2 DEF Scheduled, RunsAfter

\* Whatever fails in a measurement, another one is under way or will begin.
THEOREM DaylightMeasuredAgain == Spec => []MeasuredAgain
<1>1. ASSUME TimerInv PROVE MeasuredAgain
  <2>1. CASE Notified \/ Measuring
    BY <2>1 DEF Notified, Measuring, MeasuredAgain
  <2>2. CASE commands = <<>> /\ Expiry # Off
    <3>1. Concerning("photoresistor", commands) = {}
      BY <2>2 DEF Concerning
    <3>. QED  BY <2>2, <3>1 DEF Scheduled, RunsAfter, Expiry, MeasuredAgain
  <2>3. CASE \E expiry \in Nat \ {Off} : commands = <<Started(expiry)>>
    BY <2>3, StartedRuns DEF MeasuredAgain
  <2>. QED  BY <1>1, <2>1, <2>2, <2>3 DEF TimerInv, OneTimer
<1>2. Spec => []TypeInv
  BY TypeInit, TypeStep, PTL DEF Spec
<1>. QED  BY <1>1, <1>2, TimerInit, TimerStep, PTL DEF Spec

-----------------------------------------------------------------------------
(* The colour asked for last is shown.                                     *)

\* No event happens more often than it may.
Counted == \A event \in Events : left[event] <= Limit[event]

\* The LED is lit in a colour, or a timer has failed and none is lit.
Shown(c) ==
  \/ lit = {c} \ {"NO_COLOR"}
  \/ left["fault"] < Limit["fault"] /\ lit = {}

\* Nobody is about to notify the task of a colour, and it has been told of all.
Told == caller = "idle" /\ "STATUS_LED" \notin notification

\* Where the task is in showing a colour it was told of.
ColorInv ==
  Told =>
    /\ pc = "set" => color = status_led_color
    /\ pc = "led" /\ ~is_reading => "STATUS_LED" \in bits \/ Shown(status_led_color)
    /\ pc \in {"wait", "photoresistor", "feed"} /\ ~is_reading => Shown(status_led_color)

\* The events start at their limits.
LEMMA CountedInit == Init => Counted
BY LimitAssumption DEF Init, Counted

\* Events are used up and never given back.
LEMMA LeftStep ==
  ASSUME TypeInv, [Next]_vars
  PROVE  \A event \in Events : left'[event] <= left[event]
<1>0. left \in [Events -> Nat] /\ color \in Colors /\ "NO_COLOR" \in Colors
  BY DEF TypeInv, TypeOK, Colors
<1>1. CASE UNCHANGED left
  BY <1>0, <1>1
<1>2. CASE \E event \in Events : Happens(event)
  BY <1>0, <1>2, HappensType
<1>3. CASE SetStatusLed \/ DisableLed
  BY <1>0, <1>3, SetColorEffect DEF SetStatusLed, DisableLed
<1>4. CASE InitAdc \/ Convert \/ Ask \/ Late
  <2>1. UNCHANGED left \/ \E event \in Events : Happens(event)
    BY <1>4 DEF InitAdc, Convert, Ask, Late, Events
  <2>. QED  BY <1>1, <1>2, <2>1
<1>5. CASE Wait \/ ReadColor \/ NoPhotoresistor \/ DisableLightning \/ NextSample \/ Calculate
           \/ Restore \/ Feed \/ Daemon \/ UpdateStatusLed \/ Sleep \/ UNCHANGED vars
  <2>1. UNCHANGED left
    BY <1>5 DEF Wait, ReadColor, NoPhotoresistor, DisableLightning, NextSample, Calculate,
                Restore, Feed, Daemon, UpdateStatusLed, StoreColor, NotifyTask, Sleep, vars
  <2>. QED  BY <1>1, <2>1
<1>. QED
  BY <1>3, <1>4, <1>5 DEF Next, TaskStep

\* So they stay within the limits.
LEMMA CountedStep ==
  ASSUME TypeInv, Counted, [Next]_vars
  PROVE  Counted'
<1>1. left \in [Events -> Nat] /\ left' \in [Events -> Nat]
  BY TypeStep DEF TypeInv, TypeOK
<1>. QED  BY <1>1, LeftStep, LimitAssumption DEF Counted

\* The LED starts as it is remembered.
LEMMA ColorInit == Init => ColorInv
BY DEF Init, ColorInv, Shown

\* A step that turns the LED off for a measurement leaves the colour to be restored.
LEMMA ColorStep ==
  ASSUME TypeInv, Staged, Counted, ColorInv, [Next]_vars
  PROVE  ColorInv'
<1>0. /\ left \in [Events -> Nat] /\ left' \in [Events -> Nat] /\ Limit \in [Events -> Nat]
      /\ left["fault"] <= Limit["fault"] /\ left'["fault"] <= left["fault"] /\ "fault" \in Events
      /\ color \in Colors /\ "NO_COLOR" \in Colors
  BY TypeStep, LeftStep, LimitAssumption DEF TypeInv, TypeOK, Counted, Events, Colors
<1>1. ASSUME UNCHANGED <<lit, status_led_color>>
      PROVE  Shown(status_led_color) => Shown(status_led_color)'
  BY <1>0, <1>1 DEF Shown
<1>2. CASE Wait
  BY <1>1, <1>2 DEF Wait, Goto, ColorInv, Told, asking
<1>3. CASE ReadColor
  BY <1>1, <1>3 DEF ReadColor, Goto, ColorInv, Told, asking
<1>4. CASE SetStatusLed
  <2>1. lit' = {color} \ {"NO_COLOR"} \/ (lit' = {} /\ left'["fault"] < left["fault"])
    BY <1>0, <1>4, SetColorEffect DEF SetStatusLed
  <2>2. ASSUME Told PROVE Shown(status_led_color)'
    <3>1. color = status_led_color /\ status_led_color' = status_led_color
      BY <1>4, <2>2 DEF SetStatusLed, ColorInv, asking
    <3>. QED  BY <1>0, <2>1, <3>1 DEF Shown
  <2>. QED  BY <1>4, <2>2 DEF SetStatusLed, Goto, ColorInv, Told, asking
<1>5. CASE NoPhotoresistor \/ Feed
  BY <1>1, <1>5 DEF NoPhotoresistor, Feed, Goto, ColorInv, Told, asking
<1>6. CASE DisableLightning \/ DisableLed \/ InitAdc \/ Convert \/ NextSample \/ Calculate
  BY <1>6 DEF DisableLightning, DisableLed, InitAdc, Convert, NextSample, Calculate, Goto, ColorInv
<1>7. CASE Restore
  BY <1>7 DEF Restore, ColorInv, Told
<1>8. CASE Daemon
  <2>1. notification \subseteq notification'
    BY <1>8, DaemonType DEF TypeInv
  <2>. QED  BY <1>1, <1>8, <2>1 DEF Daemon, ColorInv, Told, round, asking
<1>9. CASE Ask \/ UpdateStatusLed
  BY <1>9 DEF Ask, UpdateStatusLed, StoreColor, NotifyTask, ColorInv, Told
<1>10. CASE Sleep \/ Late \/ UNCHANGED vars
  BY <1>1, <1>10 DEF Sleep, Late, vars, ColorInv, Told, round, asking
<1>. QED
  BY <1>2, <1>3, <1>4, <1>5, <1>6, <1>7, <1>8, <1>9, <1>10 DEF Next, TaskStep

\* A colour asked for is shown once nothing is under way, whichever requests
\* and measurements came in between.
THEOREM ColorShown == Spec => []LatestColorShown
<1>1. ColorInv => LatestColorShown
  BY DEF ColorInv, Told, Shown, LatestColorShown
<1>2. Spec => [](TypeInv /\ TimerInv /\ Counted)
  BY TypeInit, TypeStep, TimerInit, TimerStep, CountedInit, CountedStep, PTL DEF Spec
<1>3. TimerInv => Staged
  BY DEF TimerInv
<1>. QED  BY <1>1, <1>2, <1>3, ColorInit, ColorStep, PTL DEF Spec

-----------------------------------------------------------------------------
(* Time.  Lateness that is still to come counts as time that has passed:   *)
(* left["lag"] is the most there can be of it.                             *)

\* How long it takes to take n samples, when each of them times out.
Take(n) == (IterationPeriod + AdcTimeout) * n

\* One sample more takes a period and a time-out more.
LEMMA TakeOne ==
  ASSUME NEW n \in Nat
  PROVE  Take(n) \in Nat /\ Take(n + 1) = Take(n) + IterationPeriod + AdcTimeout
<1>. DEFINE each == IterationPeriod + AdcTimeout
<1>1. each \in Nat
  BY PeriodsAssumption
<1>2. Take(n) = each * n /\ Take(n + 1) = each * (n + 1)
  BY DEF Take
<1>. HIDE DEF each
<1>3. each * n \in Nat /\ each * (n + 1) = each * n + each
  BY <1>1
<1>. QED  BY <1>2, <1>3, PeriodsAssumption DEF each

\* The time now, and the end of the task's wait, leave the samples that are
\* still to be taken enough time before the limit.
Within(limit) ==
  /\ pc = "delay" =>
       /\ tick + AdcTimeout + Take(samples - 1) + left["lag"] < limit
       /\ wake + AdcTimeout + Take(samples - 1) + left["lag"] < limit
  /\ pc = "poll" =>
       /\ tick + Take(samples) + left["lag"] < limit
       /\ wake + Take(samples) + left["lag"] < limit

\* The lights stay off for the time of a whole measurement: before its timer is
\* started, while the command for it waits in the queue, and while it runs.
StaysDark ==
  /\ pc = "dark" => tick + InitialPeriod + Take(MeasurementCount) + left["lag"] < dark_until
  /\ is_reading =>
       /\ tick + Take(MeasurementCount) + left["lag"] < dark_until
       /\ Expiry + Take(MeasurementCount) + left["lag"] < dark_until
       /\ \A expiry \in Nat : commands = <<Started(expiry)>> =>
            expiry + Take(MeasurementCount) + left["lag"] < dark_until

LedOff == is_reading \/ pc \in {"delay", "poll"} => lit = {}

DarkInv == StaysDark /\ Within(dark_until) /\ LedOff

\* The task sleeps until wake at most, and takes the samples of one measurement
\* at most, before it feeds the watchdog.
FedInv ==
  /\ pc \in {"wait", "led", "set", "photoresistor", "dark"} =>
       tick + Take(MeasurementCount) + left["lag"] < fed + WatchdogReset
  /\ pc = "wait" => wake + Take(MeasurementCount) + left["lag"] < fed + WatchdogReset
  /\ Within(fed + WatchdogReset)
  /\ pc \in {"calculate", "restore", "feed"} => tick + left["lag"] < fed + WatchdogReset

\* The numbers, and what the lag does to them.
LEMMA Numbers ==
  ASSUME TypeInv, [Next]_vars
  PROVE  /\ tick \in Nat /\ wake \in Nat /\ samples \in Nat /\ dark_until \in Nat /\ fed \in Nat
         /\ Expiry \in Nat /\ commands \in Seq(Command)
         /\ left["lag"] \in Nat /\ left'["lag"] \in Nat /\ left'["lag"] <= left["lag"]
         /\ InitialPeriod \in Nat /\ IterationPeriod \in Nat /\ AdcTimeout \in Nat
         /\ MeasurementCount \in Nat \ {0} /\ WatchdogReset \in Nat /\ WatchdogTimeout \in Nat
         /\ Take(MeasurementCount) \in Nat
         /\ \A n \in Nat : Take(n) \in Nat
         /\ \A n \in Nat : Take(n + 1) = Take(n) + IterationPeriod + AdcTimeout
<1>1. /\ left \in [Events -> Nat] /\ left' \in [Events -> Nat] /\ "lag" \in Events
      /\ left'["lag"] <= left["lag"]
  BY TypeStep, LeftStep DEF TypeInv, TypeOK, Events
<1>2. Expiry \in Nat /\ commands \in Seq(Command)
  BY DEF TypeInv, TypeOK, TimersType, TimerNames, Expiry, Command
<1>3. tick \in Nat /\ wake \in Nat /\ samples \in Nat /\ dark_until \in Nat /\ fed \in Nat
  BY PeriodsAssumption DEF TypeInv, TypeOK
<1>4. \A n \in Nat : Take(n) \in Nat /\ Take(n + 1) = Take(n) + IterationPeriod + AdcTimeout
  BY TakeOne
<1>. QED  BY <1>1, <1>2, <1>3, <1>4, PeriodsAssumption

\* A task that sleeps is not late, and what is late has less lag to come.
LEMMA TimePasses ==
  ASSUME TypeInv
  PROVE  /\ Sleep => /\ tick' \in Nat /\ tick' <= wake /\ Asleep /\ commands = <<>>
                     /\ Expiry # Off => tick' <= Expiry
                     /\ left' = left
         /\ Late => tick' = tick + 1 /\ left'["lag"] = left["lag"] - 1
<1>0. left \in [Events -> Nat] /\ timers \in [TimerNames -> Nat] /\ wake \in Nat
  BY DEF TypeInv, TypeOK, TimersType
<1>1. ASSUME Sleep
      PROVE  /\ tick' \in Nat /\ tick' <= wake /\ Asleep /\ commands = <<>>
             /\ Expiry # Off => tick' <= Expiry
             /\ left' = left
  <2>1. PICK time \in Deadlines : (\A other \in Deadlines : time <= other) /\ tick' = time
    BY <1>1 DEF Sleep
  <2>2. wake \in Deadlines /\ (Expiry # Off => Expiry \in Deadlines) /\ time \in Nat
    BY <1>0 DEF Deadlines, TimerNames, Expiry
  <2>. QED  BY <1>1, <2>1, <2>2 DEF Sleep, Idle
<1>2. ASSUME Late
      PROVE  tick' = tick + 1 /\ left'["lag"] = left["lag"] - 1
  BY <1>0, <1>2 DEF Late, Happens, Events
<1>. QED  BY <1>1, <1>2

\* While the task takes samples it stays within a limit that it was within when
\* it began to.
LEMMA WithinStep ==
  ASSUME TypeInv, Staged, [Next]_vars, NEW limit \in Nat, Within(limit),
         InitAdc => tick + Take(MeasurementCount) + left["lag"] < limit
  PROVE  /\ pc' = "delay" =>
              /\ tick' + AdcTimeout + Take(samples' - 1) + left'["lag"] < limit
              /\ wake' + AdcTimeout + Take(samples' - 1) + left'["lag"] < limit
         /\ pc' = "poll" =>
              /\ tick' + Take(samples') + left'["lag"] < limit
              /\ wake' + Take(samples') + left'["lag"] < limit
<1>0. /\ tick \in Nat /\ wake \in Nat /\ samples \in Nat
      /\ left["lag"] \in Nat /\ left'["lag"] \in Nat /\ left'["lag"] <= left["lag"]
      /\ IterationPeriod \in Nat /\ AdcTimeout \in Nat /\ MeasurementCount \in Nat \ {0}
      /\ \A n \in Nat : Take(n) \in Nat
      /\ \A n \in Nat : Take(n + 1) = Take(n) + IterationPeriod + AdcTimeout
  BY Numbers
<1>1. \A n \in Nat \ {0} : /\ Take(n - 1) \in Nat
                           /\ Take(n) = Take(n - 1) + IterationPeriod + AdcTimeout
  <2>1. \A n \in Nat \ {0} : n - 1 \in Nat /\ (n - 1) + 1 = n
    OBVIOUS
  <2>. QED  BY <1>0, <2>1
<1>2. CASE pc' \notin {"delay", "poll"}
  BY <1>2
<1>3. CASE InitAdc
  <2>1. tick + Take(MeasurementCount) + left["lag"] < limit
    BY <1>3
  <2>2. tick' = tick /\ (pc' = "delay" => samples' = MeasurementCount /\ wake' = tick + IterationPeriod)
    BY <1>3 DEF InitAdc, Goto
  <2>3. pc' # "poll"
    BY <1>3 DEF InitAdc, Goto
  <2>4. /\ Take(MeasurementCount - 1) \in Nat
        /\ Take(MeasurementCount) = Take(MeasurementCount - 1) + IterationPeriod + AdcTimeout
    BY <1>0, <1>1
  <2>. QED  BY <1>0, <2>1, <2>2, <2>3, <2>4
<1>4. CASE Convert
  <2>1. samples > 0 /\ pc = "delay" /\ pc' = "poll" /\ tick' = tick /\ samples' = samples - 1
    BY <1>4 DEF Convert, Goto, TypeInv
  <2>2. /\ tick + AdcTimeout + Take(samples - 1) + left["lag"] < limit
        /\ wake + AdcTimeout + Take(samples - 1) + left["lag"] < limit
    BY <2>1 DEF Within
  <2>3. wake' \in {wake, tick + AdcTimeout} /\ Take(samples - 1) \in Nat
    <3>1. wake' = wake \/ wake' \in {wake, tick + AdcTimeout}
      BY <1>4 DEF Convert
    <3>. QED  BY <1>0, <1>1, <2>1, <3>1
  <2>. QED  BY <1>0, <2>1, <2>2, <2>3
<1>5. CASE NextSample
  <2>1. /\ pc = "poll" /\ tick' = tick /\ samples' = samples /\ left' = left
        /\ pc' # "poll"
        /\ pc' = "delay" => samples > 0 /\ wake' = tick + IterationPeriod
    BY <1>5 DEF NextSample, Goto
  <2>2. tick + Take(samples) + left["lag"] < limit
    BY <2>1 DEF Within
  <2>3. CASE pc' = "delay"
    <3>1. Take(samples - 1) \in Nat /\ Take(samples) = Take(samples - 1) + IterationPeriod + AdcTimeout
      BY <1>0, <1>1, <2>1, <2>3
    <3>. QED  BY <1>0, <2>1, <2>2, <3>1
  <2>. QED  BY <2>1, <2>3
<1>6. CASE UNCHANGED <<pc, wake, samples, tick>>
  BY <1>0, <1>1, <1>6 DEF Within, TypeInv
<1>7. CASE Sleep \/ Late
  <2>1. UNCHANGED <<pc, wake, samples>>
    BY <1>7 DEF Sleep, Late, round
  <2>2. \/ tick' \in Nat /\ tick' <= wake /\ left' = left
        \/ tick' = tick + 1 /\ left'["lag"] = left["lag"] - 1
    BY <1>7, TimePasses
  <2>3. CASE pc = "delay"
    <3>1. samples > 0 /\ Take(samples - 1) \in Nat
      BY <1>0, <1>1, <2>3 DEF TypeInv
    <3>2. /\ tick + AdcTimeout + Take(samples - 1) + left["lag"] < limit
          /\ wake + AdcTimeout + Take(samples - 1) + left["lag"] < limit
      BY <2>3 DEF Within
    <3>. QED  BY <1>0, <2>1, <2>2, <2>3, <3>1, <3>2
  <2>4. CASE pc = "poll"
    <3>1. /\ tick + Take(samples) + left["lag"] < limit
          /\ wake + Take(samples) + left["lag"] < limit /\ Take(samples) \in Nat
      BY <1>0, <2>4 DEF Within
    <3>. QED  BY <1>0, <2>1, <2>2, <2>4, <3>1
  <2>. QED  BY <2>1, <2>3, <2>4
<1>8. CASE Wait \/ ReadColor \/ SetStatusLed \/ NoPhotoresistor \/ DisableLightning \/ DisableLed
           \/ Calculate \/ Restore \/ Feed
  BY <1>2, <1>8 DEF Wait, ReadColor, SetStatusLed, NoPhotoresistor, DisableLightning, DisableLed,
                    Calculate, Restore, Feed, Goto
<1>9. CASE Daemon \/ Ask \/ UpdateStatusLed \/ UNCHANGED vars
  BY <1>6, <1>9 DEF Daemon, Ask, UpdateStatusLed, StoreColor, NotifyTask, vars, round
<1>. QED
  BY <1>3, <1>4, <1>5, <1>7, <1>8, <1>9 DEF Next, TaskStep

\* No measurement is under way at the start.
LEMMA DarkInit == Init => DarkInv
BY DEF Init, DarkInv, StaysDark, Within, LedOff

\* What the extension is told in the stage DISABLE_LIGHTNING lasts until the
\* measurement ends, and nothing else changes it.
LEMMA StaysDarkStep ==
  ASSUME TypeInv, TimerInv, Counted, StaysDark, [Next]_vars,
         Limit["lag"] < IterationPeriod + AdcTimeout
  PROVE  /\ StaysDark'
         /\ dark_until' = dark_until \/ pc' = "dark"
<1>0. /\ tick \in Nat /\ dark_until \in Nat /\ Expiry \in Nat
      /\ left["lag"] \in Nat /\ left'["lag"] \in Nat /\ left'["lag"] <= left["lag"]
      /\ left["lag"] <= Limit["lag"] /\ Limit["lag"] \in Nat
      /\ InitialPeriod \in Nat \ {0} /\ IterationPeriod \in Nat /\ AdcTimeout \in Nat
      /\ MeasurementCount \in Nat \ {0} /\ Take(MeasurementCount) \in Nat
      /\ Take(MeasurementCount + 1) = Take(MeasurementCount) + IterationPeriod + AdcTimeout
      /\ OneTimer /\ Staged
  BY Numbers, LimitAssumption, PeriodsAssumption DEF TimerInv, Counted, Events
<1>1. CASE UNCHANGED <<tick, dark_until, timers, commands>> /\ (is_reading' => is_reading)
           /\ (pc' = "dark" => pc = "dark")
  BY <1>0, <1>1 DEF StaysDark, Expiry, Started
<1>2. CASE Wait \/ ReadColor \/ SetStatusLed \/ NoPhotoresistor \/ InitAdc \/ Convert \/ NextSample
           \/ Restore \/ Feed \/ Ask \/ UpdateStatusLed \/ UNCHANGED vars
  <2>1. /\ UNCHANGED <<tick, dark_until, timers, commands>> /\ (is_reading' => is_reading)
        /\ (pc' = "dark" => pc = "dark")
    <3>1. CASE Wait \/ ReadColor \/ SetStatusLed \/ NoPhotoresistor
      BY <3>1 DEF Wait, ReadColor, SetStatusLed, NoPhotoresistor, Goto, daemon
    <3>2. CASE InitAdc
      BY <3>2 DEF InitAdc, Goto, daemon
    <3>4. CASE Convert \/ NextSample
      BY <3>4 DEF Convert, NextSample, Goto, daemon
    <3>3. CASE Restore \/ Feed \/ Ask \/ UpdateStatusLed \/ UNCHANGED vars
      BY <3>3 DEF Restore, Feed, Ask, UpdateStatusLed, StoreColor, NotifyTask, Goto, vars, round,
                  daemon
    <3>. QED  BY <1>2, <3>1, <3>2, <3>3, <3>4
  <2>. QED  BY <1>1, <2>1
<1>3. CASE DisableLightning
  <2>1. /\ pc' = "dark" /\ ~is_reading' /\ tick' = tick /\ left' = left
        /\ dark_until' = tick + disable_period
    BY <1>3 DEF DisableLightning, Reading, Goto
  <2>2. disable_period = InitialPeriod + Take(MeasurementCount + 1)
    BY DEF disable_period, Take
  <2>. QED  BY <1>0, <2>1, <2>2 DEF StaysDark
<1>4. CASE DisableLed
  <2>1. /\ pc = "dark" /\ pc' = "feed" /\ UNCHANGED <<tick, dark_until, timers>> /\ Measuring
        /\ ChangePeriod(InitialPeriod)
    BY <1>0, <1>4 DEF DisableLed, Goto, Staged, Measuring
  <2>2. commands' = <<Started(tick + InitialPeriod)>> /\ Expiry = Off
    BY <1>0, <2>1, StartedAgain
  <2>3. \A expiry : commands' = <<Started(expiry)>> => expiry = tick + InitialPeriod
    BY <2>2 DEF Started
  <2>4. tick + InitialPeriod + Take(MeasurementCount) + left["lag"] < dark_until
    BY <2>1 DEF StaysDark
  <2>5. Expiry' = 0
    BY <2>1, <2>2 DEF Expiry, Off
  <2>. QED  BY <1>0, <2>1, <2>3, <2>4, <2>5 DEF StaysDark, Started
<1>5. CASE Calculate
  <2>1. pc' = "restore" /\ ~is_reading' /\ dark_until' = dark_until
    BY <1>0, <1>5 DEF Calculate, Goto, Staged
  <2>. QED  BY <2>1 DEF StaysDark
<1>6. CASE Daemon
  <2>1. UNCHANGED <<pc, is_reading, tick, dark_until, left>>
    BY <1>6 DEF Daemon, round
  <2>2. /\ commands' = <<>>
        /\ Expiry' = 0 \/ (Expiry' \in Nat /\ commands = <<Started(Expiry')>>)
    <3>1. Expiry' \in Nat
      BY <1>6, DaemonType DEF TypeInv, Expiry, TimerNames
    <3>. QED  BY <1>0, <1>6, <3>1, DaemonEffect DEF Off
  <2>3. \A expiry : commands' # <<Started(expiry)>>
    BY <2>2
  <2>4. ASSUME is_reading PROVE Expiry' + Take(MeasurementCount) + left["lag"] < dark_until
    <3>1. tick + Take(MeasurementCount) + left["lag"] < dark_until
      BY <2>4 DEF StaysDark
    <3>2. CASE Expiry' \in Nat /\ commands = <<Started(Expiry')>>
      BY <2>4, <3>2 DEF StaysDark
    <3>. QED  BY <1>0, <2>2, <3>1, <3>2
  <2>. QED  BY <1>0, <2>1, <2>3, <2>4 DEF StaysDark
<1>7. CASE Sleep
  <2>1. /\ UNCHANGED <<pc, is_reading, dark_until, left, timers, commands, notification>>
        /\ tick' \in Nat /\ Asleep /\ commands = <<>> /\ (Expiry # Off => tick' <= Expiry)
    BY <1>7, TimePasses DEF Sleep, round, daemon
  <2>2. pc # "dark"
    BY <2>1 DEF Asleep
  <2>3. ASSUME is_reading PROVE Expiry # Off
    <3>1. pc = "wait" /\ notification = {}
      BY <1>0, <2>1, <2>3 DEF Asleep, Staged
    <3>. QED  BY <1>0, <2>1, <3>1 DEF OneTimer, Notified, Measuring
  <2>4. \A expiry : commands # <<Started(expiry)>>
    BY <2>1
  <2>5. Expiry' = Expiry
    BY <2>1 DEF Expiry
  <2>6. ASSUME is_reading PROVE tick' + Take(MeasurementCount) + left["lag"] < dark_until
    <3>1. Expiry + Take(MeasurementCount) + left["lag"] < dark_until
      BY <2>6 DEF StaysDark
    <3>2. tick' \in Nat /\ tick' <= Expiry
      BY <2>1, <2>3, <2>6
    <3>. QED  BY <1>0, <3>1, <3>2
  <2>7. \A expiry : commands' # <<Started(expiry)>>
    BY <2>1
  <2>. QED  BY <2>1, <2>2, <2>5, <2>6, <2>7 DEF StaysDark
<1>8. CASE Late
  <2>1. /\ UNCHANGED <<pc, is_reading, dark_until, timers, commands>>
        /\ tick' = tick + 1 /\ left'["lag"] = left["lag"] - 1
    BY <1>8, TimePasses DEF Late, round, daemon
  <2>2. Expiry' = Expiry
    BY <2>1 DEF Expiry
  <2>. QED  BY <1>0, <2>1, <2>2 DEF StaysDark, Started
<1>. QED
  BY <1>2, <1>3, <1>4, <1>5, <1>6, <1>7, <1>8 DEF Next, TaskStep

\* Nothing lights the LED between its stage and the end of the measurement.
LEMMA LedOffStep ==
  ASSUME TypeInv, Staged, LedOff, [Next]_vars
  PROVE  LedOff'
<1>1. CASE DisableLed
  <2>1. lit' = {}
    BY <1>1, SetColorEffect DEF DisableLed, TypeInv, TypeOK, Colors
  <2>. QED  BY <2>1 DEF LedOff
<1>2. CASE SetStatusLed
  BY <1>2 DEF SetStatusLed, Goto, Staged, LedOff
<1>3. CASE ~DisableLed /\ ~SetStatusLed
  <2>1. lit' = lit
    BY <1>3 DEF Next, TaskStep, Wait, ReadColor, NoPhotoresistor, DisableLightning, InitAdc, Convert,
                NextSample, Calculate, Restore, Feed, Daemon, Ask, UpdateStatusLed, StoreColor,
                NotifyTask, Sleep, Late, vars
  <2>2. is_reading' \/ pc' \in {"delay", "poll"} => is_reading \/ pc \in {"delay", "poll"}
    BY <1>3 DEF Next, TaskStep, Wait, ReadColor, NoPhotoresistor, DisableLightning, InitAdc, Convert,
                NextSample, Calculate, Restore, Feed, Daemon, Ask, UpdateStatusLed, StoreColor,
                NotifyTask, Sleep, Late, vars, round, Reading, Goto
  <2>. QED  BY <2>1, <2>2 DEF LedOff
<1>. QED  BY <1>1, <1>2, <1>3

\* With less lag than a sample takes, nothing gets ahead of the measurement.
LEMMA DarkStep ==
  ASSUME TypeInv, TimerInv, Counted, DarkInv, [Next]_vars,
         Limit["lag"] < IterationPeriod + AdcTimeout
  PROVE  DarkInv'
<1>1. StaysDark' /\ LedOff' /\ (dark_until' = dark_until \/ pc' = "dark")
  BY StaysDarkStep, LedOffStep DEF DarkInv, TimerInv
<1>2. CASE pc' = "dark"
  BY <1>1, <1>2 DEF DarkInv, Within
<1>3. CASE dark_until' = dark_until
  <2>1. InitAdc => tick + Take(MeasurementCount) + left["lag"] < dark_until
    BY DEF InitAdc, Reading, DarkInv, StaysDark
  <2>2. Staged /\ dark_until \in Nat /\ Within(dark_until)
    BY DEF TimerInv, DarkInv, TypeInv, TypeOK
  <2>3. /\ pc' = "delay" =>
              /\ tick' + AdcTimeout + Take(samples' - 1) + left'["lag"] < dark_until
              /\ wake' + AdcTimeout + Take(samples' - 1) + left'["lag"] < dark_until
        /\ pc' = "poll" =>
              /\ tick' + Take(samples') + left'["lag"] < dark_until
              /\ wake' + Take(samples') + left'["lag"] < dark_until
    BY <2>1, <2>2, WithinStep
  <2>4. Within(dark_until)'
    BY <1>3, <2>3 DEF Within
  <2>. QED  BY <1>1, <2>4 DEF DarkInv
<1>. QED  BY <1>1, <1>2, <1>3

\* When the task and the daemon are late by less than one sample takes, the ADC
\* converts in the dark: even when every sample times out, the status LED is off
\* and the extension has not switched its lights on again.
THEOREM DaylightMeasuredInTheDark ==
  ASSUME Limit["lag"] < IterationPeriod + AdcTimeout
  PROVE  Spec => []MeasuredInTheDark
<1>1. ASSUME TypeInv, DarkInv PROVE MeasuredInTheDark
  <2>0. /\ tick \in Nat /\ dark_until \in Nat /\ samples \in Nat /\ left["lag"] \in Nat
        /\ AdcTimeout \in Nat /\ (pc = "delay" => samples - 1 \in Nat)
    BY <1>1, PeriodsAssumption DEF TypeInv, TypeOK, Events
  <2>1. ASSUME pc = "delay" PROVE tick < dark_until
    <3>1. Take(samples - 1) \in Nat
      BY <2>0, <2>1, TakeOne
    <3>. QED  BY <1>1, <2>0, <2>1, <3>1 DEF DarkInv, Within
  <2>2. ASSUME pc = "poll" PROVE tick < dark_until
    <3>1. Take(samples) \in Nat
      BY <2>0, TakeOne
    <3>. QED  BY <1>1, <2>0, <2>2, <3>1 DEF DarkInv, Within
  <2>. QED  BY <1>1, <2>1, <2>2 DEF DarkInv, LedOff, MeasuredInTheDark
<1>2. Spec => [](TypeInv /\ TimerInv /\ Counted)
  BY TypeInit, TypeStep, TimerInit, TimerStep, CountedInit, CountedStep, PTL DEF Spec
<1>. QED  BY <1>1, <1>2, DarkInit, DarkStep, PTL DEF Spec

\* What the watchdog must wait for: the longest sleep, one measurement in which
\* every sample times out, and all that the task may be late.
FedInTime == WatchdogTimeout + Take(MeasurementCount) + Limit["lag"] < WatchdogReset

\* The watchdog is started by the time board_task waits.
LEMMA FedInit ==
  ASSUME FedInTime, Init
  PROVE  FedInv
<1>1. /\ tick = 0 /\ fed = 0 /\ pc = "wait" /\ wake = WatchdogTimeout /\ left["lag"] = Limit["lag"]
      /\ WatchdogTimeout \in Nat /\ WatchdogReset \in Nat /\ Limit["lag"] \in Nat
      /\ Take(MeasurementCount) \in Nat
  BY PeriodsAssumption, LimitAssumption, TakeOne DEF Init, Events
<1>. QED  BY <1>1 DEF FedInTime, FedInv, Within

\* Each round feeds the watchdog before it has waited and measured too long.
LEMMA FedStep ==
  ASSUME TypeInv, Staged, Counted, FedInv, FedInTime, [Next]_vars
  PROVE  FedInv'
<1>0. /\ tick \in Nat /\ wake \in Nat /\ fed \in Nat /\ samples \in Nat
      /\ left["lag"] \in Nat /\ left'["lag"] \in Nat /\ left'["lag"] <= left["lag"]
      /\ left["lag"] <= Limit["lag"] /\ Limit["lag"] \in Nat
      /\ WatchdogReset \in Nat /\ WatchdogTimeout \in Nat
      /\ Take(MeasurementCount) \in Nat /\ Take(samples) \in Nat
  BY Numbers, LimitAssumption DEF Counted, Events
<1>. DEFINE limit == fed + WatchdogReset
            Early == {"wait", "led", "set", "photoresistor", "dark"}
            Over == {"calculate", "restore", "feed"}
<1>1. CASE Feed
  <2>1. /\ pc' = "wait" /\ tick' = tick /\ fed' = tick /\ wake' = tick + WatchdogTimeout /\ left' = left
    BY <1>1 DEF Feed, Goto
  <2>. QED  BY <1>0, <2>1 DEF FedInv, FedInTime, Within
<1>2. ASSUME ~Feed
      PROVE  FedInv'
  <2>1. fed' = fed
    BY <1>2 DEF Next, TaskStep, Wait, ReadColor, SetStatusLed, NoPhotoresistor, DisableLightning,
                DisableLed, InitAdc, Convert, NextSample, Calculate, Restore, Daemon, Ask,
                UpdateStatusLed, StoreColor, NotifyTask, Sleep, Late, vars
  <2>2. Within(fed + WatchdogReset)'
    <3>1. InitAdc => tick + Take(MeasurementCount) + left["lag"] < limit
      BY DEF InitAdc, Reading, FedInv
    <3>2. limit \in Nat /\ Within(limit)
      BY <1>0 DEF FedInv
    <3>. HIDE DEF limit
    <3>3. /\ pc' = "delay" =>
               /\ tick' + AdcTimeout + Take(samples' - 1) + left'["lag"] < limit
               /\ wake' + AdcTimeout + Take(samples' - 1) + left'["lag"] < limit
          /\ pc' = "poll" =>
               /\ tick' + Take(samples') + left'["lag"] < limit
               /\ wake' + Take(samples') + left'["lag"] < limit
      BY <3>1, <3>2, WithinStep
    <3>. QED  BY <2>1, <3>3 DEF Within, limit
  <2>3. ASSUME pc \in Early, tick' = tick, pc' \in Early, pc' = "wait" => pc = "wait" /\ wake' = wake
        PROVE  FedInv'
    BY <1>0, <2>1, <2>2, <2>3 DEF FedInv
  <2>4. ASSUME tick' = tick, tick + left["lag"] < limit, pc' \notin Early
        PROVE  FedInv'
    BY <1>0, <2>1, <2>2, <2>4 DEF FedInv
  <2>5. CASE Wait \/ ReadColor \/ SetStatusLed \/ DisableLightning
    <3>1. pc \in Early /\ pc' \in Early \ {"wait"} /\ tick' = tick
      BY <2>5 DEF Wait, ReadColor, SetStatusLed, DisableLightning, Reading, Goto
    <3>. QED  BY <2>3, <3>1
  <2>6. CASE NoPhotoresistor \/ DisableLed \/ InitAdc
    <3>1. pc \in Early /\ pc' \notin Early /\ tick' = tick
      BY <2>6 DEF NoPhotoresistor, DisableLed, InitAdc, Reading, Goto
    <3>2. tick + Take(MeasurementCount) + left["lag"] < limit
      BY <3>1 DEF FedInv
    <3>. QED  BY <1>0, <2>4, <3>1, <3>2
  <2>7. CASE Convert
    <3>1. pc' = "poll"
      BY <2>7 DEF Convert, Goto
    <3>. QED  BY <2>2, <3>1 DEF FedInv
  <2>8. CASE NextSample
    <3>1. pc = "poll" /\ pc' \notin Early /\ tick' = tick
      BY <2>8 DEF NextSample, Goto
    <3>2. tick + Take(samples) + left["lag"] < limit
      BY <3>1 DEF FedInv, Within
    <3>. QED  BY <1>0, <2>4, <3>1, <3>2
  <2>9. CASE Calculate \/ Restore
    <3>1. pc \in Over /\ pc' \notin Early /\ tick' = tick
      BY <2>9 DEF Calculate, Restore, Goto
    <3>2. tick + left["lag"] < limit
      BY <3>1 DEF FedInv
    <3>. QED  BY <2>4, <3>1, <3>2
  <2>10. CASE Daemon \/ Ask \/ UpdateStatusLed \/ UNCHANGED vars
    <3>1. UNCHANGED <<pc, wake, tick>>
      BY <2>10 DEF Daemon, Ask, UpdateStatusLed, StoreColor, NotifyTask, vars, round
    <3>. QED  BY <1>0, <2>1, <2>2, <3>1 DEF FedInv
  <2>11. CASE Sleep
    <3>1. /\ UNCHANGED <<pc, wake, left>> /\ tick' \in Nat /\ tick' <= wake
          /\ pc \in {"wait", "delay", "poll"}
      BY <2>11, TimePasses DEF Sleep, Asleep, round
    <3>. QED  BY <1>0, <2>1, <2>2, <3>1 DEF FedInv
  <2>12. CASE Late
    <3>1. UNCHANGED <<pc, wake>> /\ tick' = tick + 1 /\ left'["lag"] = left["lag"] - 1
      BY <2>12, TimePasses DEF Late, round
    <3>. QED  BY <1>0, <2>1, <2>2, <3>1 DEF FedInv
  <2>. QED
    BY <1>2, <2>5, <2>6, <2>7, <2>8, <2>9, <2>10, <2>11, <2>12 DEF Next, TaskStep
<1>. QED  BY <1>1, <1>2

\* The watchdog is fed before it resets the chip, when its period is longer than
\* the task sleeps, measures and is late.
THEOREM WatchdogAlwaysFed ==
  ASSUME WatchdogTimeout + (IterationPeriod + AdcTimeout) * MeasurementCount + Limit["lag"]
           < WatchdogReset
  PROVE  Spec => []WatchdogFed
<1>1. FedInTime
  BY DEF FedInTime, Take
<1>2. ASSUME TypeInv, FedInv PROVE WatchdogFed
  <2>0. /\ tick \in Nat /\ fed \in Nat /\ samples \in Nat /\ left["lag"] \in Nat
        /\ AdcTimeout \in Nat /\ WatchdogReset \in Nat /\ (pc = "delay" => samples - 1 \in Nat)
    BY <1>2, PeriodsAssumption DEF TypeInv, TypeOK, Events
  <2>1. Take(MeasurementCount) \in Nat /\ Take(samples) \in Nat
        /\ (pc = "delay" => Take(samples - 1) \in Nat)
    BY <2>0, TakeOne, PeriodsAssumption
  <2>2. pc \in {"wait", "led", "set", "photoresistor", "dark", "delay", "poll",
                "calculate", "restore", "feed"}
    BY <1>2 DEF TypeInv, TypeOK
  <2>3. tick < fed + WatchdogReset
    BY <1>2, <2>0, <2>1, <2>2 DEF FedInv, Within
  <2>. QED  BY <2>0, <2>3 DEF WatchdogFed
<1>3. Spec => [](TypeInv /\ TimerInv /\ Counted)
  BY TypeInit, TypeStep, TimerInit, TimerStep, CountedInit, CountedStep, PTL DEF Spec
<1>4. TimerInv => Staged
  BY DEF TimerInv
<1>5. Init => FedInv
  BY <1>1, FedInit
<1>6. TypeInv /\ Staged /\ Counted /\ FedInv /\ [Next]_vars => FedInv'
  BY <1>1, FedStep
<1>. QED  BY <1>2, <1>3, <1>4, <1>5, <1>6, PTL DEF Spec
=============================================================================
