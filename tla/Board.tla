-------------------------------- MODULE Board --------------------------------
(***************************************************************************)
(* board_task of board.c: the status LED, the measurement of the daylight  *)
(* with every light of the board switched off, and the watchdog; with the  *)
(* task of the board's extension that asks for colours, the timer daemon,  *)
(* the two hardware timers of the LED and the ADC.                         *)
(*                                                                         *)
(* A unit of time is 100 ms.  Time passes while the task sleeps; while     *)
(* something is ready to run it may be late by no more than lag units.     *)
(*                                                                         *)
(* The remote control is left out: both boards switch it off.  Dark is     *)
(* never refused: both boards answer a measurement with true.              *)
(***************************************************************************)
EXTENDS Integers, Sequences, FiniteSets

CONSTANTS InitialPeriod,    \* from dark to the first sample
          IterationPeriod, AdcTimeout, MeasurementCount,
          DefaultPeriod,    \* to the next measurement, when one failed
          Periods,          \* what the node may answer instead
          WatchdogTimeout,  \* the longest wait of the task
          WatchdogReset,    \* after which the watchdog resets the chip
          Limit,            \* how often each event may happen
          Horizon           \* bound: time stops here

Colors == {"BLUE_COLOR", "GREEN_COLOR", "RED_COLOR", "NO_COLOR"}
Events == {"update", "fault", "lag"}

ASSUME PeriodsAssumption ==
  /\ {InitialPeriod, IterationPeriod, AdcTimeout, MeasurementCount, DefaultPeriod,
      WatchdogTimeout, WatchdogReset} \subseteq Nat \ {0}
  /\ Periods \subseteq Nat \ {0} /\ Horizon \in Nat
ASSUME LimitAssumption == Limit \in [Events -> Nat]

VARIABLES tick, notification,
          pc, bits,             \* where the task is, and the bits of its round
          color,                \* the colour of this round
          is_reading,           \* and the stage READ_DATA
          wake,                 \* when the task's wait or delay ends
          samples, valid,       \* samples to take, and samples taken
          status_led_color,     \* the colour asked for last
          caller, wanted,       \* the extension in board_update_status_led
          lit,                  \* the LEDs driven by the hardware timers
          dark_until,           \* how long the extension keeps its lights off
          fed,                  \* when the watchdog was fed
          timers, commands,     \* the timer daemon's
          left                  \* events that may still happen

round  == <<pc, bits, color, is_reading, wake, samples, valid>>
asking == <<status_led_color, caller, wanted>>
daemon == <<timers, commands>>
vars == <<tick, notification, round, asking, lit, dark_until, fed, daemon, left>>

TimerNames == {"photoresistor"}
BitOf(timer) == "PHOTORESISTOR"
Bits == {"STATUS_LED", "PHOTORESISTOR"}

INSTANCE SoftTimers

Happens(event) ==
  /\ left[event] > 0
  /\ left' = [left EXCEPT ![event] = @ - 1]

Goto(label) == pc' = label
ChangePeriod(period) == commands' = Append(commands, Start("photoresistor", period))

\* The initialisation switches the blue LED on and starts the first period.
Init ==
  /\ tick = 0 /\ notification = {}
  /\ pc = "wait" /\ bits = {} /\ color = "BLUE_COLOR" /\ is_reading = FALSE
  /\ wake = WatchdogTimeout /\ samples = 0 /\ valid = 0
  /\ status_led_color = "BLUE_COLOR" /\ caller = "idle" /\ wanted = "BLUE_COLOR"
  /\ lit = {"BLUE_COLOR"}
  /\ dark_until = 0 /\ fed = 0
  /\ timers = [timer \in TimerNames |-> Off]
  /\ commands = <<Start("photoresistor", DefaultPeriod)>>
  /\ left = Limit

-----------------------------------------------------------------------------
(* board_update_status_led, called by the task of the extension.           *)

Ask ==
  /\ caller = "idle"
  /\ Happens("update")
  /\ \E c \in Colors \ {status_led_color} : wanted' = c
  /\ caller' = "write"
  /\ UNCHANGED <<tick, notification, round, status_led_color, lit, dark_until, fed, daemon>>

\* Mutant: the task is notified before the colour is stored.
MutantUpdateStatusLed ==
  \/ /\ caller = "write"
     /\ notification' = notification \cup {"STATUS_LED"}
     /\ caller' = "notify"
     /\ UNCHANGED <<tick, round, status_led_color, wanted, lit, dark_until, fed, daemon, left>>
  \/ /\ caller = "notify"
     /\ status_led_color' = wanted
     /\ caller' = "idle"
     /\ UNCHANGED <<tick, notification, round, wanted, lit, dark_until, fed, daemon, left>>

StoreColor ==
  /\ caller = "write"
  /\ status_led_color' = wanted
  /\ caller' = "notify"
  /\ UNCHANGED <<tick, notification, round, wanted, lit, dark_until, fed, daemon, left>>

NotifyTask ==
  /\ caller = "notify"
  /\ notification' = notification \cup {"STATUS_LED"}
  /\ caller' = "idle"
  /\ UNCHANGED <<tick, round, status_led_color, wanted, lit, dark_until, fed, daemon, left>>

UpdateStatusLed == StoreColor \/ NotifyTask

-----------------------------------------------------------------------------
(* The hardware timers: the green LED is a channel of timer 2, red and     *)
(* blue are the channels of timer 3, which is initialised for each change. *)

StartTimer2(c) == lit' = {c}
StartTimer3(c) == lit' = {c}

\* board_set_status_led_color: both timers stop, one channel starts; when that
\* fails no LED is lit.
SetColor(c) ==
  \/ /\ \/ c = "NO_COLOR" /\ lit' = {}
        \/ c = "GREEN_COLOR" /\ StartTimer2(c)
        \/ c \in {"BLUE_COLOR", "RED_COLOR"} /\ StartTimer3(c)
     /\ UNCHANGED left
  \/ /\ c # "NO_COLOR"
     /\ Happens("fault")
     /\ lit' = {}

-----------------------------------------------------------------------------
(* board_task, one round.                                                  *)

Wait ==
  /\ pc = "wait"
  /\ notification # {} \/ tick >= wake
  /\ bits' = notification
  /\ notification' = {}
  /\ Goto("led")
  /\ UNCHANGED <<tick, color, is_reading, wake, samples, valid, asking, lit, dark_until, fed, daemon, left>>

ReadColor ==
  /\ pc = "led"
  /\ IF "STATUS_LED" \in bits /\ ~is_reading
     THEN color' = status_led_color /\ Goto("set")
     ELSE Goto("photoresistor") /\ UNCHANGED color
  /\ UNCHANGED <<tick, notification, bits, is_reading, wake, samples, valid, asking, lit, dark_until, fed, daemon, left>>

SetStatusLed ==
  /\ pc = "set"
  /\ SetColor(color)
  /\ Goto("photoresistor")
  /\ UNCHANGED <<tick, notification, bits, color, is_reading, wake, samples, valid, asking, dark_until, fed, daemon>>

NoPhotoresistor ==
  /\ pc = "photoresistor" /\ "PHOTORESISTOR" \notin bits
  /\ Goto("feed")
  /\ UNCHANGED <<tick, notification, bits, color, is_reading, wake, samples, valid, asking, lit, dark_until, fed, daemon, left>>

Reading(stage) == pc = "photoresistor" /\ "PHOTORESISTOR" \in bits /\ is_reading = stage

disable_period ==
  InitialPeriod + (IterationPeriod + AdcTimeout) * (MeasurementCount + 1)

\* Mutant: the lights stay off for the samples, and no longer.
MutantDisableLightning ==
  /\ Reading(FALSE)
  /\ dark_until' = tick + InitialPeriod + (IterationPeriod + AdcTimeout) * MeasurementCount
  /\ Goto("dark")
  /\ UNCHANGED <<tick, notification, bits, color, is_reading, wake, samples, valid, asking, lit, fed, daemon, left>>

\* The stage DISABLE_LIGHTNING: first the lights of the extension.
DisableLightning ==
  /\ Reading(FALSE)
  /\ dark_until' = tick + disable_period
  /\ Goto("dark")
  /\ UNCHANGED <<tick, notification, bits, color, is_reading, wake, samples, valid, asking, lit, fed, daemon, left>>

\* Then the status LED.
DisableLed ==
  /\ pc = "dark"
  /\ SetColor("NO_COLOR")
  /\ is_reading' = TRUE
  /\ ChangePeriod(InitialPeriod)
  /\ Goto("feed")
  /\ UNCHANGED <<tick, notification, bits, color, wake, samples, valid, asking, dark_until, fed, timers>>

\* The stage READ_DATA.  Without the ADC there is nothing to calculate.
InitAdc ==
  /\ Reading(TRUE)
  /\ is_reading' = FALSE
  /\ valid' = 0
  /\ \/ /\ samples' = MeasurementCount /\ wake' = tick + IterationPeriod
        /\ Goto("delay")
        /\ UNCHANGED left
     \/ /\ Happens("fault")
        /\ Goto("calculate")
        /\ UNCHANGED <<samples, wake>>
  /\ UNCHANGED <<tick, notification, bits, color, asking, lit, dark_until, fed, daemon>>

\* A conversion takes microseconds; the poll for it fails at once or times out.
Convert ==
  /\ pc = "delay" /\ tick >= wake
  /\ \/ valid' = valid + 1 /\ UNCHANGED <<wake, left>>
     \/ wake' \in {wake, tick + AdcTimeout} /\ Happens("fault") /\ UNCHANGED valid
  /\ samples' = samples - 1
  /\ Goto("poll")
  /\ UNCHANGED <<tick, notification, bits, color, is_reading, asking, lit, dark_until, fed, daemon>>

\* Mutant: one sample too many.
MutantNextSample ==
  /\ pc = "poll" /\ tick >= wake
  /\ IF samples >= 0
     THEN wake' = tick + IterationPeriod /\ Goto("delay")
     ELSE Goto("calculate") /\ UNCHANGED wake
  /\ UNCHANGED <<tick, notification, bits, color, is_reading, samples, valid, asking, lit, dark_until, fed, daemon, left>>

NextSample ==
  /\ pc = "poll" /\ tick >= wake
  /\ IF samples > 0
     THEN wake' = tick + IterationPeriod /\ Goto("delay")
     ELSE Goto("calculate") /\ UNCHANGED wake
  /\ UNCHANGED <<tick, notification, bits, color, is_reading, samples, valid, asking, lit, dark_until, fed, daemon, left>>

\* Mutant: a measurement without samples does not start the timer.
MutantCalculate ==
  /\ pc = "calculate"
  /\ IF valid > 0
     THEN \E period \in Periods : ChangePeriod(period)
     ELSE UNCHANGED commands
  /\ Goto("restore")
  /\ UNCHANGED <<tick, notification, bits, color, is_reading, wake, samples, valid, asking, lit, dark_until, fed, timers, left>>

\* The mean of the samples goes to the node, which names the next period.
Calculate ==
  /\ pc = "calculate"
  /\ IF valid > 0
     THEN \E period \in Periods : ChangePeriod(period)
     ELSE ChangePeriod(DefaultPeriod)
  /\ Goto("restore")
  /\ UNCHANGED <<tick, notification, bits, color, is_reading, wake, samples, valid, asking, lit, dark_until, fed, timers, left>>

Restore ==
  /\ pc = "restore"
  /\ notification' = notification \cup {"STATUS_LED"}
  /\ Goto("feed")
  /\ UNCHANGED <<tick, bits, color, is_reading, wake, samples, valid, asking, lit, dark_until, fed, daemon, left>>

\* Mutant: the watchdog is fed after work only.
MutantFeed ==
  /\ pc = "feed"
  /\ fed' = IF bits = {} THEN fed ELSE tick
  /\ wake' = tick + WatchdogTimeout
  /\ Goto("wait")
  /\ UNCHANGED <<tick, notification, bits, color, is_reading, samples, valid, asking, lit, dark_until, daemon, left>>

Feed ==
  /\ pc = "feed"
  /\ fed' = tick
  /\ wake' = tick + WatchdogTimeout
  /\ Goto("wait")
  /\ UNCHANGED <<tick, notification, bits, color, is_reading, samples, valid, asking, lit, dark_until, daemon, left>>

TaskStep ==
  \/ Wait \/ ReadColor \/ SetStatusLed \/ NoPhotoresistor
  \/ DisableLightning \/ DisableLed \/ InitAdc \/ Convert \/ NextSample
  \/ Calculate \/ Restore \/ Feed

-----------------------------------------------------------------------------
(* Time.                                                                   *)

Asleep ==
  \/ pc = "wait" /\ notification = {} /\ tick < wake
  \/ pc \in {"delay", "poll"} /\ tick < wake

\* The daemon has the lowest priority.
Daemon ==
  /\ Asleep
  /\ ExecuteCommand \/ \E timer \in TimerNames : ExpireTimer(timer)
  /\ UNCHANGED <<tick, round, asking, lit, dark_until, fed, left>>

Deadlines == {wake} \cup {timers[timer] : timer \in {t \in TimerNames : timers[t] # Off}}

Idle == Asleep /\ commands = <<>> /\ \A time \in Deadlines : time > tick

\* Nothing but the extension can run before the next deadline.
Sleep ==
  /\ Idle
  /\ \E time \in Deadlines :
       /\ \A other \in Deadlines : time <= other
       /\ time <= Horizon
       /\ tick' = time
  /\ UNCHANGED <<notification, round, asking, lit, dark_until, fed, daemon, left>>

Late ==
  /\ ~Idle
  /\ Happens("lag")
  /\ tick' = tick + 1
  /\ UNCHANGED <<notification, round, asking, lit, dark_until, fed, daemon>>

Next == TaskStep \/ Daemon \/ Ask \/ UpdateStatusLed \/ Sleep \/ Late

Spec == Init /\ [][Next]_vars

-----------------------------------------------------------------------------
(* Properties.                                                             *)

TypeOK ==
  /\ tick \in Nat /\ notification \subseteq Bits
  /\ pc \in {"wait", "led", "set", "photoresistor", "dark", "delay", "poll",
             "calculate", "restore", "feed"}
  /\ bits \subseteq Bits /\ color \in Colors /\ is_reading \in BOOLEAN
  /\ wake \in Nat /\ samples \in 0 .. MeasurementCount /\ valid \in Nat
  /\ status_led_color \in Colors /\ wanted \in Colors
  /\ caller \in {"idle", "write", "notify"}
  /\ lit \subseteq Colors \ {"NO_COLOR"}
  /\ dark_until \in Nat /\ fed \in Nat
  /\ TimersType /\ left \in [Events -> Nat]

\* The ADC converts in the dark: the status LED is off and the extension has
\* not switched its lights on again, even when every sample times out and the
\* timers are late.
MeasuredInTheDark ==
  pc \in {"delay", "poll"} => lit = {} /\ tick < dark_until

\* Whatever measurements and requests interleave, a colour asked for is shown
\* once nothing is under way; a timer that fails leaves no LED lit.
LatestColorShown ==
  pc = "wait" /\ "STATUS_LED" \notin notification /\ caller = "idle" /\ ~is_reading =>
    \/ lit = {status_led_color} \ {"NO_COLOR"}
    \/ left["fault"] < Limit["fault"] /\ lit = {}

\* The daylight is measured again: a measurement is under way, or the timer of
\* the next one is running, whatever failed in the last one.
MeasuredAgain ==
  \/ Scheduled("photoresistor")
  \/ "PHOTORESISTOR" \in notification
  \/ "PHOTORESISTOR" \in bits /\ pc \notin {"wait", "restore", "feed"}

\* A task that waits, measures and never hangs feeds the watchdog in time.
WatchdogFed == tick - fed < WatchdogReset
=============================================================================
