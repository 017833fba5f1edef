------------------------------ MODULE BoardB02 ------------------------------
(***************************************************************************)
(* board_B02.c: the task that turns notifications into the lamps, the      *)
(* light strip, the display, the buzzer and the front PIR of node B02; the *)
(* tasks that call into it; the interrupts; and its software timers.       *)
(*                                                                         *)
(* The lamps (front, veranda, white strip) are handled alike, in handlers  *)
(* of their own that touch nothing in common, so one operator stands for   *)
(* the three.  The front PIR hangs on the port expander, whose interrupt   *)
(* line stays high from a change of the PIR until its capture registers    *)
(* are read, and raises an interrupt by its rising edge only.              *)
(***************************************************************************)
EXTENDS NodeB02, SequencesExt

CONSTANTS Lamps,            \* front_light, veranda_light, light_strip_white
          Received,         \* node messages that may arrive
          Samples,          \* is_valid of the temperature readings
          Darkness,         \* judgements of the photoresistor
          Moving,           \* the PIRs that may see something move
          HorizonMs,        \* bound: time stops here
          MaxCalls,         \* bound: calls of the node task and the board task
          PIR_HYSTERESIS_MS,
          DisableMs,        \* how long a measurement keeps the lights off
          StripSteps, StripDelay,       \* 40 and 10 steps of green and blue
          StripMs, RedOnMs, RedOffMs, DisplayBootMs, FrontPirMs, BuzzerMs,
          NODE_B02_TEMPERATURE_PERIOD_MS

ASSUME BoardB02Assumption ==
  /\ HorizonMs \in Nat /\ MaxCalls \in Nat /\ PIR_HYSTERESIS_MS \in Nat
  /\ StripSteps \in Nat /\ StripDelay \in Nat
  /\ {DisableMs, StripMs, RedOnMs, RedOffMs, DisplayBootMs, FrontPirMs, BuzzerMs,
      NODE_B02_TEMPERATURE_PERIOD_MS} \subseteq Nat \ {0}
  /\ \A m \in Received :   \* the senders know no other modes
       /\ DOMAIN m = {"dest", "cmd", "value"}
       /\ m.cmd = "SET_MODE" => m.value \in Modes
  /\ Moving \subseteq {"DOOR_PIR", "FRONT_PIR", "VERANDA_PIR"}
  /\ Samples \subseteq BOOLEAN /\ Darkness \subseteq BOOLEAN

VARIABLES tick,             \* the tick counter
          node,             \* NodeB02's struct
          notification,     \* the notification bits pending for the task
          pc,               \* where board_B02_task is in its round
          bits,             \* the bits of this round still to be handled
          tick_count_ms,    \* the clock of this round
          node_state,       \* the outputs asked for in this round
          lights,           \* flags, counters and power of what gives light
          buzzer,           \* is_buzzer_enabled, and the buzzer's power
          front_pir,        \* [enabled, listening, line]: flag, EXTI_2, INT line
          status_led,       \* the colour asked for last
          inputs_ready,     \* are_pirs_initialized
          last_tick,        \* when each interrupt was last heard
          timers,           \* timers[t]: when t expires, or Off
          commands,         \* commands waiting for the timer daemon
          calls             \* calls of other tasks so far

round   == <<bits, tick_count_ms, node_state>>
outputs == <<lights, buzzer, front_pir, status_led>>
daemon  == <<timers, commands>>
inputs  == <<inputs_ready, last_tick>>
vars == <<tick, node, notification, pc, round, outputs, daemon, inputs, calls>>

OtherTimers == {"block", "strip", "red", "display", "buzzer", "temperature", "front_pir"}
TimerNames  == Lamps \cup OtherTimers

\* The notification each timer's callback sends; a lamp's bears its name.
BitOf(timer) ==
  CASE timer = "block"       -> "LIGHTNING_UNBLOCK"
    [] timer = "strip"       -> "LIGHT_STRIP_GREEN_BLUE"
    [] timer = "red"         -> "LIGHT_STRIP_RED"
    [] timer = "display"     -> "DISPLAY"
    [] timer = "buzzer"      -> "BUZZER"
    [] timer = "temperature" -> "TEMPERATURE_SENSOR"
    [] timer = "front_pir"   -> "FRONT_PIR_CONFIG"
    [] OTHER                 -> timer

Movements  == {"DOOR_PIR", "FRONT_PIR", "VERANDA_PIR"}
SwitchBits == {"LIGHTNING_BLOCK", "LIGHTNING_UNBLOCK", "LIGHT_STRIP_GREEN_BLUE",
               "LIGHT_STRIP_RED", "DISPLAY", "BUZZER"}
LightBits  == Lamps \cup SwitchBits
SensorBits == {"TEMPERATURE_SENSOR", "FRONT_PIR_POWER", "FRONT_PIR_CONFIG"}
Bits       == Movements \cup LightBits \cup SensorBits \cup {"UPDATE_STATE"}

\* A lamp has a timer and a bit of its own.
ASSUME LampAssumption ==
  /\ IsFiniteSet(Lamps)
  /\ Lamps \cap (OtherTimers \cup Movements \cup SwitchBits \cup SensorBits \cup {"UPDATE_STATE"}) = {}

INSTANCE SoftTimers

\* The bits of a round are removed from it as they are handled.
Pending(bit) == bit \in notification \cup bits

\* The task will yet be notified by the timer, or has been and is to act on it.
WillRing(timer) == Scheduled(timer) \/ Pending(BitOf(timer))

\* Outside of the round's last part no state is asked for.
NoState == StateOf(NodeInit, 0)

Init ==
  /\ tick = 0 /\ node = NodeInit /\ notification = {}
  /\ pc = "wait" /\ bits = {} /\ tick_count_ms = 0 /\ node_state = NoState
  /\ lights = [lamp |-> [l \in Lamps |-> FALSE], blocked |-> FALSE,
               display |-> FALSE, stage |-> "ENABLE_POWER",
               counter |-> 0, is_green |-> FALSE, green |-> FALSE, blue |-> FALSE,
               is_red |-> FALSE, is_even |-> TRUE, red |-> FALSE]
  /\ buzzer = FALSE /\ status_led = "NO_COLOR"
  /\ front_pir = [enabled |-> FALSE, listening |-> FALSE, line |-> FALSE]
  /\ inputs_ready = FALSE
  /\ timers = [t \in TimerNames |-> Off]
  /\ commands = <<Start("temperature", NODE_B02_TEMPERATURE_PERIOD_MS)>>
  /\ last_tick = [m \in Movements |-> 0] /\ calls = 0

-----------------------------------------------------------------------------
(* The round of board_B02_task.                                            *)

Wait ==
  /\ pc = "wait" /\ notification # {}
  /\ bits' = notification /\ notification' = {}
  /\ tick_count_ms' = tick /\ pc' = "pirs"
  /\ UNCHANGED <<tick, node, node_state, outputs, daemon, inputs, calls>>

DoorPir ==
  /\ pc = "pirs" /\ "DOOR_PIR" \in bits
  /\ bits' = bits \ {"DOOR_PIR"}
  /\ node' = ProcessDoorMovement(node, tick_count_ms)
  /\ UNCHANGED <<tick, notification, pc, tick_count_ms, node_state, outputs, daemon,
                 inputs, calls>>

\* The captures are read, which clears the line; reads that fail are logged.
CaptureRead == front_pir' \in {front_pir, [front_pir EXCEPT !.line = FALSE]}

\* The captured level of the PIR, or what a failing read leaves in its place,
\* says whether this is a movement.
FrontPir ==
  /\ pc = "pirs" /\ "DOOR_PIR" \notin bits /\ "FRONT_PIR" \in bits
  /\ bits' = bits \ {"FRONT_PIR"}
  /\ CaptureRead
  /\ node' \in {node, ProcessFrontMovement(node, tick_count_ms)}
  /\ UNCHANGED <<tick, notification, pc, tick_count_ms, node_state, lights, buzzer,
                 status_led, daemon, inputs, calls>>

VerandaPir ==
  /\ pc = "pirs" /\ bits \cap Movements = {"VERANDA_PIR"}
  /\ bits' = bits \ {"VERANDA_PIR"}
  /\ node' = ProcessVerandaMovement(node, tick_count_ms)
  /\ UNCHANGED <<tick, notification, pc, tick_count_ms, node_state, outputs, daemon,
                 inputs, calls>>

\* What the bits of a round do to the lights l, one after the other; l.cmds
\* are the commands sent so far.
Lights ==
  [lamp |-> lights.lamp, blocked |-> lights.blocked, display |-> lights.display,
   stage |-> lights.stage, counter |-> lights.counter, is_green |-> lights.is_green,
   green |-> lights.green, blue |-> lights.blue, is_red |-> lights.is_red,
   is_even |-> lights.is_even, red |-> lights.red, cmds |-> commands]

Send(l, cmd) == [l EXCEPT !.cmds = Append(@, cmd)]

MutantBlock(l) ==   \* the lights are switched off, the strip's colours are not
  IF "LIGHTNING_BLOCK" \notin bits \/ l.blocked THEN l
  ELSE [l EXCEPT !.blocked = TRUE, !.lamp = [x \in Lamps |-> FALSE],
                 !.counter = 0, !.is_red = FALSE, !.red = FALSE, !.display = FALSE,
                 !.cmds = @ \o SetToSeq({Stop(x) : x \in Lamps})
                            \o <<Stop("strip"), Stop("red"), Stop("display")>>]

Block(l) ==
  IF "LIGHTNING_BLOCK" \notin bits \/ l.blocked THEN l
  ELSE [l EXCEPT !.blocked = TRUE, !.lamp = [x \in Lamps |-> FALSE],
                 !.counter = 0, !.green = FALSE, !.blue = FALSE,
                 !.is_red = FALSE, !.red = FALSE, !.display = FALSE,
                 !.cmds = @ \o SetToSeq({Stop(x) : x \in Lamps})
                            \o <<Stop("strip"), Stop("red"), Stop("display")>>]

Unblock(l) ==
  IF "LIGHTNING_UNBLOCK" \in bits THEN [l EXCEPT !.blocked = FALSE] ELSE l

ToggleLamps(l) ==
  LET toggled == Lamps \cap bits
      lit     == {x \in toggled : ~l.lamp[x]}
  IN  [l EXCEPT !.lamp = [x \in Lamps |-> @[x] # (x \in toggled)],
                !.cmds = @ \o SetToSeq({Start(x, Duration["light"]) : x \in lit})]

\* After a delay the strip alternates green and blue; the colour to come next
\* survives everything.
StepStrip(l) ==
  IF "LIGHT_STRIP_GREEN_BLUE" \notin bits THEN l
  ELSE IF l.counter > StripSteps
  THEN [l EXCEPT !.counter = 0, !.green = FALSE, !.blue = FALSE]
  ELSE LET next == Send([l EXCEPT !.counter = @ + 1], Start("strip", StripMs)) IN
       IF next.counter > StripDelay
       THEN [next EXCEPT !.is_green = ~@, !.green = ~l.is_green, !.blue = l.is_green]
       ELSE next

BlinkRed(l) ==
  IF "LIGHT_STRIP_RED" \notin bits THEN l
  ELSE IF ~l.is_red THEN [l EXCEPT !.red = FALSE]
  ELSE Send([l EXCEPT !.red = l.is_even, !.is_even = ~@],
            Start("red", IF l.is_even THEN RedOnMs ELSE RedOffMs))

DrawDisplay(l) ==
  IF "DISPLAY" \notin bits THEN l
  ELSE CASE l.stage = "ENABLE_POWER" ->
              Send([l EXCEPT !.stage = "DRAW_DATA", !.display = TRUE],
                   Start("display", DisplayBootMs))
         [] l.stage = "DRAW_DATA" ->
              Send([l EXCEPT !.stage = "DISABLE_POWER"],
                   Start("display", Duration["display"]))
         [] l.stage = "DISABLE_POWER" ->
              [l EXCEPT !.stage = "ENABLE_POWER", !.display = FALSE]

LightsAfterBits == DrawDisplay(BlinkRed(StepStrip(ToggleLamps(Unblock(Block(Lights))))))

MutantLightning ==   \* the buzzer is not timed
  /\ pc = "pirs" /\ bits \cap Movements = {} /\ pc' = "sensors"
  /\ LET l == LightsAfterBits IN
       /\ lights' = [x \in DOMAIN lights |-> l[x]]
       /\ commands' = l.cmds
  /\ buzzer' = (buzzer # ("BUZZER" \in bits))
  /\ bits' = bits \ LightBits
  /\ UNCHANGED <<tick, node, notification, tick_count_ms, node_state, front_pir, status_led,
                 timers, inputs, calls>>

\* The buzzer comes after the lights and ignores blocks.
Lightning ==
  /\ pc = "pirs" /\ bits \cap Movements = {} /\ pc' = "sensors"
  /\ LET l == LightsAfterBits IN
       /\ lights' = [x \in DOMAIN lights |-> l[x]]
       /\ commands' = IF "BUZZER" \in bits /\ ~buzzer
                      THEN Append(l.cmds, Start("buzzer", BuzzerMs)) ELSE l.cmds
  /\ buzzer' = (buzzer # ("BUZZER" \in bits))
  /\ bits' = bits \ LightBits
  /\ UNCHANGED <<tick, node, notification, tick_count_ms, node_state, front_pir, status_led,
                 timers, inputs, calls>>

\* The first reading also enables the interrupts of the door and the veranda.
ReadTemperature ==
  /\ pc = "sensors" /\ "TEMPERATURE_SENSOR" \in bits
  /\ bits' = bits \ {"TEMPERATURE_SENSOR"}
  /\ \E is_valid \in Samples : node' = ProcessTemperature(node, is_valid)
  /\ commands' = Append(commands, Start("temperature", NODE_B02_TEMPERATURE_PERIOD_MS))
  /\ inputs_ready' = TRUE
  /\ UNCHANGED <<tick, notification, pc, tick_count_ms, node_state, outputs, timers,
                 last_tick, calls>>

MutantPowerFrontPir ==   \* the interrupt stays enabled when the power goes
  /\ pc = "sensors" /\ "TEMPERATURE_SENSOR" \notin bits /\ "FRONT_PIR_POWER" \in bits
  /\ bits' = bits \ {"FRONT_PIR_POWER"}
  /\ IF front_pir.enabled
     THEN /\ front_pir' = [front_pir EXCEPT !.enabled = FALSE]
          /\ UNCHANGED commands
     ELSE /\ front_pir' = [front_pir EXCEPT !.enabled = TRUE]
          /\ commands' = Append(commands, Start("front_pir", FrontPirMs))
  /\ UNCHANGED <<tick, node, notification, pc, tick_count_ms, node_state, lights, buzzer,
                 status_led, timers, inputs, calls>>

PowerFrontPir ==
  /\ pc = "sensors" /\ "TEMPERATURE_SENSOR" \notin bits /\ "FRONT_PIR_POWER" \in bits
  /\ bits' = bits \ {"FRONT_PIR_POWER"}
  /\ IF front_pir.enabled
     THEN /\ front_pir' = [front_pir EXCEPT !.enabled = FALSE, !.listening = FALSE]
          /\ UNCHANGED commands
     ELSE /\ front_pir' = [front_pir EXCEPT !.enabled = TRUE]
          /\ commands' = Append(commands, Start("front_pir", FrontPirMs))
  /\ UNCHANGED <<tick, node, notification, pc, tick_count_ms, node_state, lights, buzzer,
                 status_led, timers, inputs, calls>>

\* Once the PIR has warmed up: read the captures, then enable the interrupt.
ConfigFrontPir ==
  /\ pc = "sensors" /\ bits \cap SensorBits = {"FRONT_PIR_CONFIG"}
  /\ bits' = bits \ {"FRONT_PIR_CONFIG"}
  /\ IF front_pir.enabled
     THEN pc' = "listen" /\ CaptureRead
     ELSE UNCHANGED <<pc, front_pir>>
  /\ UNCHANGED <<tick, node, notification, tick_count_ms, node_state, lights, buzzer,
                 status_led, daemon, inputs, calls>>

Listen ==
  /\ pc = "listen" /\ pc' = "sensors"
  /\ front_pir' = [front_pir EXCEPT !.listening = TRUE]
  /\ UNCHANGED <<tick, node, notification, round, lights, buzzer, status_led, daemon,
                 inputs, calls>>

GetState ==
  /\ pc = "sensors" /\ bits \cap SensorBits = {}
  /\ node' = UpdateTime(node, tick_count_ms)
  /\ node_state' = StateOf(node', tick_count_ms)
  /\ pc' = IF node_state'.is_msg_to_send THEN "send" ELSE "outputs"
  /\ UNCHANGED <<tick, notification, bits, tick_count_ms, outputs, daemon, inputs, calls>>

SendReport ==
  /\ pc = "send"
  /\ IF node.send_msg_buffer # <<>>
     THEN node' = GetMsg(node) /\ pc' = pc
     ELSE pc' = "outputs" /\ UNCHANGED node
  /\ UNCHANGED <<tick, notification, round, outputs, daemon, inputs, calls>>

\* The task notifies itself of what it has to switch in its next round.
LightsWanted ==
  {x \in Lamps : node_state.is_light_on /\ ~lights.lamp[x]}
    \cup (IF node_state.is_blue_green_on /\ lights.counter = 0
          THEN {"LIGHT_STRIP_GREEN_BLUE"} ELSE {})
    \cup (IF node_state.is_red_on /\ ~lights.is_red THEN {"LIGHT_STRIP_RED"} ELSE {})
    \cup (IF node_state.is_display_on /\ ~lights.display THEN {"DISPLAY"} ELSE {})

AlwaysWanted ==
  (IF node_state.is_buzzer_on /\ ~buzzer THEN {"BUZZER"} ELSE {})
    \cup (IF node_state.is_front_pir_on # front_pir.enabled THEN {"FRONT_PIR_POWER"} ELSE {})

UpdateOutputs ==
  /\ pc = "outputs" /\ pc' = "wait"
  /\ IF lights.blocked
     THEN /\ notification' = notification \cup AlwaysWanted
          /\ UNCHANGED <<lights, status_led>>
     ELSE /\ notification' = notification \cup AlwaysWanted \cup LightsWanted
          /\ lights' = [lights EXCEPT !.is_red = node_state.is_red_on]
          /\ status_led' = node_state.status_led_color
  /\ bits' = {} /\ node_state' = NoState
  /\ UNCHANGED <<tick, tick_count_ms, node, buzzer, front_pir, daemon, inputs, calls>>

-----------------------------------------------------------------------------
(* The other tasks have higher priorities: what they do between the task's  *)
(* steps, they do in one go.                                               *)

\* Bound: MaxCalls calls.
Call(bit) ==
  /\ calls < MaxCalls /\ calls' = calls + 1
  /\ notification' = notification \cup {bit}
  /\ UNCHANGED <<tick, pc, round, outputs, timers, inputs>>

MutantProcessNodeMsg(msg) ==   \* the task is not told
  /\ calls < MaxCalls /\ calls' = calls + 1
  /\ node' = ProcessMsg(node, msg, tick)
  /\ UNCHANGED <<tick, notification, pc, round, outputs, daemon, inputs>>

ProcessNodeMsg(msg) ==
  /\ node' = ProcessMsg(node, msg, tick)
  /\ Call("UPDATE_STATE") /\ UNCHANGED commands

ProcessPhotoresistor(is_dark) ==
  /\ node' = ProcessLuminosity(node, is_dark)
  /\ Call("UPDATE_STATE") /\ UNCHANGED commands

\* Measurements are minutes apart, their blocks seconds long: one begins after
\* the last one's block has ended.  Bound: it can end before the horizon.
DisableLightning ==
  /\ ~lights.blocked /\ ~WillRing("block") /\ ~Pending("LIGHTNING_BLOCK")
  /\ tick + DisableMs <= HorizonMs
  /\ commands' = Append(commands, Start("block", DisableMs))
  /\ Call("LIGHTNING_BLOCK") /\ UNCHANGED node

-----------------------------------------------------------------------------
(* Interrupts, the clock and the timer daemon.                             *)

\* An interrupt is ignored within the hysteresis of the one heard before it.
Heard(m) == tick - last_tick[m] > PIR_HYSTERESIS_MS

\* The door's interrupt comes with both edges, and notifies with the rising one.
Interrupt(m) ==
  /\ m \in Moving /\ inputs_ready /\ Heard(m)
  /\ last_tick' = [last_tick EXCEPT ![m] = tick]
  /\ \E is_high \in IF m = "DOOR_PIR" THEN BOOLEAN ELSE {TRUE} :
       notification' = IF is_high THEN notification \cup {m} ELSE notification
  /\ UNCHANGED <<tick, node, pc, round, outputs, daemon, inputs_ready, calls>>

\* The front PIR, while it has power, changes its output: only a line that was
\* low has a rising edge, and only EXTI_2 enabled hears it.
FrontPirChanges ==
  /\ "FRONT_PIR" \in Moving /\ front_pir.enabled
  /\ front_pir' = [front_pir EXCEPT !.line = TRUE]
  /\ IF front_pir.listening /\ ~front_pir.line /\ Heard("FRONT_PIR")
     THEN /\ last_tick' = [last_tick EXCEPT !["FRONT_PIR"] = tick]
          /\ notification' = notification \cup {"FRONT_PIR"}
     ELSE UNCHANGED <<last_tick, notification>>
  /\ UNCHANGED <<tick, node, pc, round, lights, buzzer, status_led, daemon, inputs_ready,
                 calls>>

Tick ==
  /\ tick < HorizonMs /\ tick' = tick + 1
  /\ UNCHANGED <<node, notification, pc, round, outputs, daemon, inputs, calls>>

\* The task sleeps: it waits for a notification, for its sensor, or for the node
\* task to free a message.
Asleep == \/ pc = "wait" /\ notification = {}
          \/ pc = "sensors" /\ "TEMPERATURE_SENSOR" \in bits
          \/ pc = "send"

Daemon == /\ Asleep /\ (ExecuteCommand \/ \E timer \in TimerNames : ExpireTimer(timer))
          /\ UNCHANGED <<tick, node, pc, round, outputs, inputs, calls>>

-----------------------------------------------------------------------------
TaskStep == \/ Wait \/ DoorPir \/ FrontPir \/ VerandaPir \/ Lightning
            \/ ReadTemperature \/ PowerFrontPir \/ ConfigFrontPir \/ Listen
            \/ GetState \/ SendReport \/ UpdateOutputs

OtherStep ==
  \/ \E msg \in Received : ProcessNodeMsg(msg)
  \/ \E is_dark \in Darkness : ProcessPhotoresistor(is_dark)
  \/ DisableLightning

Next == TaskStep \/ Daemon \/ OtherStep \/ Tick \/ FrontPirChanges
          \/ \E m \in {"DOOR_PIR", "VERANDA_PIR"} : Interrupt(m)

Fairness == WF_vars(TaskStep) /\ WF_vars(Daemon) /\ WF_vars(Tick)

Spec == Init /\ [][Next]_vars /\ Fairness

-----------------------------------------------------------------------------
(* Properties.                                                             *)

\* Whatever is on has a timer, or a notification still to be handled, that will
\* switch it off: stops, late expiries and merged notifications leave no lamp,
\* colour of the strip, display or buzzer on for good, and no block unended.
LampNeverStuck    == \A x \in Lamps : lights.lamp[x] => WillRing(x)
StripNeverStuck   == lights.green \/ lights.blue => WillRing("strip")
RedNeverStuck     == lights.red \/ lights.is_red => WillRing("red")
DisplayNeverStuck == lights.display => WillRing("display")
BuzzerNeverStuck  == buzzer => WillRing("buzzer")
BlockNeverStuck   == lights.blocked => WillRing("block")
NothingLeftOn ==
  /\ LampNeverStuck /\ StripNeverStuck /\ RedNeverStuck
  /\ DisplayNeverStuck /\ BuzzerNeverStuck /\ BlockNeverStuck

\* When the task sleeps, buzzer and front PIR are what the node asks for, and so
\* are the lights unless they are blocked.
LatestStateShown ==
  pc = "wait" /\ notification = {} /\ status_led # "NO_COLOR" =>
    LET wanted == StateOf(node, tick_count_ms) IN
      /\ wanted.is_buzzer_on => buzzer
      /\ front_pir.enabled = wanted.is_front_pir_on
      /\ ~wanted.is_msg_to_send
      /\ ~lights.blocked =>
           /\ lights.is_red = wanted.is_red_on
           /\ wanted.is_light_on => \A x \in Lamps : lights.lamp[x]
           /\ wanted.is_blue_green_on => lights.counter # 0
           /\ wanted.is_display_on => lights.display
           /\ status_led = wanted.status_led_color

\* A front PIR with power listens, or its warm-up will end; without power it is
\* not listened to.  Switching it off and on while its timer runs breaks neither.
FrontPirConfigured ==
  /\ front_pir.enabled => front_pir.listening \/ WillRing("front_pir") \/ pc = "listen"
  /\ front_pir.listening => front_pir.enabled

\* An alarm lights the strip, or is called off.
AlarmShown ==
  node.mode = "ALARM_MODE" ~> lights.is_red \/ node.mode # "ALARM_MODE"
=============================================================================
