------------------------------ MODULE BoardT01 ------------------------------
(***************************************************************************)
(* board_T01.c: the task that turns notifications into the light, the      *)
(* warning LED and the display of node T01; the node task and the board    *)
(* task that call into it; the interrupts; and the FreeRTOS software       *)
(* timers, which obey commands only when the task sleeps (their daemon has *)
(* the lowest priority) and answer with notifications.                     *)
(*                                                                         *)
(* The task reads the clock once per round and uses it to the end of the   *)
(* round.  node_mutex protects each access to node, so each is one step.   *)
(***************************************************************************)
EXTENDS NodeT01, FiniteSets

CONSTANTS Received,         \* node messages that may arrive
          Samples,          \* readings of the humidity sensor
          Darkness,         \* judgements of the photoresistor
          HorizonMs,        \* bound: time stops here
          MaxCalls,         \* bound: calls of the node task and the board task
          PIR_HYSTERESIS_MS,
          DisableMs,        \* how long a measurement keeps the lights off
          WarningOnMs, WarningOffMs, DisplayBootMs, DoorMs,
          NODE_T01_DOOR_STATE_PERIOD_MS, NODE_T01_HUMIDITY_PERIOD_MS

ASSUME BoardAssumption ==
  /\ HorizonMs \in Nat /\ MaxCalls \in Nat /\ PIR_HYSTERESIS_MS \in Nat
  /\ {DisableMs, WarningOnMs, WarningOffMs, DisplayBootMs, DoorMs,
      NODE_T01_DOOR_STATE_PERIOD_MS, NODE_T01_HUMIDITY_PERIOD_MS} \subseteq Nat \ {0}
  /\ \A m \in Received :   \* the senders know no other modes
       /\ DOMAIN m = {"dest", "cmd", "value"}
       /\ m.cmd = "SET_MODE" => m.value \in Modes
  /\ Samples \subseteq Humidities /\ Darkness \subseteq BOOLEAN

VARIABLES tick,             \* the tick counter
          node,             \* NodeT01's struct
          notification,     \* the notification bits pending for the task
          pc,               \* where board_T01_task is in its round
          bits,             \* the bits of this round
          tick_count_ms,    \* the clock of this round
          node_state,       \* the outputs asked for in this round
          light,            \* is_light_enabled, and the light's power
          display,          \* is_display_enabled, and the display's power
          stage,            \* of board_T01_draw_display
          warning,          \* [enabled, even, power]: flag, counter parity, LED
          status_led,       \* the colour asked for last
          blocked,          \* is_lightning_blocked
          inputs_ready,     \* is_pir_and_reed_switch_initialized
          last_tick,        \* when each interrupt was last heard
          timers,           \* timers[t]: when t expires, or Off
          commands,         \* commands waiting for the timer daemon
          calls             \* calls of other tasks so far

round   == <<bits, tick_count_ms, node_state>>
lights  == <<light, display, stage, warning, blocked>>
daemon  == <<timers, commands>>
inputs  == <<inputs_ready, last_tick>>
vars == <<tick, node, notification, pc, round, lights, status_led, daemon, inputs, calls>>

TimerNames == {"block", "light", "warning", "display", "humidity", "reed"}
Interrupts == {"PIR", "REED_SWITCH"}

\* The notification each timer's callback sends.
BitOf(timer) ==
  CASE timer = "block"    -> "LIGHTNING_UNBLOCK"
    [] timer = "light"    -> "LIGHT"
    [] timer = "warning"  -> "WARNING_LED"
    [] timer = "display"  -> "DISPLAY"
    [] timer = "humidity" -> "HUMIDITY_SENSOR"
    [] timer = "reed"     -> "REED_SWITCH"

Bits == {BitOf(timer) : timer \in TimerNames}
          \cup {"PIR", "LIGHTNING_BLOCK", "UPDATE_STATE"}

INSTANCE SoftTimers

Pending(bit) ==
  bit \in notification \/ (bit \in bits /\ pc \in {"pir", "lightning"})

\* The task will yet be notified by the timer, or has been and is to act on it.
WillRing(timer) == Scheduled(timer) \/ Pending(BitOf(timer))

\* Outside of the round's last part no state is asked for.
NoState == StateOf(NodeInit, 0)

Init ==
  /\ tick = 0 /\ node = NodeInit /\ notification = {}
  /\ pc = "wait" /\ bits = {} /\ tick_count_ms = 0
  /\ node_state = NoState
  /\ light = FALSE /\ display = FALSE /\ stage = "ENABLE_POWER"
  /\ warning = [enabled |-> FALSE, even |-> TRUE, power |-> FALSE]
  /\ status_led = "NO_COLOR"
  /\ blocked = FALSE /\ inputs_ready = FALSE
  /\ timers = [t \in TimerNames |-> Off]
  /\ commands = <<Start("humidity", NODE_T01_HUMIDITY_PERIOD_MS)>>
  /\ last_tick = [i \in Interrupts |-> 0] /\ calls = 0

-----------------------------------------------------------------------------
(* The round of board_T01_task.                                            *)

Wait ==
  /\ pc = "wait" /\ notification # {}
  /\ bits' = notification /\ notification' = {}
  /\ tick_count_ms' = tick
  /\ pc' = "pir"
  /\ UNCHANGED <<tick, node, node_state, lights, status_led, daemon, inputs, calls>>

Pir ==
  /\ pc = "pir" /\ pc' = "lightning"
  /\ node' = IF "PIR" \in bits THEN ProcessMovement(node, tick_count_ms) ELSE node
  /\ UNCHANGED <<tick, notification, round, lights, status_led, daemon, inputs, calls>>

\* What the bits of a round do to the lights, one after the other.  A step
\* yields the lights' new state and the commands it sends.
Lights == [light |-> light, display |-> display, stage |-> stage,
           warning |-> warning, blocked |-> blocked, cmds |-> commands]

MutantBlock(l) ==   \* the light's timer is stopped, its flag is kept
  IF "LIGHTNING_BLOCK" \in bits /\ ~l.blocked
  THEN [l EXCEPT !.blocked = TRUE, !.display = FALSE,
                 !.warning.enabled = FALSE, !.warning.power = FALSE,
                 !.cmds = @ \o <<Stop("light"), Stop("warning"), Stop("display")>>]
  ELSE l

Block(l) ==
  IF "LIGHTNING_BLOCK" \in bits /\ ~l.blocked
  THEN [l EXCEPT !.blocked = TRUE, !.light = FALSE, !.display = FALSE,
                 !.warning.enabled = FALSE, !.warning.power = FALSE,
                 !.cmds = @ \o <<Stop("light"), Stop("warning"), Stop("display")>>]
  ELSE l

Unblock(l) ==
  IF "LIGHTNING_UNBLOCK" \in bits THEN [l EXCEPT !.blocked = FALSE] ELSE l

ToggleLight(l) ==
  IF "LIGHT" \notin bits THEN l
  ELSE IF l.light THEN [l EXCEPT !.light = FALSE]
  ELSE [l EXCEPT !.light = TRUE,
                 !.cmds = Append(@, Start("light", NODE_T01_LIGHT_DURATION_MS))]

BlinkWarning(l) ==
  IF "WARNING_LED" \notin bits THEN l
  ELSE IF ~l.warning.enabled THEN [l EXCEPT !.warning.power = FALSE]
  ELSE [l EXCEPT !.warning.power = l.warning.even, !.warning.even = ~@,
                 !.cmds = Append(@, Start("warning",
                            IF l.warning.even THEN WarningOnMs ELSE WarningOffMs))]

DrawDisplay(l) ==
  IF "DISPLAY" \notin bits THEN l
  ELSE CASE l.stage = "ENABLE_POWER" ->
              [l EXCEPT !.stage = "DRAW_DATA", !.display = TRUE,
                        !.cmds = Append(@, Start("display", DisplayBootMs))]
         [] l.stage = "DRAW_DATA" ->
              [l EXCEPT !.stage = "DISABLE_POWER",
                        !.cmds = Append(@, Start("display", NODE_T01_DISPLAY_DURATION_MS))]
         [] l.stage = "DISABLE_POWER" ->
              [l EXCEPT !.stage = "ENABLE_POWER", !.display = FALSE]

MutantLightsAfterBits ==   \* the block is ended before it begins
  DrawDisplay(BlinkWarning(ToggleLight(Block(Unblock(Lights)))))

LightsAfterBits == DrawDisplay(BlinkWarning(ToggleLight(Unblock(Block(Lights)))))

Lightning ==
  /\ pc = "lightning" /\ pc' = "sensors"
  /\ LET l == LightsAfterBits IN
       /\ light' = l.light /\ display' = l.display /\ stage' = l.stage
       /\ warning' = l.warning /\ blocked' = l.blocked /\ commands' = l.cmds
  /\ UNCHANGED <<tick, node, notification, round, status_led, timers, inputs, calls>>

\* The first reading also enables the interrupts of the PIR and the door.
ReadHumidity ==
  /\ pc = "sensors" /\ "HUMIDITY_SENSOR" \in bits
  /\ \E sample \in Samples : node' = ProcessHumidity(node, sample)
  /\ commands' = commands
       \o <<Start("humidity", NODE_T01_HUMIDITY_PERIOD_MS)>>
       \o IF inputs_ready THEN <<>> ELSE <<Start("reed", DoorMs)>>
  /\ inputs_ready' = TRUE
  /\ bits' = bits \ {"HUMIDITY_SENSOR"}
  /\ UNCHANGED <<tick, notification, pc, tick_count_ms, node_state, lights, status_led,
                 timers, last_tick, calls>>

ReadReedSwitch ==
  /\ pc = "sensors" /\ "HUMIDITY_SENSOR" \notin bits /\ "REED_SWITCH" \in bits
  /\ \E is_open \in BOOLEAN : node' = ProcessDoorState(node, is_open)
  /\ commands' = Append(commands, Start("reed", NODE_T01_DOOR_STATE_PERIOD_MS))
  /\ bits' = bits \ {"REED_SWITCH"}
  /\ UNCHANGED <<tick, notification, pc, tick_count_ms, node_state, lights, status_led,
                 timers, inputs, calls>>

GetState ==
  /\ pc = "sensors" /\ bits \cap {"HUMIDITY_SENSOR", "REED_SWITCH"} = {}
  /\ node' = UpdateTime(node, tick_count_ms)
  /\ node_state' = StateOf(node', tick_count_ms)
  /\ pc' = IF node_state'.is_msg_to_send THEN "send" ELSE "outputs"
  /\ UNCHANGED <<tick, notification, bits, tick_count_ms, lights, status_led, daemon, inputs, calls>>

MutantSendReport ==   \* one report a round
  /\ pc = "send" /\ pc' = "outputs"
  /\ node' = GetMsg(node)
  /\ UNCHANGED <<tick, notification, round, lights, status_led, daemon, inputs, calls>>

SendReport ==
  /\ pc = "send"
  /\ IF node.send_msg_buffer # <<>>
     THEN node' = GetMsg(node) /\ pc' = pc
     ELSE pc' = "outputs" /\ UNCHANGED node
  /\ UNCHANGED <<tick, notification, round, lights, status_led, daemon, inputs, calls>>

\* The task notifies itself of what it has to switch on in its next round.
SelfNotified ==
  (IF node_state.is_light_on /\ ~light THEN {"LIGHT"} ELSE {})
    \cup (IF node_state.is_warning_led_on /\ ~warning.enabled THEN {"WARNING_LED"} ELSE {})
    \cup (IF node_state.is_display_on /\ ~display THEN {"DISPLAY"} ELSE {})

UpdateOutputs ==
  /\ pc = "outputs" /\ pc' = "wait"
  /\ IF blocked
     THEN UNCHANGED <<notification, warning, status_led>>
     ELSE /\ notification' = notification \cup SelfNotified
          /\ warning' = [warning EXCEPT !.enabled = node_state.is_warning_led_on]
          /\ status_led' = node_state.status_led_color
  /\ bits' = {} /\ node_state' = NoState
  /\ UNCHANGED <<tick, tick_count_ms, node, light, display, stage, blocked, daemon, inputs, calls>>

-----------------------------------------------------------------------------
(* The other tasks have higher priorities: what they do between the task's  *)
(* steps, they do in one go.                                               *)

\* Bound: MaxCalls calls.
Call(bit) ==
  /\ calls < MaxCalls /\ calls' = calls + 1
  /\ notification' = notification \cup {bit}
  /\ UNCHANGED <<tick, pc, round, lights, status_led, timers, inputs>>

MutantProcessNodeMsg(msg) ==   \* the task is not told
  /\ calls < MaxCalls /\ calls' = calls + 1
  /\ node' = ProcessMsg(node, msg, tick)
  /\ UNCHANGED <<tick, notification, pc, round, lights, status_led, daemon, inputs>>

ProcessNodeMsg(msg) ==
  /\ node' = ProcessMsg(node, msg, tick)
  /\ Call("UPDATE_STATE") /\ UNCHANGED commands

ProcessPhotoresistor(is_dark) ==
  /\ node' = ProcessLuminosity(node, is_dark)
  /\ Call("UPDATE_STATE") /\ UNCHANGED commands

\* Measurements are minutes apart, their blocks seconds long: one begins after
\* the last one's block has ended.  Bound: it can end before the horizon.
DisableLightning ==
  /\ ~blocked /\ ~WillRing("block") /\ ~Pending("LIGHTNING_BLOCK")
  /\ tick + DisableMs <= HorizonMs
  /\ commands' = Append(commands, Start("block", DisableMs))
  /\ Call("LIGHTNING_BLOCK") /\ UNCHANGED node

-----------------------------------------------------------------------------
(* Interrupts, the clock and the timer daemon.                             *)

\* Both interrupts are ignored within the hysteresis.
Interrupt(i) ==
  /\ inputs_ready /\ tick - last_tick[i] > PIR_HYSTERESIS_MS
  /\ last_tick' = [last_tick EXCEPT ![i] = tick]
  /\ notification' = notification \cup {i}
  /\ UNCHANGED <<tick, node, pc, round, lights, status_led, daemon, inputs_ready, calls>>

Tick ==
  /\ tick < HorizonMs /\ tick' = tick + 1
  /\ UNCHANGED <<node, notification, pc, round, lights, status_led, daemon, inputs, calls>>

\* The task sleeps: it waits for a notification, for its sensor, or for the node
\* task to free a message.
Asleep == \/ pc = "wait" /\ notification = {}
          \/ pc = "sensors" /\ "HUMIDITY_SENSOR" \in bits
          \/ pc = "send"

Daemon == /\ Asleep /\ (ExecuteCommand \/ \E timer \in TimerNames : ExpireTimer(timer))
          /\ UNCHANGED <<tick, node, pc, round, lights, status_led, inputs, calls>>

-----------------------------------------------------------------------------
TaskStep == \/ Wait \/ Pir \/ Lightning \/ ReadHumidity \/ ReadReedSwitch
            \/ GetState \/ SendReport \/ UpdateOutputs

OtherStep ==
  \/ \E msg \in Received : ProcessNodeMsg(msg)
  \/ \E is_dark \in Darkness : ProcessPhotoresistor(is_dark)
  \/ DisableLightning

Next == TaskStep \/ Daemon \/ OtherStep \/ Tick
          \/ \E i \in Interrupts : Interrupt(i)

Fairness == WF_vars(TaskStep) /\ WF_vars(Daemon) /\ WF_vars(Tick)

Spec == Init /\ [][Next]_vars /\ Fairness

-----------------------------------------------------------------------------
(* Properties.                                                             *)

\* Every variable of board_T01.c holds a value of its type.
TypeOK ==
  /\ tick \in 0..HorizonMs /\ node \in NodeType /\ notification \subseteq Bits
  /\ pc \in {"wait", "pir", "lightning", "sensors", "send", "outputs"}
  /\ bits \subseteq Bits /\ tick_count_ms \in 0..tick
  /\ light \in BOOLEAN /\ display \in BOOLEAN /\ blocked \in BOOLEAN
  /\ stage \in {"ENABLE_POWER", "DRAW_DATA", "DISABLE_POWER"}
  /\ warning \in [enabled : BOOLEAN, even : BOOLEAN, power : BOOLEAN]
  /\ status_led \in {"NO_COLOR", "GREEN_COLOR", "RED_COLOR"}
  /\ inputs_ready \in BOOLEAN /\ last_tick \in [Interrupts -> 0..tick]
  /\ TimersType
  /\ calls \in 0..MaxCalls

\* Whatever is on has a timer, or a notification still to be handled, that will
\* switch it off, and a block that will end it: stops, late expiries and merged
\* notifications leave nothing on for good.
LightNeverStuck   == light => WillRing("light")
DisplayNeverStuck == display => WillRing("display")
WarningNeverStuck == warning.enabled \/ warning.power => WillRing("warning")
BlockNeverStuck   == blocked => WillRing("block")
NothingLeftOn == LightNeverStuck /\ DisplayNeverStuck /\ WarningNeverStuck /\ BlockNeverStuck

\* When the task sleeps and the lights are not blocked, they show what the node
\* asks for: no change of the node escapes the task.
LatestStateShown ==
  pc = "wait" /\ notification = {} /\ ~blocked /\ status_led # "NO_COLOR" =>
    LET wanted == StateOf(node, tick_count_ms) IN
      /\ warning.enabled = wanted.is_warning_led_on
      /\ wanted.is_light_on => light
      /\ wanted.is_display_on => display
      /\ status_led = wanted.status_led_color
      /\ ~wanted.is_msg_to_send

\* No report of the node is dropped: a round adds at most three and sends all.
ReportsFit == Len(node.send_msg_buffer) < SEND_MSG_BUFFER

\* On guard, the outputs computed while an intrusion lasts ask for the warning
\* LED, as node_T01.test.cpp expects of them after a message SET_INTRUSION.
IntrusionShown ==
  [][pc = "sensors" /\ pc' \in {"send", "outputs"}
       /\ node.mode = "GUARD_MODE"
       /\ node.intrusion_start # 0 /\ ~IntrusionExpired(node, tick)
         => node_state'.is_warning_led_on]_vars

\* An alarm is shown, or called off.
AlarmShown ==
  node.mode = "ALARM_MODE" ~> warning.enabled \/ node.mode # "ALARM_MODE"
=============================================================================
