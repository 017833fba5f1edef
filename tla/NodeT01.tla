------------------------------ MODULE NodeT01 -------------------------------
(***************************************************************************)
(* node_T01.c: what node T01 knows (mode, light, door, humidity and the    *)
(* times at which things began), what it makes of movements, measurements  *)
(* and messages, and the outputs it asks the board for.                    *)
(*                                                                         *)
(* The functions of the C file are operators on the record node, the       *)
(* struct they get a pointer to.  A time of 0 stands for "never".          *)
(***************************************************************************)
EXTENDS Integers, Sequences

CONSTANTS NODE_T01_LIGHT_DURATION_MS,       \* 40 s each in the code
          NODE_T01_DISPLAY_DURATION_MS,
          NODE_T01_INTRUSION_DURATION_MS,
          SEND_MSG_BUFFER                   \* reports that fit (8 in the code)

ASSUME DurationAssumption ==
  /\ NODE_T01_LIGHT_DURATION_MS \in Nat \ {0}
  /\ NODE_T01_DISPLAY_DURATION_MS \in Nat \ {0}
  /\ NODE_T01_INTRUSION_DURATION_MS \in Nat
  /\ SEND_MSG_BUFFER \in Nat

Modes == {"SILENCE_MODE", "GUARD_MODE", "ALARM_MODE"}

\* A humidity sample as far as the outputs tell samples apart: below 16 C,
\* above 25 C, or neither.
Humidities == {"invalid", "cold", "mild", "hot"}

Reports == {"UPDATE_HUMIDITY", "UPDATE_DOOR_STATE", "SET_LIGHT", "SET_INTRUSION"}

NodeInit ==
  [mode |-> "SILENCE_MODE", is_dark |-> FALSE,
   light_start |-> 0, display_start |-> 0, intrusion_start |-> 0,
   humidity |-> "invalid", is_door_open |-> FALSE, is_warning_enabled |-> TRUE,
   send_msg_buffer |-> <<>>]

NodeType ==
  [mode : Modes, is_dark : BOOLEAN,
   light_start : Nat, display_start : Nat, intrusion_start : Nat,
   humidity : Humidities, is_door_open : BOOLEAN, is_warning_enabled : BOOLEAN,
   send_msg_buffer : Seq(Reports)]

-----------------------------------------------------------------------------
(* Times.                                                                  *)

\* The tick counter has wrapped since a start time that lies ahead: forget it.
Past(start, time) == IF start > time THEN 0 ELSE start

UpdateTime(node, time) ==
  [node EXCEPT !.light_start     = Past(@, time),
               !.display_start   = Past(@, time),
               !.intrusion_start = Past(@, time)]

Expired(start, duration, time) == time - start > duration

LightExpired(node, time) ==
  Expired(node.light_start, NODE_T01_LIGHT_DURATION_MS, time)
DisplayExpired(node, time) ==
  Expired(node.display_start, NODE_T01_DISPLAY_DURATION_MS, time)
IntrusionExpired(node, time) ==
  Expired(node.intrusion_start, NODE_T01_INTRUSION_DURATION_MS, time)

-----------------------------------------------------------------------------
(* Outputs.  The operators take a node whose times are updated.            *)

IsLightOn(node, time) ==
  node.is_dark /\ (node.mode = "ALARM_MODE" \/ ~LightExpired(node, time))

IsDisplayOn(node, time) == node.mode = "SILENCE_MODE" /\ ~DisplayExpired(node, time)

\* Cold behind an open door, or hot behind a closed one.
Uncomfortable(node) == node.humidity = IF node.is_door_open THEN "cold" ELSE "hot"

IsWarningLedOn(node, time) ==
  \/ node.mode = "ALARM_MODE"
  \/ node.mode = "GUARD_MODE" /\ ~IntrusionExpired(node, time)
  \/ node.mode = "SILENCE_MODE" /\ node.is_warning_enabled /\ Uncomfortable(node)

StateOf(node, time) ==
  [is_light_on       |-> IsLightOn(node, time),
   is_display_on     |-> IsDisplayOn(node, time),
   is_warning_led_on |-> IsWarningLedOn(node, time),
   status_led_color  |-> IF node.mode = "SILENCE_MODE" THEN "GREEN_COLOR" ELSE "RED_COLOR",
   is_msg_to_send    |-> node.send_msg_buffer # <<>>]

-----------------------------------------------------------------------------
(* Inputs.                                                                 *)

\* A report that finds the buffer full is dropped.
Report(node, cmd) ==
  IF Len(node.send_msg_buffer) # SEND_MSG_BUFFER
  THEN [node EXCEPT !.send_msg_buffer = Append(@, cmd)]
  ELSE node

ProcessLuminosity(node, is_dark) == [node EXCEPT !.is_dark = is_dark]

ProcessHumidity(node, sample) ==
  LET sampled == [node EXCEPT !.humidity = sample] IN
  IF sample # "invalid" THEN Report(sampled, "UPDATE_HUMIDITY") ELSE sampled

ProcessDoorState(node, is_open) ==
  Report([node EXCEPT !.is_door_open = is_open], "UPDATE_DOOR_STATE")

\* Someone is at home: light and display, and light outside in the dark.
MovementInSilence(node, time) ==
  LET shown == IF DisplayExpired(node, time)
               THEN [node EXCEPT !.display_start = time] ELSE node
      lit   == [shown EXCEPT !.light_start = time]
  IN  IF ~LightExpired(node, time) THEN shown
      ELSE IF node.is_dark THEN Report(lit, "SET_LIGHT") ELSE lit

StartIntrusion(node, time) ==
  [node EXCEPT !.intrusion_start = time, !.light_start = time]

MovementOnGuard(node, time) ==
  IF IntrusionExpired(node, time)
  THEN Report(StartIntrusion(node, time), "SET_INTRUSION")
  ELSE node

ProcessMovement(node, time) ==
  LET now == UpdateTime(node, time) IN
  CASE now.mode = "SILENCE_MODE" -> MovementInSilence(now, time)
    [] now.mode = "GUARD_MODE"   -> MovementOnGuard(now, time)
    [] OTHER                     -> now

MutantObey(node, msg, time) ==   \* OFF backdates the light by its duration
  CASE msg.cmd = "SET_LIGHT" /\ msg.value = "ON" /\ LightExpired(node, time) ->
         [node EXCEPT !.light_start = time]
    [] msg.cmd = "SET_LIGHT" /\ msg.value = "OFF" ->
         [node EXCEPT !.light_start = time - NODE_T01_LIGHT_DURATION_MS]
    [] OTHER -> node

Obey(node, msg, time) ==
  CASE msg.cmd = "SET_MODE" ->
         [node EXCEPT !.mode = msg.value,
                      !.display_start = 0, !.intrusion_start = 0, !.light_start = 0]
    [] msg.cmd = "SET_INTRUSION" /\ msg.value = "ON" /\ IntrusionExpired(node, time) ->
         StartIntrusion(node, time)
    [] msg.cmd = "SET_INTRUSION" /\ msg.value = "OFF" ->
         [node EXCEPT !.intrusion_start = 0]
    [] msg.cmd = "SET_LIGHT" /\ msg.value = "ON" /\ LightExpired(node, time) ->
         [node EXCEPT !.light_start = time]
    [] msg.cmd = "SET_LIGHT" /\ msg.value = "OFF" ->
         [node EXCEPT !.light_start = 0]
    [] msg.cmd = "SET_WARNING" /\ msg.value \in {"ON", "OFF"} ->
         [node EXCEPT !.is_warning_enabled = (msg.value = "ON")]
    [] OTHER -> node

ProcessMsg(node, msg, time) ==
  IF msg.dest \cap {"T01", "BROADCAST"} # {}
  THEN Obey(UpdateTime(node, time), msg, time)
  ELSE node

\* The newest report is handed out first.
NextMsg(node) == node.send_msg_buffer[Len(node.send_msg_buffer)]
GetMsg(node)  ==
  [node EXCEPT !.send_msg_buffer = SubSeq(@, 1, Len(@) - 1)]
=============================================================================
