------------------------------ MODULE NodeB02 -------------------------------
(***************************************************************************)
(* node_B02.c: what node B02 knows and asks its board for.  The functions  *)
(* of the C file are operators on the record node, the struct they get a   *)
(* pointer to; the fields <kind>_start_time_ms are node.start[kind], and 0 *)
(* stands for "never".                                                     *)
(***************************************************************************)
EXTENDS Integers, Sequences

CONSTANTS Duration,             \* of light, display and intrusion: 40 s each
          SEND_MSG_BUFFER       \* reports that fit (8 in the code)

Kinds == {"light", "display", "intrusion"}

ASSUME NodeB02Assumption ==
  Duration \in [Kinds -> Nat \ {0}] /\ SEND_MSG_BUFFER \in Nat

Modes   == {"SILENCE_MODE", "GUARD_MODE", "ALARM_MODE"}
Reports == {"UPDATE_TEMPERATURE", "SET_LIGHT", "SET_INTRUSION"}

NodeInit ==
  [mode |-> "SILENCE_MODE", is_dark |-> FALSE, start |-> [k \in Kinds |-> 0],
   is_temperature_valid |-> FALSE, send_msg_buffer |-> <<>>]

\* The tick counter has wrapped since a start time that lies ahead: forget it.
UpdateTime(node, time) ==
  [node EXCEPT !.start = [k \in Kinds |-> IF @[k] > time THEN 0 ELSE @[k]]]

Expired(node, kind, time) == time - node.start[kind] > Duration[kind]

-----------------------------------------------------------------------------
(* Outputs.  The operators take a node whose times are updated.            *)

IsIntrusionShown(node, time) ==
  \/ node.mode = "ALARM_MODE"
  \/ node.mode = "GUARD_MODE" /\ ~Expired(node, "intrusion", time)

IsLightOn(node, time) ==
  node.is_dark /\ (node.mode = "ALARM_MODE" \/ ~Expired(node, "light", time))

\* The three lights are on together.
StateOf(node, time) ==
  [is_light_on      |-> IsLightOn(node, time),
   is_blue_green_on |-> node.mode = "SILENCE_MODE" /\ IsLightOn(node, time),
   is_red_on        |-> IsIntrusionShown(node, time),
   is_buzzer_on     |-> IsIntrusionShown(node, time),
   is_display_on    |-> node.mode = "SILENCE_MODE" /\ ~Expired(node, "display", time),
   is_front_pir_on  |-> \/ node.mode = "GUARD_MODE"
                        \/ node.mode = "SILENCE_MODE" /\ node.is_dark,
   status_led_color |-> IF node.mode = "SILENCE_MODE" THEN "GREEN_COLOR" ELSE "RED_COLOR",
   is_msg_to_send   |-> node.send_msg_buffer # <<>>]

-----------------------------------------------------------------------------
(* Inputs.                                                                 *)

\* A report that finds the buffer full is dropped.
Report(node, cmd) ==
  IF Len(node.send_msg_buffer) # SEND_MSG_BUFFER
  THEN [node EXCEPT !.send_msg_buffer = Append(@, cmd)]
  ELSE node

ProcessLuminosity(node, is_dark) == [node EXCEPT !.is_dark = is_dark]

ProcessTemperature(node, is_valid) ==
  LET measured == [node EXCEPT !.is_temperature_valid = is_valid]
  IN  IF is_valid THEN Report(measured, "UPDATE_TEMPERATURE") ELSE measured

StartIntrusion(node, time) ==
  [node EXCEPT !.start["intrusion"] = time, !.start["light"] = time]

MovementOnGuard(node, time) ==
  IF Expired(node, "intrusion", time)
  THEN Report(StartIntrusion(node, time), "SET_INTRUSION")
  ELSE node

\* Someone comes home: light here, and outside of T01 in the dark.
ComeHome(node, time) ==
  LET lit == [node EXCEPT !.start["light"] = time] IN
  IF ~Expired(node, "light", time) THEN node
  ELSE IF node.is_dark THEN Report(lit, "SET_LIGHT") ELSE lit

ProcessDoorMovement(node, time) ==
  LET now == UpdateTime(node, time) IN
  CASE now.mode = "SILENCE_MODE" -> ComeHome(now, time)
    [] now.mode = "GUARD_MODE"   -> MovementOnGuard(now, time)
    [] OTHER                     -> now

ProcessFrontMovement(node, time) == ProcessDoorMovement(node, time)

ProcessVerandaMovement(node, time) ==
  LET now == UpdateTime(node, time) IN
  CASE now.mode = "SILENCE_MODE" /\ Expired(now, "display", time) ->
         [now EXCEPT !.start["display"] = time]
    [] now.mode = "GUARD_MODE" -> MovementOnGuard(now, time)
    [] OTHER -> now

Obey(node, msg, time) ==
  CASE msg.cmd = "SET_MODE" ->
         [node EXCEPT !.mode = msg.value, !.start = [k \in Kinds |-> 0]]
    [] msg.cmd = "SET_INTRUSION" /\ msg.value = "ON" /\ Expired(node, "intrusion", time) ->
         StartIntrusion(node, time)
    [] msg.cmd = "SET_INTRUSION" /\ msg.value # "ON" ->
         [node EXCEPT !.start["intrusion"] = 0]
    [] msg.cmd = "SET_LIGHT" /\ msg.value = "ON" /\ Expired(node, "light", time) ->
         [node EXCEPT !.start["light"] = time]
    [] msg.cmd = "SET_LIGHT" /\ msg.value # "ON" ->
         [node EXCEPT !.start["light"] = 0]
    [] OTHER -> node

ProcessMsg(node, msg, time) ==
  IF msg.dest \cap {"B02", "BROADCAST"} # {}
  THEN Obey(UpdateTime(node, time), msg, time)
  ELSE node

\* The newest report is handed out first.
GetMsg(node) ==
  [node EXCEPT !.send_msg_buffer = SubSeq(@, 1, Len(@) - 1)]
=============================================================================
