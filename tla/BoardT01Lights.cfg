SPECIFICATION Spec
CONSTANTS
  NODE_T01_LIGHT_DURATION_MS = 1
  NODE_T01_DISPLAY_DURATION_MS = 1
  NODE_T01_INTRUSION_DURATION_MS = 1
  SEND_MSG_BUFFER = 8
  Received <- LightAndAlarm
  Samples = {"mild"}
  Darkness = {TRUE}
  HorizonMs = 5
  MaxCalls = 2
  PIR_HYSTERESIS_MS = 1
  DisableMs = 1
  WarningOnMs = 1
  WarningOffMs = 1
  DisplayBootMs = 1
  DoorMs = 1
  NODE_T01_DOOR_STATE_PERIOD_MS = 4
  NODE_T01_HUMIDITY_PERIOD_MS = 9
INVARIANTS
  TypeOK
  NothingLeftOn
  LatestStateShown
PROPERTIES
  AlarmShown
CHECK_DEADLOCK FALSE
