SPECIFICATION Spec
CONSTANTS
  NODE_T01_LIGHT_DURATION_MS = 1
  NODE_T01_DISPLAY_DURATION_MS = 1
  NODE_T01_INTRUSION_DURATION_MS = 1
  SEND_MSG_BUFFER = 4
  Received <- Nothing
  Samples = {"mild"}
  Darkness = {TRUE}
  HorizonMs = 4
  MaxCalls = 1
  PIR_HYSTERESIS_MS = 3
  DisableMs = 2
  WarningOnMs = 1
  WarningOffMs = 1
  DisplayBootMs = 1
  DoorMs = 1
  NODE_T01_DOOR_STATE_PERIOD_MS = 2
  NODE_T01_HUMIDITY_PERIOD_MS = 1
INVARIANTS
  NothingLeftOn
  ReportsFit
CHECK_DEADLOCK FALSE
