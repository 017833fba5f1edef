SPECIFICATION Spec
CONSTANTS
  Lamps = {"front_light"}
  Duration <- OneUnit
  SEND_MSG_BUFFER = 8
  Received <- LightAndAlarm
  Samples = {TRUE}
  Darkness = {TRUE}
  Moving = {}
  HorizonMs = 3
  MaxCalls = 2
  PIR_HYSTERESIS_MS = 1
  DisableMs = 1
  StripSteps = 1
  StripDelay = 0
  StripMs = 1
  RedOnMs = 1
  RedOffMs = 1
  DisplayBootMs = 1
  FrontPirMs = 1
  BuzzerMs = 9
  NODE_B02_TEMPERATURE_PERIOD_MS = 9
INVARIANTS
  NothingLeftOn
  FrontPirConfigured
PROPERTIES
  AlarmShown
CHECK_DEADLOCK FALSE
