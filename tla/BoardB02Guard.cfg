SPECIFICATION Spec
CONSTANTS
  Lamps = {"front_light"}
  Duration <- OneUnit
  SEND_MSG_BUFFER = 8
  Received <- ModesOnly
  Samples = {TRUE}
  Darkness = {}
  Moving = {"DOOR_PIR","VERANDA_PIR","FRONT_PIR"}
  HorizonMs = 3
  MaxCalls = 1
  PIR_HYSTERESIS_MS = 1
  DisableMs = 1
  StripSteps = 2
  StripDelay = 0
  StripMs = 1
  RedOnMs = 1
  RedOffMs = 1
  DisplayBootMs = 1
  FrontPirMs = 1
  BuzzerMs = 1
  NODE_B02_TEMPERATURE_PERIOD_MS = 2
INVARIANTS
  NothingLeftOn
  LatestStateShown
CHECK_DEADLOCK FALSE
