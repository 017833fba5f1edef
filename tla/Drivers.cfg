SPECIFICATION DriversSpec
CONSTANTS
  Used <- SomeDevices
  ExpanderLimit <- ExpanderEventLimit
  SectorCount = 2
  SectorSize = 4
  PageSize = 2
  ProgSize = 1
  CacheSize = 2
  PointerStep = 2
  FlashTasks = {node_task, tcp_task}
  NoTask = NoTask
  FlashLimit <- FlashEventLimit
  Nodes = {n1, n2}
  Values = {v1, v2}
  TokenCount = 8
  ServerCommands = {"DO_NOTHING", "SET_LIGHT"}
  DataSizes = {0, 1}
  TextDestinations <- ServerDestinations
  Missing = Missing
  Broken = Broken
  Width = 6
  Pages = 2
  TextPage = 1
  Margins = {2, 3, 4}
  TextWidth = 3
  DisplayLimit <- DisplayEventLimit
INVARIANTS
  NoContention
  LastCallHolds
  InPlace
  DoneWhenReported
  RoundTrip
  DestinationsBounded
  PictureShown
PROPERTY OthersKept
CHECK_DEADLOCK FALSE
