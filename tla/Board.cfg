SPECIFICATION Spec
CONSTANTS
  InitialPeriod = 10
  IterationPeriod = 1
  AdcTimeout = 1
  MeasurementCount = 5
  DefaultPeriod = 1200
  Periods = {1500}
  WatchdogTimeout = 250
  WatchdogReset = 327
  Limit <- FewOfEach
  Horizon = 3000
INVARIANTS TypeOK MeasuredInTheDark LatestColorShown MeasuredAgain WatchdogFed
CHECK_DEADLOCK FALSE
