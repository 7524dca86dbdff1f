SPECIFICATION FairSpec
CONSTANTS
  Tasks = {t1, t2}
  Heartbeat = 1
  Watchdog = 3
  MaxPipe = 3
  MaxInterrupts = 2
INVARIANTS
  OutcomeIsTrue
  WatchdogSparesTheLiving
  NothingLeftBehind
PROPERTIES
  MeasurementEnds
