SPECIFICATION FairSpec
CONSTANTS
  MsPerSecond = 2
  NoTimeout = NoTimeout
  Delay = {1, 4}
  Interval = {}
  Overhead = {0}
  MaxTimers = 2
  MaxDeletes = 0
  LastCreate = 3
  MaxTime = 9
PROPERTIES EveryTimerCalled
CHECK_DEADLOCK FALSE
