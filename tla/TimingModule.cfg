SPECIFICATION FairSpec
CONSTANTS
  MsPerSecond = 2
  NoTimeout = NoTimeout
  Delay = {0, 1, 4}
  Interval = {2}
  Overhead = {0, 2}
  MaxTimers = 3
  MaxDeletes = 2
  LastCreate = 1
  MaxTime = 6
INVARIANTS OneShotCalledOnce
PROPERTIES ScannedTimersCalled
\* The clock stops and nobody creates timers any more.
CHECK_DEADLOCK FALSE
