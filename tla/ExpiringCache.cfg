SPECIFICATION ExpiringSpec
CONSTANTS
  MsPerSecond = 2
  NoTimeout = NoTimeout
  Key = {k1, k2}
  Default = 0
  Ages = {1, 3}
  Year = 20
  LastStore = 2
  MaxTime = 12
  MaxQueue = 2
INVARIANTS TypeOK WakeUpPending
PROPERTY ImplementsCache
CHECK_DEADLOCK FALSE
