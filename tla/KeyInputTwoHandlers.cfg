SPECIFICATION Spec
CONSTANTS
  Key = {up}
  NoKey = noKey
  Builds = {TRUE}
  MaxKeys = 2
  MaxFocus = 0
  MaxObserve = 4
INVARIANT Throttled
\* Without keys the three threads are at rest.
CHECK_DEADLOCK FALSE
