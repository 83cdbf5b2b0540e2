SPECIFICATION Spec
CONSTANTS
  Key = {up, ok}
  NoKey = noKey
  Builds = {TRUE}
  MaxKeys = 2
  MaxFocus = 0
  MaxObserve = 1
INVARIANT CountExact
\* Without keys the three threads are at rest.
CHECK_DEADLOCK FALSE
