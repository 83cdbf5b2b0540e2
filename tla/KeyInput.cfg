SPECIFICATION Spec
CONSTANTS
  Key = {up, ok}
  NoKey = noKey
  Builds = {TRUE, FALSE}
  MaxKeys = 3
  MaxFocus = 1
  MaxObserve = 3
INVARIANT KeyThrottled
INVARIANT CountIsOutstanding
INVARIANT NewestKeyKept
PROPERTY RepeatIsSameKey
PROPERTY KeysServed
\* Without keys the three threads are at rest.
CHECK_DEADLOCK FALSE
