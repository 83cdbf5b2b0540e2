SPECIFICATION Spec
CONSTANTS
  Key = {up, ok}
  NoKey = noKey
  Builds = {FALSE}
  MaxKeys = 3
  MaxFocus = 0
  MaxObserve = 0
PROPERTY RepeatIsKeyBefore
\* Without keys the three threads are at rest.
CHECK_DEADLOCK FALSE
