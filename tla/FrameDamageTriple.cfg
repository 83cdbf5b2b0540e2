SPECIFICATION Spec
CONSTANTS
  Width = 2
  Buffer = {b1, b2, b3}
  NoBuffer = noBuffer
  MaxHistory = 5
  MaxRects = 1
  MaxFrames = 6
SYMMETRY Symmetry
INVARIANT FrontUpToDate
\* The last of MaxFrames frames ends the behaviour.
CHECK_DEADLOCK FALSE
