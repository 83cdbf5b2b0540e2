SPECIFICATION Spec
CONSTANTS
  Width = 3
  Buffer = {b1, b2}
  NoBuffer = noBuffer
  MaxHistory = 2
  MaxRects = 2
  MaxFrames = 4
SYMMETRY Symmetry
INVARIANTS FrontUpToDate DamageListsMinimal HistoryComplete
\* The last of MaxFrames frames ends the behaviour.
CHECK_DEADLOCK FALSE
