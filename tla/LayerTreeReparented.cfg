SPECIFICATION Spec
CONSTANTS
  View = {v1, v2}
  Root = root
  NoLayer = noLayer
  Width = 3
  Moves = "reparent"
  Overflow = FALSE
  MaxX = 1
  MaxW = 2
  MaxMutations = 4
  MaxTransactions = 2
SYMMETRY ViewSymmetry
INVARIANT ScreenCurrent
\* After the last transaction nothing changes any more.
CHECK_DEADLOCK FALSE
