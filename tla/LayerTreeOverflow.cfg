SPECIFICATION Spec
CONSTANTS
  View = {v1, v2}
  Root = root
  NoLayer = noLayer
  Width = 3
  Moves = "none"
  Overflow = TRUE
  MaxX = 1
  MaxW = 2
  MaxMutations = 3
  MaxTransactions = 2
SYMMETRY ViewSymmetry
INVARIANT ScreenCurrent
\* After the last transaction nothing changes any more.
CHECK_DEADLOCK FALSE
