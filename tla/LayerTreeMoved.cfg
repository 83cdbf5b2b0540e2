SPECIFICATION Spec
CONSTANTS
  View = {v1, v2}
  Root = root
  NoLayer = noLayer
  Width = 2
  Moves = "reorder"
  Overflow = FALSE
  MaxX = 1
  MaxW = 1
  MaxMutations = 3
  MaxTransactions = 2
SYMMETRY ViewSymmetry
INVARIANT MovedViewsShown
\* After the last transaction nothing changes any more.
CHECK_DEADLOCK FALSE
