SPECIFICATION Spec
CONSTANTS
  View = {v1, v2, v3}
  Root = root
  NoLayer = noLayer
  Width = 2
  Moves = "reorder"
  Overflow = FALSE
  MaxX = 1
  MaxW = 2
  MaxMutations = 4
  MaxTransactions = 2
SYMMETRY ViewSymmetry
INVARIANT ScreenCurrent
INVARIANT LinksConsistent
INVARIANT LayersShown
\* After the last transaction nothing changes any more.
CHECK_DEADLOCK FALSE
