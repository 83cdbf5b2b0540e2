SPECIFICATION Spec
CONSTANTS
  View = {v1, v2, v3}
  Root = root
  NoLayer = noLayer
  Width = 1
  Moves = "none"
  Overflow = FALSE
  MaxX = 0
  MaxW = 1
  MaxMutations = 4
  MaxTransactions = 2
SYMMETRY ViewSymmetry
INVARIANT OrderFollowsReact
\* After the last transaction nothing changes any more.
CHECK_DEADLOCK FALSE
