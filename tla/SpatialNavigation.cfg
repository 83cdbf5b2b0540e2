SPECIFICATION NavSpec
CONSTANTS
  Root = Root
  Scroller = Scroller
  Group = Group
  A = A
  B = B
  C = C
  D = D
  None = None
  NoFrame = NoFrame
  Component <- MCComponent
  Item <- MCItem
  Preferred <- MCPreferred
  ParentOf <- MCParentOf
  Before <- MCBefore
  FrameOf <- MCFrameOf
  Tag <- MCTag
  ContentSize <- MCContentSize
  FrameSize <- MCFrameSize
  ScrollProps <- MCScrollProps
  Offset <- MCOffset
  CandidateFrame <- MCCandidateFrame
  MaxTransactions = 2
INVARIANTS OffsetInRange ListsComplete
PROPERTIES PicksNearest FocusShown
CHECK_DEADLOCK FALSE
