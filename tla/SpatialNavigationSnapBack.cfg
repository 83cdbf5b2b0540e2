SPECIFICATION NavSpec
CONSTANTS
  Root = Root
  Scroller = Scroller
  Group = Group
  A = A
  B = B
  C = C
  D = D
  None = None
  NoFrame = NoFrame
  Component <- MCComponent
  Item <- MCItem
  Preferred <- MCPreferred
  ParentOf <- MCParentOf
  Before <- MCBefore
  FrameOf <- MCLongFrameOf
  Tag <- MCTag
  ContentSize <- MCLongContentSize
  FrameSize <- MCLongFrameSize
  ScrollProps <- MCLongScrollProps
  Offset <- MCOffset
  CandidateFrame <- MCLongCandidateFrame
  MaxTransactions = 2
INVARIANT OffsetAlwaysInRange
CHECK_DEADLOCK FALSE
