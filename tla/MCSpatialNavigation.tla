------------------------- MODULE MCSpatialNavigation -------------------------
(***************************************************************************)
(* A screen of 10 x 6: an item beside a scroll view that holds an item and *)
(* a plain view, which has two items side by side, one of them preferred.  *)
(***************************************************************************)
EXTENDS SpatialNavigation

CONSTANTS Group, A, B, C, D

Point(x, y) == [a \in Axis |-> IF a = "x" THEN x ELSE y]
Rect(x, y, w, h) == [lo |-> Point(x, y), hi |-> Point(x + w, y + h)]

MCComponent == {Root, Scroller, Group, A, B, C, D}
MCItem == {A, B, C, D}
MCPreferred == {B}
MCParentOf == [c \in MCComponent |->
  CASE c = Root -> None [] c \in {Scroller, D} -> Root
    [] c \in {Group, C} -> Scroller [] c \in {A, B} -> Group]
MCBefore == {<<A, B>>, <<Group, C>>, <<Scroller, D>>}
MCFrameOf == [c \in MCComponent |->
  CASE c = Root -> Rect(0, 0, 10, 6) [] c = Scroller -> Rect(4, 1, 4, 4)
    [] c = D -> Rect(0, 0, 3, 2) [] c = Group -> Rect(0, 0, 4, 5)
    [] c = A -> Rect(2, 3, 2, 2) [] c = B -> Rect(0, 3, 2, 2) [] c = C -> Rect(0, 5, 2, 1)]
MCTag == [c \in MCComponent |->
  CASE c = Root -> 1 [] c = Scroller -> 2 [] c = Group -> 3 [] c = A -> 4 [] c = B -> 5
    [] c = C -> 6 [] c = D -> 7]

\* The range ends at 4, or at 5 under the smaller frame: the offset to snap to lies
\* beyond it or in it.
MCContentSize == {Point(4, 8), Point(6, 3)}
MCFrameSize == {Point(4, 4), Point(4, 3)}
MCScrollProps == {[enabled |-> TRUE, paging |-> FALSE, snaps |-> {}, offset |-> Point(0, 0)],
                  [enabled |-> TRUE, paging |-> FALSE, snaps |-> {5}, offset |-> Point(0, 0)]}
MCOffset == {Point(9, -1)}
MCCandidateFrame == {MCFrameOf[c] : c \in {Group, A, B, C, D}}

\* A list that React scrolls to offset 2, with two items below the one offset to
\* snap to, which is beyond the range: a key upwards snaps back to it.
MCLongContentSize == {Point(4, 8)}
MCLongFrameSize == {Point(4, 4)}
MCLongFrameOf == [MCFrameOf EXCEPT ![B] = Rect(0, 6, 4, 1), ![C] = Rect(0, 7, 2, 1)]
MCLongScrollProps == {[enabled |-> TRUE, paging |-> FALSE, snaps |-> {5}, offset |-> Point(0, 2)]}
MCLongCandidateFrame == {MCLongFrameOf[c] : c \in {Group, A, B, C, D}}

=============================================================================
