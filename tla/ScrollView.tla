----------------------------- MODULE ScrollView -----------------------------
(***************************************************************************)
(* RSkComponentScrollView: the scroll position of one scroll view.  It is  *)
(* moved by the properties and the state that React hands over, by the     *)
(* commands scrollTo and scrollToEnd, and by the spatial navigator, which  *)
(* asks it to scroll in the direction of a key or to a component.          *)
(*                                                                         *)
(* React and the navigator's focus updates run on the main thread, keys on *)
(* the thread of the input event manager, without a lock between them: a   *)
(* key looks at the view or decides on a position in one step, and sets    *)
(* the position in a later one.                                            *)
(*                                                                         *)
(* Points and sizes are functions of the axis; a rectangle has its left    *)
(* upper corner lo and its right lower corner hi.  Frames of components    *)
(* are in the coordinates of the content (getLayerAbsoluteFrame of a       *)
(* component inside a scroll layer).                                       *)
(***************************************************************************)
EXTENDS Integers

CONSTANTS
  ContentSize,    \* content sizes that the state of the shadow view may hold
  FrameSize,      \* frame sizes that the layout may give the scroll view
  ScrollProps,    \* values of scrollEnabled, pagingEnabled, snapToOffsets (as a
                  \* set) and contentOffset
  Offset,         \* offsets that the command scrollTo may ask for
  CandidateFrame, \* frames of the components that the navigator scrolls to
  NoFrame         \* no candidate (nullptr, or the scroll view itself)

Axis == {"x", "y"}
Direction == {"right", "left", "down", "up"}

\* A set of snap offsets has a least and a greatest element.
ASSUME ScrollAssumption ==
  /\ ContentSize \subseteq [Axis -> Nat] /\ FrameSize \subseteq [Axis -> Nat]
  /\ Offset \subseteq [Axis -> Int]
  /\ CandidateFrame \subseteq [lo : [Axis -> Int], hi : [Axis -> Int]]
  /\ NoFrame \notin CandidateFrame
  /\ ScrollProps \subseteq [enabled : BOOLEAN, paging : BOOLEAN, snaps : SUBSET Int,
                            offset : [Axis -> Int]]
  /\ \A p \in ScrollProps : \A s \in SUBSET p.snaps :
       s # {} => /\ \E o \in s : \A q \in s : o <= q
                 /\ \E o \in s : \A q \in s : o >= q

VARIABLES
  scrollPos,       \* getScrollPosition() of the scroll layer
  contentSize,     \* getContentSize() of the scroll layer
  frameSize,       \* size of getFrame()
  horizontal,      \* isHorizontalScroll_
  props,           \* scrollEnabled_, pagingEnabled_, snapToOffsets_, contentOffset_
  stale,           \* the frame has changed since the content size was handled
  look,            \* input thread: what isVisible or scrollInDirection found, NoLook
  beyond           \* history: the position was set from an offset outside the range,
                   \* or from one that was found under other sizes

viewVars == <<contentSize, frameSize, horizontal, props, stale>>
scrollVars == <<scrollPos, viewVars, look, beyond>>

Sizes == <<contentSize, frameSize, horizontal>>
NoLook == [status |-> "none"]

Origin == [a \in Axis |-> 0]

ScrollInit ==
  /\ scrollPos = Origin /\ contentSize = Origin
  /\ frameSize \in FrameSize
  /\ horizontal = FALSE
  /\ props \in ScrollProps
  /\ stale = FALSE /\ look = NoLook /\ beyond = FALSE

-----------------------------------------------------------------------------
(* handleScroll                                                            *)

AxisOf(d) == IF d \in {"right", "left"} THEN "x" ELSE "y"
Forward(d) == d \in {"right", "down"}

ScrollAxis == IF horizontal THEN "x" ELSE "y"

\* std::min(std::max(0, v), limit)
Clamp(v, limit) ==
  LET low == IF v < 0 THEN 0 ELSE v IN IF low > limit THEN limit ELSE low

\* handleScroll(x, y) without the lower bound of the range.
Mutant_Clamped(p, content, frame, wide) ==
  [a \in Axis |->
     IF a # (IF wide THEN "x" ELSE "y") \/ (~wide /\ content[a] <= frame[a]) THEN 0
     ELSE IF p[a] > content[a] - frame[a] THEN content[a] - frame[a] ELSE p[a]]

\* The position that handleScroll(x, y) hands on: inside the scroll range
\* along the axis that scrolls, zero along the other.
Clamped(p, content, frame, wide) ==
  [a \in Axis |->
     IF a # (IF wide THEN "x" ELSE "y") \/ (~wide /\ content[a] <= frame[a]) THEN 0
     ELSE Clamp(p[a], content[a] - frame[a])]

\* handleScroll(scrollPos): the position is set as it is.
HandleScroll(p) == [status |-> "scrollOnly", pos |-> p]

-----------------------------------------------------------------------------
(* What React changes                                                      *)

UpdateComponentProps(new) ==
  /\ props' = new
  /\ scrollPos' = IF new.offset # props.offset
                  THEN Clamped(new.offset, contentSize, frameSize, horizontal) ELSE scrollPos
  /\ beyond' = (beyond /\ new.offset = props.offset)
  /\ UNCHANGED <<contentSize, frameSize, horizontal, stale, look>>

\* updateComponentState: a new content size may turn a vertical scroll view
\* into a horizontal one, which starts at contentOffset_ again.
UpdateComponentState(content) ==
  /\ content # contentSize
  /\ contentSize' = content
  /\ horizontal' = (content.x > frameSize.x)
  /\ scrollPos' = Clamped(IF horizontal' = horizontal THEN scrollPos ELSE props.offset,
                          content, frameSize, horizontal')
  /\ stale' = FALSE /\ beyond' = FALSE
  /\ UNCHANGED <<frameSize, props, look>>

\* updateComponentData with new layout metrics: only the frame of the layer
\* is set.
UpdateLayout(size) ==
  /\ size # frameSize
  /\ frameSize' = size
  /\ stale' = TRUE
  /\ UNCHANGED <<scrollPos, contentSize, horizontal, props, look, beyond>>

\* A new scroll view: its layout, its properties and its state are handed over
\* in this order.
CreateScroller ==
  /\ frameSize' \in FrameSize /\ props' \in ScrollProps /\ contentSize' \in ContentSize
  /\ horizontal' = (contentSize'.x > frameSize'.x)
  /\ scrollPos' = Clamped(IF horizontal' THEN props'.offset ELSE Origin,
                          contentSize', frameSize', horizontal')
  /\ stale' = FALSE /\ beyond' = FALSE
  /\ UNCHANGED look

-----------------------------------------------------------------------------
(* handleCommand                                                           *)

ScrollToEnd ==
  /\ horizontal \/ contentSize.y > frameSize.y
  /\ scrollPos' = [Origin EXCEPT ![ScrollAxis] = contentSize[ScrollAxis] - frameSize[ScrollAxis]]
  /\ beyond' = FALSE
  /\ UNCHANGED <<viewVars, look>>

ScrollToOffset(p) ==
  /\ scrollPos' = Clamped(p, contentSize, frameSize, horizontal)
  /\ beyond' = FALSE
  /\ UNCHANGED <<viewVars, look>>

-----------------------------------------------------------------------------
(* The functions of a navigation container                                 *)

CanScrollInDirection(d) ==
  /\ props.enabled
  /\ AxisOf(d) = ScrollAxis
  /\ horizontal \/ contentSize.y >= frameSize.y
  /\ IF Forward(d) THEN contentSize[AxisOf(d)] - scrollPos[AxisOf(d)] > frameSize[AxisOf(d)]
                   ELSE scrollPos[AxisOf(d)] # 0

Encloses(outer, inner) ==
  \A a \in Axis : outer.lo[a] <= inner.lo[a] /\ inner.hi[a] <= outer.hi[a]
Intersects(r, s) == \A a \in Axis : r.lo[a] < s.hi[a] /\ s.lo[a] < r.hi[a]

VisibleRect(p) == [lo |-> p, hi |-> [a \in Axis |-> p[a] + frameSize[a]]]
IsVisible(r) == Encloses(VisibleRect(scrollPos), r)

CalculateNextScrollOffset(d, contentLength, viewLength, offset) ==
  LET step == IF props.paging THEN viewLength ELSE viewLength \div 2
  IN  IF Forward(d)
      THEN IF contentLength - (offset + step) <= viewLength THEN contentLength - viewLength
                                                            ELSE offset + step
      ELSE IF offset <= step THEN 0 ELSE offset - step

GetNextScrollPosition(d) ==
  LET a == AxisOf(d)
  IN  [scrollPos EXCEPT ![a] =
         CalculateNextScrollOffset(d, contentSize[a], frameSize[a], scrollPos[a])]

Least(s) == CHOOSE o \in s : \A p \in s : o <= p
Greatest(s) == CHOOSE o \in s : \A p \in s : o >= p

\* handleSnapToOffsetScroll: to the first snap offset behind the frame or the
\* candidate, or back to the last one before it.  A snap offset outside the range
\* is cut when going forward only; a candidate with no snap offset behind it
\* leaves the position as it is and is scrolled to all the same.
HandleSnapToOffsetScroll(d, r) ==
  LET a       == ScrollAxis
      current == IF r = NoFrame THEN scrollPos[a] ELSE r.lo[a]
      upper   == {o \in props.snaps : o > IF r = NoFrame THEN current + frameSize[a] ELSE current}
      lower   == {o \in props.snaps : o < current}
      next    == IF upper = {} THEN scrollPos[a] ELSE Least(upper)
      prev    == IF lower = {} THEN -1 ELSE Greatest(lower)
      target  == IF ~Forward(d) THEN prev
                 ELSE IF contentSize[a] - next < frameSize[a] THEN contentSize[a] - frameSize[a]
                 ELSE next
  IN  IF IF Forward(d) THEN next = current ELSE prev = -1
      THEN [status |-> "noScroll", pos |-> scrollPos]
      ELSE [status |-> IF r = NoFrame THEN "scrollOnly" ELSE "scrollToFocus",
            pos    |-> [scrollPos EXCEPT ![a] = target]]

\* handleScroll(direction, candidateFrame) without the length of the frame.
Mutant_ScrollToFrame(d, r) ==
  LET a == AxisOf(d)
      p == [scrollPos EXCEPT ![a] = IF Forward(d) THEN r.hi[a] ELSE r.lo[a]]
  IN  [status |-> "scrollToFocus", pos |-> Clamped(p, contentSize, frameSize, horizontal)]

\* handleScroll(direction, candidateFrame): brings the candidate to the edge
\* of the frame.
ScrollToFrame(d, r) ==
  LET a == AxisOf(d)
      p == [scrollPos EXCEPT ![a] = IF Forward(d) THEN r.hi[a] - frameSize[a] ELSE r.lo[a]]
  IN  [status |-> "scrollToFocus", pos |-> Clamped(p, contentSize, frameSize, horizontal)]

ScrollInDirection(r, d) ==
  IF ~CanScrollInDirection(d) THEN [status |-> "noScroll", pos |-> scrollPos]
  ELSE IF props.snaps # {} THEN HandleSnapToOffsetScroll(d, r)
  ELSE LET p == GetNextScrollPosition(d)
       IN  IF r = NoFrame THEN HandleScroll(p)
           ELSE IF IsVisible(r) THEN [status |-> "noScroll", pos |-> scrollPos]
           ELSE IF ~Intersects(VisibleRect(p), r) THEN HandleScroll(p)
           ELSE IF props.paging THEN [status |-> "scrollToFocus", pos |-> p]
           ELSE ScrollToFrame(d, r)

\* scrollTo(candidate), for a component that is given the focus.
ScrollTo(r) ==
  IF r = NoFrame \/ IsVisible(r) THEN [status |-> "noScroll", pos |-> scrollPos]
  ELSE LET before == r.lo[ScrollAxis] < scrollPos[ScrollAxis]
       IN  ScrollToFrame(CASE horizontal /\ before   -> "left"
                           [] horizontal /\ ~before  -> "right"
                           [] ~horizontal /\ before  -> "up"
                           [] ~horizontal /\ ~before -> "down", r)

\* The main thread looks and scrolls at once: none of it changes the sizes.
MoveTo(result) ==
  /\ scrollPos' = result.pos
  /\ beyond' = (beyond /\ result.status = "noScroll")
  /\ UNCHANGED <<viewVars, look>>

ScrollRange(a) == IF contentSize[a] > frameSize[a] THEN contentSize[a] - frameSize[a] ELSE 0

\* A snap offset that handleSnapToOffsetScroll does not cut to the range.
Uncut(d) ==
  \E o \in props.snaps : o < 0 \/ (~Forward(d) /\ o > ScrollRange(ScrollAxis))

\* What the input thread keeps of a call: the position, the sizes and properties
\* it was found with, and whether it may lie outside the range of these sizes.
Look(result, doubtful) ==
  look' = [status |-> result.status, pos |-> result.pos, sizes |-> Sizes, props |-> props,
           doubtful |-> doubtful]

\* isVisible of the candidate, from the input thread.
See ==
  /\ Look([status |-> "visible", pos |-> scrollPos], FALSE)
  /\ UNCHANGED <<scrollPos, viewVars, beyond>>

\* scrollInDirection, until a position is set.
Decide(result, d) ==
  /\ result.status # "noScroll"
  /\ Look(result, stale \/ beyond \/ Uncut(d))
  /\ UNCHANGED <<scrollPos, viewVars, beyond>>

\* The end of scrollInDirection: setScrollPosition of the scroll layer.
SetPosition ==
  /\ look.status \in {"scrollOnly", "scrollToFocus"}
  /\ scrollPos' = look.pos
  /\ beyond' = (look.doubtful \/ look.sizes # Sizes)
  /\ UNCHANGED viewVars

Forget == look' = NoLook /\ UNCHANGED <<scrollPos, viewVars, beyond>>

-----------------------------------------------------------------------------
ReactScrolls ==
  \/ \E p \in ScrollProps : UpdateComponentProps(p)
  \/ \E c \in ContentSize : UpdateComponentState(c)
  \/ \E f \in FrameSize : UpdateLayout(f)
  \/ ScrollToEnd
  \/ \E o \in Offset : ScrollToOffset(o)

NavigatorScrolls ==
  \/ \E d \in Direction, r \in CandidateFrame \cup {NoFrame} : Decide(ScrollInDirection(r, d), d)
  \/ SetPosition /\ look' \in {look, NoLook}
  \/ See \/ Forget
  \/ \E r \in CandidateFrame : MoveTo(ScrollTo(r))

ScrollNext == CreateScroller \/ ReactScrolls \/ NavigatorScrolls

ScrollSpec == ScrollInit /\ [][ScrollNext]_scrollVars

-----------------------------------------------------------------------------
(* Properties                                                              *)

Looks ==
  {NoLook} \cup
  [status : {"visible", "scrollOnly", "scrollToFocus"}, pos : [Axis -> Int],
   sizes : (ContentSize \cup {Origin}) \X FrameSize \X BOOLEAN, props : ScrollProps,
   doubtful : BOOLEAN]

ScrollTypeOK ==
  /\ scrollPos \in [Axis -> Int]
  /\ contentSize \in ContentSize \cup {Origin} /\ frameSize \in FrameSize
  /\ horizontal \in BOOLEAN /\ stale \in BOOLEAN /\ beyond \in BOOLEAN
  /\ props \in ScrollProps /\ look \in Looks

\* A position inside the range of these sizes along the axis that scrolls and
\* zero along the other.
Within(p, sizes) ==
  LET axis == IF sizes[3] THEN "x" ELSE "y"
      spare == sizes[1][axis] - sizes[2][axis]
  IN  /\ 0 <= p[axis] /\ p[axis] <= IF spare > 0 THEN spare ELSE 0
      /\ \A a \in Axis \ {axis} : p[a] = 0

\* The scroll position shows nothing but content, whatever order properties, new
\* content, commands and keys come in (snapping, paging, scrolling to a
\* component, a key that decides before React acts and scrolls after it), unless
\* a new frame came without a new content size, or the position comes from a key
\* that snapped with an offset that the range does not hold, or that decided
\* under other sizes or from such a position.
OffsetInRange == ~stale /\ ~beyond => Within(scrollPos, Sizes)

\* The same without the exceptions that keys make: false.
OffsetAlwaysInRange == ~stale => Within(scrollPos, Sizes)

\* What makes OffsetInRange inductive: the axis is the one that the sizes ask
\* for, so that a horizontal scroll view has something to scroll, and what a key
\* has decided is in the range of the sizes it was found with.
AxisFollowsSizes == ~stale => horizontal = (contentSize.x > frameSize.x)

DecisionInRange ==
  look.status \in {"scrollOnly", "scrollToFocus"} /\ ~look.doubtful => Within(look.pos, look.sizes)

ScrollInv == ScrollTypeOK /\ AxisFollowsSizes /\ OffsetInRange /\ DecisionInRange

=============================================================================
