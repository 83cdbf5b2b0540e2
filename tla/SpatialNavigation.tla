-------------------------- MODULE SpatialNavigation --------------------------
(***************************************************************************)
(* RSkSpatialNavigator and the navigation lists of its containers.  React  *)
(* mounts and unmounts components on the main thread, one mutation of a    *)
(* transaction after the other, and every mutation maintains the lists of  *)
(* focusable components; a key makes the worker thread of the input event  *)
(* manager look for the next focus in those lists, scroll (ScrollView) and *)
(* move the focus.  No lock orders the two threads.                        *)
(*                                                                         *)
(* The components are those of one screen: a root view, one scroll view in *)
(* it, plain views and items.  A key is handled in steps: the search of a  *)
(* container for a candidate, the look whether it is visible, the decision *)
(* where to scroll, the scrolling and the move of the focus; a step that   *)
(* touches a component that was deleted ends the program (dangling).       *)
(***************************************************************************)
EXTENDS ScrollView, Sequences, FiniteSets, SequencesExt

CONSTANTS
  Component, Root, Scroller,   \* the components, the root view, the scroll view
  None,                        \* nullptr
  ParentOf,      \* the parent under which React puts a component (Root: None)
  Before,        \* pairs of siblings of which React handles the first one first
  FrameOf,       \* getLayerAbsoluteFrame: inside Scroller, in content coordinates
  Tag,           \* tags, larger for later components; they order equal frames
  Item,          \* the components that are focusable, unless React says otherwise
  Preferred,     \* the components with hasTVPreferredFocus
  MaxTransactions \* bound on the transactions that React commits

\* The components are a tree: Root alone has no parent, and no set of components
\* holds the parents of all its members.
ASSUME SceneAssumption ==
  /\ {Root, Scroller} \subseteq Component /\ None \notin Component
  /\ ParentOf \in [Component -> Component \cup {None}]
  /\ \A c \in Component : ParentOf[c] = None <=> c = Root
  /\ ParentOf[Scroller] = Root
  /\ \A S \in SUBSET Component : S # {} => \E c \in S : ParentOf[c] \notin S
  /\ Item \subseteq Component \ {Root, Scroller} /\ Preferred \subseteq Item
  /\ Tag \in [Component -> Nat] /\ IsInjective(Tag)
  /\ FrameOf \in [Component -> [lo : [Axis -> Int], hi : [Axis -> Int]]]
  /\ \A c \in Component \ {Root, Scroller} : FrameOf[c] \in CandidateFrame

VARIABLES
  alive,        \* components that exist
  parent,       \* parent_
  focusable,    \* components whose properties make them focusable
  nav,          \* navComponentList_ of every component
  missed,       \* history: components whose last update found no container
  currentFocus, currentContainer,
  todo,         \* main thread: the rest of the transaction being performed,
                \* the components to insert, to delete, to move and to update
  key,          \* input thread: the key being handled, see NoPress
  transactions, \* transactions committed so far
  dangling      \* a deleted component was used

treeVars == <<alive, parent, focusable, nav, missed>>
focusVars == <<currentFocus, currentContainer>>
navVars == <<scrollVars, treeVars, focusVars, todo, key, transactions, dangling>>

Performed == [insert |-> {}, delete |-> {}, move |-> {}, update |-> {}]

NoPress == [pc |-> "idle", dir |-> "up", container |-> None, candidate |-> None,
          ancestor |-> FALSE, visibleOnly |-> FALSE, entered |-> None]

NavInit ==
  /\ ScrollInit
  /\ alive = {Root}
  /\ parent = [c \in Component |-> None]
  /\ focusable = Item
  /\ nav = [c \in Component |-> <<>>] /\ missed = {}
  /\ currentFocus = None /\ currentContainer = None
  /\ todo = Performed /\ key = NoPress /\ transactions = 0 /\ dangling = FALSE

-----------------------------------------------------------------------------
(* The tree of components                                                  *)

IsContainer(c) == c \in {Root, Scroller}
IsFocusable(c) == c \in focusable \/ IsContainer(c)

NearestAncestorContainer(c) ==
  LET nearest[d \in Component] ==
        IF parent[d] = None \/ IsContainer(parent[d]) THEN parent[d] ELSE nearest[parent[d]]
  IN  nearest[c]

HasAncestor(c, container) ==
  LET has[d \in Component] == parent[d] # None /\ (parent[d] = container \/ has[parent[d]])
  IN  has[c]

Mounted(c) == c = Root \/ HasAncestor(c, Root)

AbsoluteFrame(c) ==
  IF c = Scroller
  THEN [lo |-> FrameOf[c].lo, hi |-> [a \in Axis |-> FrameOf[c].lo[a] + frameSize[a]]]
  ELSE FrameOf[c]

ScreenFrame(c) ==
  LET r == AbsoluteFrame(c)
      origin == AbsoluteFrame(Scroller).lo
      Shift(p) == [a \in Axis |-> p[a] - scrollPos[a] + origin[a]]
  IN  IF NearestAncestorContainer(c) = Scroller THEN [lo |-> Shift(r.lo), hi |-> Shift(r.hi)]
                                                ELSE r

\* isVisible of a container.
VisibleIn(container, c) ==
  IF container = Scroller THEN IsVisible(AbsoluteFrame(c))
                          ELSE Encloses(FrameOf[Root], AbsoluteFrame(c))

-----------------------------------------------------------------------------
(* Mutations                                                               *)

\* updateSpatialNavigatorState: a focused component that leaves its list is
\* blurred.
BlurIfListed(c, container) ==
  /\ currentFocus' = IF currentFocus = c /\ c \in ToSet(nav[container]) THEN None ELSE currentFocus
  /\ UNCHANGED currentContainer

\* mountChildComponent that forgets the focusable descendants of the child.
Mutant_MountChildComponent(c) ==
  LET p == ParentOf[c]
      container == IF IsContainer(p) \/ NearestAncestorContainer(p) = None THEN p
                   ELSE NearestAncestorContainer(p)
  IN  /\ parent' = [parent EXCEPT ![c] = p]
      /\ nav' = [nav EXCEPT ![container] = @ \o (IF IsFocusable(c) THEN <<c>> ELSE <<>>)]
      /\ missed' = missed \ {c}
      /\ UNCHANGED <<alive, focusable, focusVars>>

\* mountChildComponent: the child goes into the list of the nearest container,
\* or of its parent if there is none yet, and the list that a child other than
\* a container has collected is copied there (the child keeps it).
MountChildComponent(c) ==
  LET p == ParentOf[c]
      container == IF IsContainer(p) \/ NearestAncestorContainer(p) = None THEN p
                   ELSE NearestAncestorContainer(p)
  IN  /\ parent' = [parent EXCEPT ![c] = p]
      /\ nav' = [nav EXCEPT ![container] = @ \o (IF IsFocusable(c) THEN <<c>> ELSE <<>>)
                                             \o (IF IsContainer(c) THEN <<>> ELSE nav[c])]
      /\ missed' = missed \ {c}
      /\ UNCHANGED <<alive, focusable, focusVars>>

\* unmountChildComponent
UnmountChildComponent(c) ==
  LET container == NearestAncestorContainer(c)
  IN  /\ IF container # None /\ IsFocusable(c)
         THEN /\ nav' = [nav EXCEPT ![container] = RemoveFirst(@, c)]
              /\ BlurIfListed(c, container)
         ELSE UNCHANGED <<nav, focusVars>>
      /\ parent' = [parent EXCEPT ![c] = None]
      /\ UNCHANGED <<alive, focusable, missed>>

\* The last reference to the component goes.
Delete(c) ==
  /\ alive' = alive \ {c}
  /\ nav' = [nav EXCEPT ![c] = <<>>]
  /\ UNCHANGED <<parent, focusable, missed, focusVars>>

\* updateComponentData with properties that make an item focusable or stop it
\* from being so; updateComponent of the container, if there is one.
UpdateFocusable(c) ==
  LET container == NearestAncestorContainer(c)
      listed == c \in ToSet(nav[container])
  IN  /\ focusable' = IF c \in focusable THEN focusable \ {c} ELSE focusable \cup {c}
      /\ IF container = None THEN missed' = missed \cup {c} /\ UNCHANGED <<nav, focusVars>>
         ELSE /\ missed' = missed \ {c}
              /\ nav' = [nav EXCEPT ![container] =
                           IF listed /\ c \notin focusable' THEN RemoveFirst(@, c)
                           ELSE IF ~listed /\ c \in focusable' THEN Append(@, c) ELSE @]
              /\ IF c \notin focusable' THEN BlurIfListed(c, container) ELSE UNCHANGED focusVars
      /\ UNCHANGED <<alive, parent>>

-----------------------------------------------------------------------------
(* The main thread                                                         *)

\* A component and what is below it.
Subtree ==
  [c \in Component |->
     {d \in Component : \A S \in SUBSET Component :
        c \in S /\ (\A e \in Component : ParentOf[e] \in S => e \in S) => d \in S}]

Below(c) == Subtree[c] \ {c}

\* What comes next in a set: children before their parents, siblings in order.
Foremost(set) == {c \in set : \A d \in set : ParentOf[d] # c /\ <<d, c>> \notin Before}

\* Bounds: a transaction moves at most one component and updates at most one,
\* which is below the one that it moves; at most one of the items that it mounts
\* is not focusable.
AtMostOne == {{}} \cup {{c} : c \in Component}

MainIdle == ~dangling /\ todo = Performed
Commit == MainIdle /\ transactions < MaxTransactions /\ transactions' = transactions + 1

\* New siblings with what is below them: each subtree is put together from its
\* leaves and mounted in the end.
CommitMount ==
  /\ Commit
  /\ \E tops \in SUBSET {c \in Component \ alive : ParentOf[c] \in alive}, plain \in AtMostOne :
       LET new == UNION {Subtree[c] : c \in tops}
       IN  /\ new # {} /\ plain \subseteq Item \cap new
           /\ alive' = alive \cup new
           /\ todo' = [todo EXCEPT !.insert = new]
           /\ focusable' = (focusable \cup (Item \cap new)) \ plain
           /\ IF Scroller \in new THEN CreateScroller ELSE UNCHANGED scrollVars
  /\ UNCHANGED <<parent, nav, missed, focusVars, key, dangling>>

\* A subtree is taken down from its leaves.
CommitUnmount(c) ==
  /\ Commit
  /\ c \in alive \ {Root}
  /\ todo' = [todo EXCEPT !.delete = Subtree[c] \cap alive]
  /\ UNCHANGED <<scrollVars, treeVars, focusVars, key, dangling>>

\* A component changes its place among its siblings, new properties change
\* whether an item is focusable, or both in one transaction.
CommitUpdate ==
  /\ Commit
  /\ \E moved, updated \in AtMostOne :
       /\ moved \subseteq alive \ {Root} /\ updated \subseteq Item \cap alive
       /\ moved \cup updated # {} /\ \A d \in moved : updated \subseteq Below(d)
       /\ todo' = [todo EXCEPT !.move = moved, !.update = updated]
  /\ UNCHANGED <<scrollVars, treeVars, focusVars, key, dangling>>

\* Properties, state, layout or a command of the scroll view.
CommitScroll ==
  /\ Commit
  /\ Scroller \in alive
  /\ ReactScrolls
  /\ UNCHANGED <<treeVars, focusVars, todo, key, dangling>>

\* The mutations of a transaction: a subtree that is inserted or deleted is
\* worked off from its leaves; a component that is moved is removed and then
\* inserted, and what is below it is updated between the two.
PerformInsert(c) ==
  /\ c \in Foremost(todo.insert) \cup todo.move
  /\ parent[c] = None
  /\ todo.update \cap Below(c) = {}
  /\ MountChildComponent(c)
  /\ todo' = [todo EXCEPT !.insert = @ \ {c}, !.move = @ \ {c}]

PerformRemove(c) ==
  /\ c \in Foremost(todo.delete) \cup todo.move
  /\ parent[c] # None
  /\ UnmountChildComponent(c)
  /\ UNCHANGED todo

PerformDelete(c) ==
  /\ c \in Foremost(todo.delete)
  /\ parent[c] = None
  /\ Delete(c)
  /\ todo' = [todo EXCEPT !.delete = @ \ {c}]

PerformUpdate(c) ==
  /\ c \in todo.update
  /\ \A d \in todo.move : c \in Below(d) => parent[d] = None
  /\ UpdateFocusable(c)
  /\ todo' = [todo EXCEPT !.update = @ \ {c}]

Perform(c) ==
  /\ ~dangling
  /\ PerformInsert(c) \/ PerformRemove(c) \/ PerformDelete(c) \/ PerformUpdate(c)
  /\ UNCHANGED <<scrollVars, key, transactions, dangling>>

-----------------------------------------------------------------------------
(* The focus                                                               *)

\* currentFocus_ and currentContainer_ of updateFocusCandidate.
SetFocus(c) ==
  IF c = currentFocus THEN UNCHANGED focusVars
  ELSE /\ currentFocus' = c
       /\ currentContainer' = IF IsContainer(c) THEN c ELSE NearestAncestorContainer(c)

\* setNeedFocusUpdate: a task of the main loop, for a preferred component whose
\* properties or layout have changed.
NeedFocusUpdate(c) ==
  /\ MainIdle
  /\ c \in Preferred \cap alive
  /\ SetFocus(c)
  /\ IF c # currentFocus /\ currentContainer' = Scroller THEN MoveTo(ScrollTo(AbsoluteFrame(c)))
                                                         ELSE UNCHANGED scrollVars
  /\ UNCHANGED <<treeVars, todo, key, transactions, dangling>>

-----------------------------------------------------------------------------
(* The search                                                              *)

\* isValidCandidate that also takes what is level with the current focus.
Mutant_IsValidCandidate(d, current, r) ==
  /\ r # current
  /\ CASE d = "right" -> r.lo.x >= current.lo.x
       [] d = "left"  -> r.hi.x <= current.hi.x
       [] d = "up"    -> r.hi.y <= current.hi.y
       [] d = "down"  -> r.lo.y >= current.lo.y

\* Rules 1 and 2
IsValidCandidate(d, current, r) ==
  /\ r # current
  /\ CASE d = "right" -> r.lo.x > current.lo.x
       [] d = "left"  -> r.hi.x < current.hi.x
       [] d = "up"    -> r.hi.y < current.hi.y
       [] d = "down"  -> r.lo.y > current.lo.y

Across(d) == IF AxisOf(d) = "x" THEN "y" ELSE "x"

\* Rule 3: the projection in the direction of the key; touching counts.
Overlaps(d, current, r) ==
  ~(r.hi[Across(d)] < current.lo[Across(d)] \/ r.lo[Across(d)] > current.hi[Across(d)])

\* Rule 3.a
Beyond(d, current, r) ==
  \/ d = "up" /\ r.hi.y <= current.lo.y
  \/ d = "down" /\ r.lo.y >= current.hi.y

\* How far a candidate is in the direction d: its near edge.
Distance(d, r) == IF Forward(d) THEN r.lo[AxisOf(d)] ELSE 0 - r.hi[AxisOf(d)]

Lexicographic(s, t) ==
  \E i \in 1..Len(s) : s[i] < t[i] /\ \A j \in 1..(i - 1) : s[j] = t[j]

\* sortDirectionComparator (rules 4 to 8): c1 comes before c2.
SortDirectionComparator(d, c1, c2) ==
  LET Size(r, a) == r.hi[a] - r.lo[a]
      Rank(c) == LET r == ScreenFrame(c)
                 IN  <<Distance(d, r), r.lo[Across(d)], Size(r, AxisOf(d)), Size(r, Across(d))>>
  IN  IF ScreenFrame(c1) = ScreenFrame(c2) THEN Tag[c1] > Tag[c2]
      ELSE Lexicographic(Rank(c1), Rank(c2))

First(d, set) ==
  IF set = {} THEN None
  ELSE CHOOSE c \in set : \A o \in set \ {c} : SortDirectionComparator(d, c, o)

\* pickCandidateInDirection
PickCandidateInDirection(d, overLapping, nonOverLapping) ==
  LET near == First(d, overLapping)
      other == First(d, nonOverLapping)
  IN  IF \/ AxisOf(d) = "x" \/ other = None
         \/ near # None /\ Distance(d, ScreenFrame(near)) <= Distance(d, ScreenFrame(other))
      THEN near ELSE other

\* preferredFocusInContainer: the last preferred one; the call for a container
\* in the list returns inner.
LastPreferred(container, inner) ==
  LET Resolve(i) == LET c == nav[container][i]
                    IN  IF IsContainer(c) THEN inner ELSE IF c \in Preferred THEN c ELSE None
      found == {i \in 1..Len(nav[container]) : Resolve(i) # None}
  IN  IF found = {} THEN None ELSE Resolve(Greatest(found))

PreferredFocusInContainer(container) == LastPreferred(container, LastPreferred(Scroller, None))

\* firstInContainer: the first of the list, or what is first in it (inner).
FirstOf(container, inner) ==
  LET c == Head(nav[container])
  IN  IF nav[container] = <<>> \/ ~VisibleIn(container, c) THEN None
      ELSE IF IsContainer(c) /\ inner # None THEN inner ELSE c

FirstInContainer(container) == FirstOf(container, FirstOf(Scroller, None))

FindDefaultFocusInContainer(container) ==
  IF PreferredFocusInContainer(container) # None THEN PreferredFocusInContainer(container)
                                                 ELSE FirstInContainer(container)

\* The candidates of the container that the rules admit.
Admitted(container, d, visibleOnly) ==
  {c \in ToSet(nav[container]) \ {currentFocus} :
     /\ visibleOnly => VisibleIn(container, c)
     /\ IsValidCandidate(d, ScreenFrame(currentFocus), ScreenFrame(c))}

FindFocusCandidateInContainer(container, d, visibleOnly) ==
  LET current == ScreenFrame(currentFocus)
      over == {c \in Admitted(container, d, visibleOnly) : Overlaps(d, current, ScreenFrame(c))}
  IN  IF currentFocus = None THEN FindDefaultFocusInContainer(container)
      ELSE PickCandidateInDirection(d, over,
             {c \in Admitted(container, d, visibleOnly) \ over : Beyond(d, current, ScreenFrame(c))})

\* The components that the search reads.
Read(container) ==
  ToSet(nav[container]) \cup (IF currentFocus # None THEN {currentFocus}
                              ELSE IF container = Root /\ Scroller \in ToSet(nav[Root])
                                   THEN ToSet(nav[Scroller]) ELSE {})

-----------------------------------------------------------------------------
(* The input thread                                                        *)

UseDeleted == dangling' = TRUE /\ UNCHANGED <<scrollVars, treeVars, focusVars, todo, key, transactions>>

\* navigateInDirection
Press(d) ==
  /\ ~dangling /\ key.pc = "idle"
  /\ currentContainer' = IF currentContainer = None THEN Root ELSE currentContainer
  /\ key' = [NoPress EXCEPT !.pc = "search", !.dir = d, !.container = currentContainer']
  /\ UNCHANGED <<scrollVars, treeVars, currentFocus, todo, transactions, dangling>>

\* advanceFocusInDirection, until the candidate is known.
Search ==
  /\ ~dangling /\ key.pc = "search"
  /\ IF ~({key.container} \cup Read(key.container) \subseteq alive) THEN UseDeleted
     ELSE LET ancestor == /\ currentFocus # None
                          /\ \/ key.container = currentFocus
                             \/ HasAncestor(currentFocus, key.container)
              visibleOnly == /\ currentFocus # None
                             /\ ~(/\ ancestor /\ key.container = Scroller
                                  /\ CanScrollInDirection(key.dir))
          IN  /\ key' = [key EXCEPT !.pc = "test", !.ancestor = ancestor,
                           !.visibleOnly = visibleOnly,
                           !.candidate = FindFocusCandidateInContainer(key.container, key.dir,
                                                                       visibleOnly)]
              /\ UNCHANGED <<scrollVars, treeVars, focusVars, todo, transactions, dangling>>

\* scrollInDirection of the container.
ScrollContainer(container, c, d) ==
  IF container # Scroller THEN [status |-> "noScroll", pos |-> scrollPos]
  ELSE ScrollInDirection(IF c \in {None, Scroller} THEN NoFrame ELSE AbsoluteFrame(c), d)

SearchIn(container, entered) ==
  [NoPress EXCEPT !.pc = "search", !.dir = key.dir, !.container = container, !.entered = entered]

\* The call returned false: the component whose inside was searched takes the
\* focus; otherwise the next container is asked.
NotConsumed ==
  IF key.entered # None
  THEN /\ SetFocus(key.entered)
       /\ key' = NoPress
  ELSE /\ key' = IF NearestAncestorContainer(key.container) = None THEN NoPress
                 ELSE SearchIn(NearestAncestorContainer(key.container), None)
       /\ UNCHANGED focusVars

\* The rest of advanceFocusInDirection works with these components.
KeyAt(pc) == ~dangling /\ key.pc = pc
InHand == {key.container, key.candidate, key.entered} \ {None} \subseteq alive
OnlyKey == UNCHANGED <<treeVars, todo, transactions, dangling>>

\* advanceFocusInDirection, from the candidate to the look whether it is visible.
Test ==
  LET c == key.candidate
  IN  /\ KeyAt("test")
      /\ IF ~InHand THEN UseDeleted
         ELSE /\ OnlyKey
              /\ \/ c = None /\ ~key.ancestor /\ NotConsumed /\ UNCHANGED scrollVars
                 \/ /\ c # None /\ VisibleIn(key.container, c)
                    /\ key' = [key EXCEPT !.pc = "take"]
                    /\ UNCHANGED focusVars
                    /\ IF key.container = Scroller THEN See ELSE UNCHANGED scrollVars
                 \/ /\ IF c = None THEN key.ancestor ELSE ~VisibleIn(key.container, c)
                    /\ key' = [key EXCEPT !.pc = "scroll"]
                    /\ UNCHANGED <<scrollVars, focusVars>>

\* scrollInDirection of the container, until a position is set.
Scroll ==
  LET result == ScrollContainer(key.container, key.candidate, key.dir)
  IN  /\ KeyAt("scroll")
      /\ IF ~InHand THEN UseDeleted
         ELSE /\ OnlyKey
              /\ IF result.status = "noScroll" THEN NotConsumed /\ UNCHANGED scrollVars
                 ELSE /\ Decide(result, key.dir)
                      /\ key' = [key EXCEPT !.pc = "set"]
                      /\ UNCHANGED focusVars

\* handleScroll finds the position as it should be.
InPlace == look.status = "scrollOnly" /\ look.props.snaps = {} /\ look.pos = scrollPos

\* The end of scrollInDirection.
Set ==
  /\ KeyAt("set")
  /\ IF ~InHand THEN UseDeleted
     ELSE /\ OnlyKey
          /\ SetPosition
          /\ IF look.status = "scrollToFocus"
             THEN key' = [key EXCEPT !.pc = "take"] /\ UNCHANGED <<look, focusVars>>
             ELSE /\ look' = NoLook
                  /\ IF InPlace THEN NotConsumed ELSE key' = NoPress /\ UNCHANGED focusVars

\* advanceFocusInDirection, with a candidate that is visible or has been scrolled
\* to: a container is searched in turn, another component takes the focus.
Take ==
  LET c == key.candidate
  IN  /\ KeyAt("take")
      /\ IF ~InHand THEN UseDeleted
         ELSE /\ OnlyKey
              /\ Forget
              /\ IF IsContainer(c)
                 THEN /\ key' = SearchIn(c, c)
                      /\ UNCHANGED focusVars
                 ELSE key' = NoPress /\ SetFocus(c)

Main ==
  \/ CommitMount \/ CommitUpdate \/ CommitScroll
  \/ \E c \in Component : CommitUnmount(c) \/ NeedFocusUpdate(c) \/ Perform(c)

Input == (\E d \in Direction : Press(d)) \/ Search \/ Test \/ Scroll \/ Set \/ Take

NavNext == Main \/ Input

NavSpec == NavInit /\ [][NavNext]_navVars

-----------------------------------------------------------------------------
(* Properties                                                              *)

\* Whatever order React mounts, reorders and updates in, a key can reach every
\* focusable component on the screen: it is in the list of its container, unless
\* React updated it while a component above it was off the screen to be moved.
ListsComplete ==
  \A c \in alive \ ({Root} \cup missed) :
    Mounted(c) /\ IsFocusable(c) => c \in ToSet(nav[NearestAncestorContainer(c)])

\* The same without the exception: false.
ListsAlwaysComplete ==
  \A c \in alive \ {Root} :
    Mounted(c) /\ IsFocusable(c) => c \in ToSet(nav[NearestAncestorContainer(c)])

\* The components of a list that lie in the direction d of the focus, in its
\* projection or wholly beyond it.
There(container, d, visibleOnly) ==
  LET current == ScreenFrame(currentFocus)
  IN  {c \in ToSet(nav[container]) \ {currentFocus} :
         LET r == ScreenFrame(c)
         IN  /\ Distance(d, r) > Distance(d, current)
             /\ Overlaps(d, current, r) \/ Beyond(d, current, r)
             /\ visibleOnly => VisibleIn(container, c)}

IsNearest(c, d, there) ==
  IF c = None THEN there = {}
  ELSE c \in there /\ \A o \in there : Distance(d, ScreenFrame(c)) <= Distance(d, ScreenFrame(o))

\* The candidate that a key chooses is nearest: it lies in the direction of the
\* key, and no listed component that lies there, in its projection or (for up
\* and down) wholly beyond the focus, is nearer; none is chosen only if there is
\* none.
PicksNearest ==
  [][key.pc = "search" /\ key'.pc = "test" /\ currentFocus # None =>
       IsNearest(key'.candidate, key.dir, There(key.container, key.dir, key'.visibleOnly))]_navVars

\* It is inside the content, and the frame can show it: the view scrolls along
\* one axis only.
Fits(r) == \A a \in Axis : /\ 0 <= r.lo[a] /\ r.hi[a] <= contentSize[a]
                           /\ r.hi[a] - (IF a = ScrollAxis THEN r.lo[a] ELSE 0) <= frameSize[a]
FocusInView ==
  currentFocus \in Item /\ ~stale /\ Fits(FrameOf[currentFocus]) => IsVisible(FrameOf[currentFocus])

\* A key that moves the focus to an item of the scroll view.
FocusMoves == /\ key.pc = "take" /\ key'.pc = "idle" /\ key.container = Scroller
              /\ currentFocus' # currentFocus

\* The view is as the input thread found it visible or decided to leave it.
AsSeen == look.pos = scrollPos /\ look.sizes = Sizes /\ look.props = props

\* A key that moves the focus to a component in the scroll view leaves that
\* component wholly in view, whatever React does from the search on, if the view
\* at the end is as the key found it visible or decided to leave it (without
\* snapping and paging, and if the component fits).
FocusShown ==
  [][FocusMoves /\ AsSeen /\ props.snaps = {} /\ ~props.paging => FocusInView']_navVars

\* The same when React scrolls or resizes the view between the look and the move
\* of the focus: false.
FocusAlwaysShown ==
  [][FocusMoves /\ props.snaps = {} /\ ~props.paging => FocusInView']_navVars

\* "Keeps track of mutations on the Components to manage change in the
\* navigatable set": between two transactions a list holds no component that
\* is gone.
ListsCurrent ==
  todo = Performed => ToSet(nav[Root]) \cup (IF Scroller \in alive THEN ToSet(nav[Scroller]) ELSE {})
                   \subseteq alive

=============================================================================
