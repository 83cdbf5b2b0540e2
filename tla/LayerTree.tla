----------------------------- MODULE LayerTree ------------------------------
(***************************************************************************)
(* The render layer tree (rns_shell/compositor/layers/Layer.cpp and        *)
(* ScrollLayer.cpp), as the mounting manager changes it and the compositor *)
(* renders it, in the default build: partial updates, no buffer age, no    *)
(* scroll bitmap.                                                          *)
(*                                                                         *)
(* A layer caches where it is (bounds_, the translation of its absolute    *)
(* matrix) and says in invalidateMask_ what is out of date.  prePaint      *)
(* refreshes the caches, collects the damage and takes the removed layers  *)
(* out of the lists; paint draws the layers that meet the damage, clipped  *)
(* to it.                                                                  *)
(*                                                                         *)
(* Geometry has one dimension: a frame is an interval of tiles in the      *)
(* coordinates of the parent, a damage list is the set of tiles that it    *)
(* covers (FrameDamage has the list itself).  There are no transforms and  *)
(* no shadows.  What is drawn in a tile is the pictures drawn there, and   *)
(* which of them is drawn over which.                                      *)
(***************************************************************************)
EXTENDS Integers, Sequences, SequencesExt, FiniteSets

CONSTANTS
  View,             \* the views of the application
  Root,             \* the root view
  NoLayer,          \* parent_ of a layer that is in no list
  Width,            \* the surface is Width tiles wide
  Moves,            \* "none", "reorder" or "reparent": which views a transaction
                    \* removes and inserts again
  Overflow,         \* may a child stick out of a parent that does not clip?
  MaxX, MaxW,       \* bounds: where a frame starts, and how wide it is
  MaxMutations,     \* bound: mutations in a behaviour
  MaxTransactions   \* bound: transactions in a behaviour

ASSUME LayerTreeAssumption ==
  /\ Width \in Nat \ {0} /\ MaxX \in Nat /\ MaxW \in Nat \ {0}
  /\ MaxMutations \in Nat /\ MaxTransactions \in Nat
  /\ Root \notin View /\ NoLayer \notin View \cup {Root}
  /\ Moves \in {"none", "reorder", "reparent"} /\ Overflow \in BOOLEAN

Layer == View \cup {Root}
Surface == 0..(Width - 1)
Frame == [x : 0..MaxX, w : 1..MaxW]
Kind == {"plain", "clip", "scroll"}   \* masksToBounds_, LAYER_TYPE_SCROLL
InvalidateAll == {"paint", "layout"}

VARIABLES
  mounted,   \* the views below every view, as React has mounted them
  children,  \* children_
  parent,    \* parent_
  kind,      \* the kind of every layer
  frame,     \* frame_
  picture,   \* what a layer draws
  scroll,    \* scrollOffsetX_ of a scroll layer
  mask,      \* invalidateMask_, the set of its bits
  origin,    \* translation of absoluteTransformMatrix_
  bounds,    \* bounds_, equal to absFrame_ without a shadow
  skips,     \* the layers with skipParentMatrix_
  pending,   \* bitmapSurfaceDamage_ of a scroll layer
  damage,    \* surfaceDamage_
  screen,    \* what is drawn in every tile
  phase,     \* "idle", "mutate" or "paint"
  inserted,  \* the views that this transaction has inserted
  removed,   \* the views that it has removed, with the parent they had
  moved,     \* the views inserted again by the transaction that removed them
  mutations, \* mutations so far
  count      \* transactions so far

cacheVars == <<origin, bounds, skips, pending>>
viewVars == <<mounted, kind, frame, picture, scroll>>
treeVars == <<children, parent>>
vars == <<viewVars, treeVars, cacheVars, mask, damage, screen, phase, inserted,
          removed, moved, mutations, count>>

Extent(f) == f.x..(f.x + f.w - 1)
Shift(tiles, d) == {t + d : t \in tiles}
Children(l) == ToSet(children[l])
\* What is seen where no layer is drawn.
Nothing == [pictures |-> {}, order |-> {}]
Clips(l) == kind[l] \in {"clip", "scroll"}

Init ==
  /\ mounted = [l \in Layer |-> <<>>]
  /\ children = [l \in Layer |-> <<>>]
  /\ parent = [l \in Layer |-> NoLayer]
  /\ kind = [l \in Layer |-> "plain"]
  /\ frame = [l \in Layer |-> [x |-> 0, w |-> Width]]
  /\ picture = [l \in Layer |-> 0]
  /\ scroll = [l \in Layer |-> 0]
  /\ mask = [l \in Layer |-> InvalidateAll]
  /\ origin = [l \in Layer |-> 0]
  /\ bounds = [l \in Layer |-> {}]
  /\ skips = {}
  /\ pending = [l \in Layer |-> {}]
  /\ damage = {}
  /\ screen = [t \in Surface |-> Nothing]
  /\ phase = "idle"
  /\ inserted = {}
  /\ removed = {}
  /\ moved = {}
  /\ mutations = 0
  /\ count = 0

-----------------------------------------------------------------------------
(* The mutations of a transaction.  React hands over a list in which every *)
(* parent has its removals before its insertions, the insertions by        *)
(* increasing index, and in which a view that loses its place is empty     *)
(* unless it is inserted again.                                            *)

\* Does S hold v and, with every layer, the layers in its list?
Holds(kids, v, S) == v \in S /\ \A p \in S : ToSet(kids[p]) \subseteq S

\* v and the layers below it in the lists of kids: the smallest such set.
Subtree(kids, v) ==
  CHOOSE S \in SUBSET Layer :
    Holds(kids, v, S) /\ \A T \in SUBSET Layer : Holds(kids, v, T) => S \subseteq T

Below(v) == Subtree(mounted, v)

Mounted == Below(Root)
Unplaced == {v \in View : \A p \in Layer : v \notin ToSet(mounted[p])}
MountedParent(v) == CHOOSE p \in Layer : v \in ToSet(mounted[p])

\* Layouts: a child with frame f lies in its parent p of width w, or p clips it.
Fits(f, p, w) == Overflow \/ Clips(p) \/ f.x + f.w <= w
FitsAll(p, f) == \A c \in ToSet(mounted[p]) : Fits(frame[c], p, f.w)

BeginTransaction ==
  /\ phase = "idle" /\ count < MaxTransactions
  /\ count' = count + 1
  /\ phase' = "mutate"
  /\ damage' = {}
  /\ UNCHANGED <<viewVars, treeVars, cacheVars, mask, screen, inserted, removed, moved,
                 mutations>>

Mutation ==
  /\ phase = "mutate" /\ mutations < MaxMutations
  /\ mutations' = mutations + 1

\* A list without the layers of a set.
Without(list, dropped) ==
  LET kept[n \in 0..Len(list)] ==
        IF n = 0 THEN <<>>
        ELSE IF list[n] \in dropped THEN kept[n - 1] ELSE Append(kept[n - 1], list[n])
  IN  kept[Len(list)]

\* An insertChild that does not take the layer out of the list it is in.
Mutant_InsertChildKeepsOld(p, v, i) ==
  /\ children' = [children EXCEPT ![p] =
                    InsertAt(@, IF i < Len(@) THEN i + 1 ELSE Len(@) + 1, v)]
  /\ parent' = [parent EXCEPT ![v] = p]

(***************************************************************************)
(* Layer::insertChild: out of the list it is in, then into the list of p,  *)
(* at the index or at the end.                                             *)
(***************************************************************************)
InsertChild(p, v, i) ==
  LET rest == IF parent[v] = NoLayer THEN children
              ELSE [children EXCEPT ![parent[v]] = Without(@, {v})]
      at == IF i < Len(rest[p]) THEN i ELSE Len(rest[p])
  IN  /\ children' = [rest EXCEPT ![p] = InsertAt(@, at + 1, v)]
      /\ parent' = [parent EXCEPT ![v] = p]

\* updateComponentData with every bit: the layout, the props, the picture.
UpdateAll(v, f, pic) ==
  /\ frame' = [frame EXCEPT ![v] = f]
  /\ picture' = [picture EXCEPT ![v] = pic]

\* Where React inserts a view.
PlaceFor(v, p, i) ==
  /\ Mutation
  /\ \A j \in DOMAIN mounted[p] : mounted[p][j] \in inserted => j <= i
  /\ mounted' = [mounted EXCEPT ![p] = InsertAt(@, i + 1, v)]
  /\ inserted' = inserted \cup {v}

\* Create and Insert of a view, whose layer is new (see Paint).
CreateView(v, p, i, f, k) ==
  /\ \A q \in Layer : <<v, q>> \notin removed
  /\ parent[v] = NoLayer /\ children[v] = <<>>
  /\ Fits(f, p, frame[p].w)
  /\ PlaceFor(v, p, i)
  /\ UpdateAll(v, f, 0)
  /\ InsertChild(p, v, i)
  /\ kind' = [kind EXCEPT ![v] = k]
  /\ UNCHANGED <<scroll, mask, cacheVars, damage, screen, phase, removed, moved, count>>

(***************************************************************************)
(* Insert of a view that the same transaction has removed: the layer is    *)
(* still in the list of its old parent and still has the remove bit.       *)
(***************************************************************************)
ReinsertView(v, p, i, f) ==
  /\ Moves # "none"
  /\ \E q \in Layer : <<v, q>> \in removed /\ (Moves = "reorder" => p = q)
  /\ Fits(f, p, frame[p].w) /\ FitsAll(v, f)
  /\ PlaceFor(v, p, i)
  /\ UpdateAll(v, f, picture[v])
  /\ InsertChild(p, v, i)
  /\ mask' = [mask EXCEPT ![v] = @ \cup InvalidateAll]
  /\ moved' = moved \cup {v}
  /\ UNCHANGED <<kind, scroll, cacheVars, damage, screen, phase, removed, count>>

\* Remove: unmountChildComponent only marks the layer.  Delete, which follows
\* for a view that is not inserted again, leaves the layer to the list it is in.
RemoveView(v) ==
  /\ Mutation
  /\ Moves = "none" => mounted[v] = <<>>
  /\ LET p == MountedParent(v)
     IN  /\ ToSet(mounted[p]) \cap inserted = {}
         /\ mounted' = [mounted EXCEPT ![p] = Without(@, {v})]
         /\ removed' = removed \cup {<<v, p>>}
  /\ mask' = [mask EXCEPT ![v] = @ \cup {"remove"}]
  /\ UNCHANGED <<kind, frame, picture, scroll, treeVars, cacheVars, damage, screen,
                 phase, inserted, moved, count>>

\* Update: updateComponentData of a view that stays.
UpdateView(v, f, pic) ==
  /\ Mutation
  /\ v \notin inserted
  /\ Fits(f, MountedParent(v), frame[MountedParent(v)].w) /\ FitsAll(v, f)
  /\ UpdateAll(v, f, pic)
  /\ mask' = [mask EXCEPT ![v] = @ \cup InvalidateAll]
  /\ UNCHANGED <<mounted, kind, scroll, treeVars, cacheVars, damage, screen, phase,
                 inserted, removed, moved, count>>

\* RSkComponentScrollView::handleScroll, between begin() and commit() too.
HandleScroll(v, x) ==
  /\ Mutation
  /\ kind[v] = "scroll"
  /\ x # scroll[v]
  /\ scroll' = [scroll EXCEPT ![v] = x]
  /\ mask' = [mask EXCEPT ![v] = @ \cup {"paint"}]
  /\ UNCHANGED <<mounted, kind, frame, picture, treeVars, cacheVars, damage, screen,
                 phase, inserted, removed, moved, count>>

-----------------------------------------------------------------------------
(* renderLayerTree, first half: rootLayer_->prePaint                       *)

Reached == Subtree(children, Root)

\* A scroll layer sets the flag of its children before it calls their prePaint.
Skips(l) == l \in skips \/ (parent[l] # NoLayer /\ kind[parent[l]] = "scroll")

\* forceLayout comes down from every ancestor with the layout bit.
LaidOut[l \in Layer] ==
  "layout" \in mask[l] \/ (parent[l] # NoLayer /\ LaidOut[parent[l]])

\* calculateTransformMatrix
NewOrigin[l \in Layer] ==
  IF ~LaidOut[l] THEN origin[l]
  ELSE IF parent[l] = NoLayer \/ Skips(l) THEN 0
  ELSE NewOrigin[parent[l]] + frame[parent[l]].x

NewBounds(l) == IF LaidOut[l] THEN Shift(Extent(frame[l]), NewOrigin[l]) ELSE bounds[l]

\* A preRoll that forgets the place that the layer leaves.
Mutant_PreRollDamageNewOnly(l) == IF mask[l] # {} THEN NewBounds(l) ELSE {}

\* The damage that preRoll adds for the layer itself.
PreRollDamage(l) ==
  (IF "layout" \in mask[l] /\ ~(bounds[l] \subseteq NewBounds(l)) THEN bounds[l] ELSE {})
    \cup (IF mask[l] # {} THEN NewBounds(l) ELSE {})

\* From the coordinates of a scroll layer's content to those of the layer.
ScrollShift(l, absX) == absX - scroll[l]

(***************************************************************************)
(* The damage that prePaint of l adds to the list of its context.  A       *)
(* scroll layer collects the damage of its children in a list of its own   *)
(* and hands on the visible part, unless it is damaged as a whole.         *)
(***************************************************************************)
Damage[l \in Layer] ==
  LET below == UNION {Damage[c] : c \in Children(l)}
  IN  PreRollDamage(l) \cup
        IF kind[l] # "scroll" THEN below
        ELSE IF mask[l] # {} THEN {}
        ELSE Shift(pending[l] \cup below, ScrollShift(l, NewOrigin[l] + frame[l].x))
               \cap NewBounds(l)

NewPending(l) == pending[l] \cup UNION {Damage[c] : c \in Children(l)}

\* The pruning compares the whole mask before the other bits are cleared.
Mutant_PrunedUncleared(l) == mask[l] = {"remove"}

\* The mask of a child after its prePaint.
Pruned(l) == mask[l] \cap {"remove"} = {"remove"}

PrePaint == \E reached \in {Reached} : \E pruned \in {{l \in reached : Pruned(l)}} :
  /\ phase = "mutate"
  /\ \A v \in View \ Mounted : mounted[v] = <<>>
  /\ phase' = "paint"
  /\ damage' = damage \cup Damage[Root]
  /\ pending' = [l \in Layer |-> IF l \notin reached THEN pending[l]
                                ELSE IF kind[l] = "scroll" THEN NewPending(l) ELSE {}]
  /\ origin' = [l \in Layer |-> IF l \in reached THEN NewOrigin[l] ELSE origin[l]]
  /\ bounds' = [l \in Layer |-> IF l \in reached THEN NewBounds(l) ELSE bounds[l]]
  /\ skips' = skips \cup {l \in reached : Skips(l)}
  /\ mask' = [l \in Layer |-> IF l \in reached THEN mask[l] \cap {"remove"} ELSE mask[l]]
  /\ children' = [l \in Layer |-> IF l \in reached THEN Without(children[l], pruned)
                                                  ELSE children[l]]
  /\ parent' = [l \in Layer |-> IF l \in pruned THEN NoLayer ELSE parent[l]]
  /\ UNCHANGED <<viewVars, screen, inserted, removed, moved, mutations, count>>

-----------------------------------------------------------------------------
(* Second half: beginClip, and paint of the layers that meet the damage.   *)

\* The context's scroll offset when l is painted: a scroll layer translates what is
\* below it.
ScrollOffset[l \in Layer] ==
  IF parent[l] = NoLayer THEN 0
  ELSE LET p == parent[l]
       IN  ScrollOffset[p] + IF kind[p] = "scroll" THEN ScrollShift(p, origin[p] + frame[p].x)
                                                   ELSE 0

NeedsPainting(l) == Shift(bounds[l], ScrollOffset[l]) \cap damage # {}

\* paint comes to the layers that need it, below layers that need it.
Visited[l \in Layer] == NeedsPainting(l) /\ (parent[l] # NoLayer => Visited[parent[l]])
Painted == {l \in Reached : Visited[l]}

\* Where l draws, when nothing clips it.
FrameOnScreen == [l \in Layer |-> Shift(Extent(frame[l]), origin[l] + ScrollOffset[l])]

\* The clip of the canvas when l is painted, for layers with these frames.
ClipTo(frames) ==
  LET clip[l \in Layer] ==
        IF parent[l] = NoLayer THEN Surface
        ELSE IF Clips(parent[l]) THEN clip[parent[l]] \cap frames[parent[l]]
        ELSE clip[parent[l]]
  IN  clip

\* A layer and those that it is below.
Above[l \in Layer] == {l} \cup IF parent[l] = NoLayer THEN {} ELSE Above[parent[l]]

\* Is c before d in the list?
InOrder(list, c, d) == \E i, j \in DOMAIN list : i < j /\ list[i] = c /\ list[j] = d

\* A layer is drawn before its children, and these in the order of the list.
DrawnBefore(l, m) ==
  \/ l # m /\ l \in Above[m]
  \/ \E p \in Layer, c \in Above[l], d \in Above[m] : InOrder(children[p], c, d)

\* What is seen where these layers are drawn.
Drawing(drawn) ==
  [pictures |-> {<<l, picture[l]>> : l \in drawn},
   order |-> {o \in drawn \X drawn : DrawnBefore(o[1], o[2])}]

\* The layers of a set that are drawn in tile t, with these frames.
DrawnIn(layers, frames, t) ==
  LET clip == ClipTo(frames) IN {l \in layers : t \in frames[l] \cap clip[l]}

\* The layers that nothing holds any more.
Dead == {v \in View \ Mounted : parent[v] = NoLayer /\ children[v] = <<>>}
Fresh(f, dead, value) == [l \in Layer |-> IF l \in dead THEN value ELSE f[l]]

(***************************************************************************)
(* The end of a frame.  A layer that is in no list and has no component is *)
(* destroyed, and its view may come back with a new one.                   *)
(***************************************************************************)
Paint == \E dead \in {Dead} : \E painted \in {Painted} :
  /\ phase = "paint"
  /\ phase' = "idle"
  /\ screen' = [t \in Surface |-> IF t \in damage
                                   THEN Drawing(DrawnIn(painted, FrameOnScreen, t))
                                   ELSE screen[t]]
  /\ pending' = [l \in Layer |-> IF l \in dead \cup painted THEN {} ELSE pending[l]]
  /\ kind' = Fresh(kind, dead, "plain")
  /\ frame' = Fresh(frame, dead, frame[Root])
  /\ picture' = Fresh(picture, dead, 0)
  /\ scroll' = Fresh(scroll, dead, 0)
  /\ mask' = Fresh(mask, dead, InvalidateAll)
  /\ origin' = Fresh(origin, dead, 0)
  /\ bounds' = Fresh(bounds, dead, {})
  /\ skips' = skips \ dead
  /\ moved' = moved \ dead
  /\ inserted' = {} /\ removed' = {}
  /\ UNCHANGED <<mounted, treeVars, damage, mutations, count>>

-----------------------------------------------------------------------------

Next ==
  \/ BeginTransaction
  \/ \E v \in Unplaced, p \in Mounted : \E i \in 0..Len(mounted[p]), f \in Frame :
       \/ ReinsertView(v, p, i, f)
       \/ \E k \in Kind : CreateView(v, p, i, f, k)
  \/ \E v \in Mounted \ {Root} :
       \/ RemoveView(v)
       \/ \E f \in Frame, pic \in {0, 1} : UpdateView(v, f, pic)
       \/ \E x \in Surface : HandleScroll(v, x)
  \/ PrePaint
  \/ Paint

Spec == Init /\ [][Next]_vars

-----------------------------------------------------------------------------
(* Properties                                                              *)

\* Where the coordinates of a layer start on the screen, from frames and scroll
\* offsets alone.
Base[l \in Layer] ==
  IF parent[l] = NoLayer THEN 0
  ELSE LET p == parent[l]
       IN  Base[p] + frame[p].x - IF kind[p] = "scroll" THEN scroll[p] ELSE 0

\* What a repainting of the whole tree would put in tile t.
FrameWanted == [l \in Layer |-> Shift(Extent(frame[l]), Base[l])]
Wanted(t) == Drawing(DrawnIn(Reached, FrameWanted, t))

\* After every frame the screen shows what a repainting of the whole tree would:
\* the bounds that preRoll caches, the damage it collects through scroll layers and
\* the layers that needsPainting skips leave no old pixel behind.
ScreenCurrent ==
  phase = "idle" /\ count > 0 =>
    \A t \in Surface : screen[t] = Wanted(t)

\* parent_ and children_ agree: a layer is in the list of its parent, once, and in no
\* other, while transactions mark, insert and move layers and prePaint takes them out.
LinksConsistent ==
  \A l \in Layer :
    /\ IsInjective(children[l])
    /\ \A c \in Layer : c \in Children(l) <=> parent[c] = l

\* From prePaint on, the layers that paint can reach are those of the mounted views: none
\* of a view that is removed, whose component may be deleted, and all others, except
\* what is below a view that a transaction removed and inserted again.
LayersShown ==
  phase # "mutate" /\ count > 0 =>
    Reached = Mounted \ UNION {Below(v) : v \in moved}

\* A view stays on the screen when a transaction moves it.
MovedViewsShown == phase # "mutate" /\ count > 0 => Reached = Mounted

\* Siblings are drawn in the order in which React has mounted them.
OrderFollowsReact ==
  phase = "idle" => \A l \in Reached : children[l] = mounted[l]

=============================================================================
