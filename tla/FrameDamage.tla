---------------------------- MODULE FrameDamage -----------------------------
(***************************************************************************)
(* Partial updates with buffer age (Compositor::beginClip and the history  *)
(* of Compositor::renderLayerTree, built with RNS_SHELL_BUFFER_AGE).       *)
(*                                                                         *)
(* The window system owns several buffers.  The one that a frame is painted*)
(* into holds the picture of some earlier frame: its age says how many     *)
(* frames ago.  The compositor repaints only the damage of the current     *)
(* frame and of the frames that the buffer has missed, which it keeps in   *)
(* frameDamageHistory_.                                                    *)
(*                                                                         *)
(* The surface is a row of tiles; a rectangle is a set of adjacent tiles,  *)
(* possibly empty.  A tile's content is the number of the frame that       *)
(* changed it last.                                                        *)
(***************************************************************************)
EXTENDS Integers, Sequences, FiniteSets

CONSTANTS
  Width,        \* the surface is Width tiles wide
  Buffer,       \* the buffers of the window's swap chain
  NoBuffer,     \* nothing has been shown yet
  MaxHistory,   \* RNS_SHELL_MAX_FRAME_DAMAGE_HISTORY
  MaxRects,     \* bound: damaged layers in one frame
  MaxFrames     \* bound: frames in a behaviour

ASSUME FrameDamageAssumption ==
  /\ Width \in Nat \ {0} /\ MaxHistory \in Nat \ {0}
  /\ MaxRects \in Nat /\ MaxFrames \in Nat
  /\ NoBuffer \notin Buffer

Tile == 1..Width
Surface == Tile
Rect == {lo..hi : lo \in Tile, hi \in 0..Width}

VARIABLES
  tree,     \* what the layer tree shows in every tile
  buffer,   \* what every buffer holds in every tile
  shown,    \* the frame for which a buffer was last on the screen, 0 for none
  front,    \* the buffer on the screen
  frame,    \* number of frames swapped so far
  history   \* frameDamageHistory_, newest last: a list of damage lists

vars == <<tree, buffer, shown, front, frame, history>>

Covered(rects) == UNION {rects[i] : i \in DOMAIN rects}

-----------------------------------------------------------------------------

\* SkIRect::contains: an empty rectangle contains nothing and is in nothing.
RectContains(r, s) == r # {} /\ s # {} /\ s \subseteq r

RectStrictlyContains(r, s) == r # s /\ RectContains(r, s)

\* The rectangles that r does not cover, in their order.
Uncovered(rects, r) ==
  LET kept[n \in 0..Len(rects)] ==
        IF n = 0 THEN <<>>
        ELSE IF RectStrictlyContains(r, rects[n]) THEN kept[n - 1]
        ELSE Append(kept[n - 1], rects[n])
  IN  kept[Len(rects)]

\* The scan without Check 1: rectangles that the new one covers stay.
Mutant_AddDamageRectNoErase(rects, r) ==
  IF \E i \in DOMAIN rects : RectContains(rects[i], r) THEN rects ELSE Append(rects, r)

(***************************************************************************)
(* Layer::addDamageRect.  One scan of the list erases every rectangle that *)
(* the new one strictly contains, and returns at the first one that        *)
(* contains the new one, but only as long as nothing has been erased.      *)
(***************************************************************************)
AddDamageRect(rects, r) ==
  IF \E i \in DOMAIN rects :
       /\ RectContains(rects[i], r)
       /\ \A j \in 1..(i - 1) : ~RectStrictlyContains(r, rects[j])
    THEN rects
    ELSE Append(Uncovered(rects, r), r)

AddDamageRects(rects, more) ==
  LET added[n \in 0..Len(more)] ==
        IF n = 0 THEN rects ELSE AddDamageRect(added[n - 1], more[n])
  IN  added[Len(more)]

-----------------------------------------------------------------------------

\* EGL_BUFFER_AGE_EXT of a buffer while the next frame is being painted.
BufferAge(b) == IF shown[b] = 0 THEN 0 ELSE frame + 1 - shown[b]

\* The damage of this frame with that of the m frames before it, the newest
\* first.
WithMissed(damage, m) ==
  LET added[n \in 0..m] ==
        IF n = 0 THEN damage ELSE AddDamageRects(added[n - 1], history[Len(history) + 1 - n])
  IN  added[m]

\* The oldest frame that the buffer has missed is left out.
Mutant_ClipDamageOffByOne(damage, age) ==
  IF age = 1 THEN damage
  ELSE IF age = 0 \/ age > Len(history) THEN <<Surface>>
  ELSE WithMissed(damage, age - 2)

(***************************************************************************)
(* beginClip(): the damage that the frame repaints.  A buffer of unknown   *)
(* content, or older than the history, is repainted as a whole.            *)
(***************************************************************************)
ClipDamage(damage, age) ==
  IF age = 1 THEN damage
  ELSE IF age = 0 \/ age > Len(history) THEN <<Surface>>
  ELSE WithMissed(damage, age - 1)

(***************************************************************************)
(* What beginClip() does to the history: "dirtyRects = *frameDamages"      *)
(* assigns through a reference to the newest element, so that after the    *)
(* loop the newest element is a copy of the oldest one visited.            *)
(***************************************************************************)
ClipHistory(age) ==
  IF age > 1 /\ age <= Len(history)
    THEN [history EXCEPT ![Len(history)] = history[Len(history) + 2 - age]]
    ELSE history

\* A history that grows without bound.
Mutant_PushUnbounded(hist, damage) == Append(hist, damage)

\* The end of renderLayerTree(): remember this frame's own damage.
PushHistory(hist, damage) ==
  Append(IF Len(hist) >= MaxHistory THEN Tail(hist) ELSE hist, damage)

-----------------------------------------------------------------------------

Init ==
  /\ tree = [x \in Tile |-> 0]
  /\ buffer = [b \in Buffer |-> [x \in Tile |-> -1]]
  /\ shown = [b \in Buffer |-> 0]
  /\ front = NoBuffer
  /\ frame = 0
  /\ history = <<>>

(***************************************************************************)
(* One call of renderLayerTree() into the buffer b, after changes whose    *)
(* damage prePaint finds in the order of rects.  A frame whose damage is   *)
(* empty, or meets no tile, is neither painted nor swapped.                *)
(***************************************************************************)
RenderLayerTree(b, rects) ==
  LET damage == AddDamageRects(<<>>, rects)
      age    == BufferAge(b)
      clip   == ClipDamage(damage, age)
      after  == [x \in Tile |-> IF x \in Covered(rects) THEN frame + 1 ELSE tree[x]]
  IN  /\ tree' = after
      /\ IF Covered(clip) = {}
           THEN /\ history' = ClipHistory(age)
                /\ UNCHANGED <<buffer, shown, front, frame>>
           ELSE /\ buffer' = [buffer EXCEPT ![b] =
                                [x \in Tile |-> IF x \in Covered(clip) THEN after[x] ELSE @[x]]]
                /\ shown' = [shown EXCEPT ![b] = frame + 1]
                /\ front' = b
                /\ frame' = frame + 1
                /\ history' = PushHistory(ClipHistory(age), damage)

\* The window system gives out any buffer that is not on the screen.
Free(b) == b # front \/ Cardinality(Buffer) = 1

Frame ==
  /\ frame < MaxFrames
  /\ \E b \in Buffer, rects \in UNION {[1..n -> Rect] : n \in 1..MaxRects} :
       Free(b) /\ RenderLayerTree(b, rects)

\* The window system loses the content of a buffer that is not on the screen.
BufferLost ==
  \E b \in Buffer \ {front} :
    /\ shown[b] # 0
    /\ shown' = [shown EXCEPT ![b] = 0]
    /\ buffer' = [buffer EXCEPT ![b] = [x \in Tile |-> -1]]
    /\ UNCHANGED <<tree, front, frame, history>>

Next == Frame \/ BufferLost

Spec == Init /\ [][Next]_vars

-----------------------------------------------------------------------------
(* Properties                                                              *)

(***************************************************************************)
(* The buffer on the screen shows the tree in every tile: what was not     *)
(* repainted was already up to date in that buffer.                        *)
(***************************************************************************)
FrontUpToDate == front # NoBuffer => buffer[front] = tree

(***************************************************************************)
(* No damage list of the history holds a rectangle inside another one      *)
(* (Check 1 and Check 2 of Layer::addDamageRect), whatever the order in    *)
(* which the layers were visited.                                          *)
(***************************************************************************)
DamageListsMinimal ==
  \A k \in DOMAIN history :
    \A i, j \in DOMAIN history[k] : RectContains(history[k][i], history[k][j]) => i = j

(***************************************************************************)
(* Each entry of the history is the damage of its frame: a tile changed by *)
(* a remembered frame, and not since, is in that frame's list.  This is    *)
(* what beginClip() relies on to "add damages from previous frames upto    *)
(* buffer age" (Compositor.cpp:143), and the history is never longer than  *)
(* RNS_SHELL_MAX_FRAME_DAMAGE_HISTORY.                                     *)
(***************************************************************************)
HistoryComplete ==
  /\ Len(history) <= MaxHistory
  /\ \A k \in DOMAIN history : \A x \in Tile :
       tree[x] = frame - (Len(history) - k) => x \in Covered(history[k])

=============================================================================
