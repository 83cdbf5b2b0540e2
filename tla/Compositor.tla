----------------------------- MODULE Compositor -----------------------------
(***************************************************************************)
(* RnsShell::Compositor (rns_shell/compositor/Compositor.cpp): the mutex   *)
(* that protects the render layer tree, the state of the scheduled update  *)
(* and what a rendering of the tree does to the screen.                    *)
(*                                                                         *)
(* A client changes the tree between begin(), which takes isMutating, and  *)
(* commit(), which renders at once (immediate) or dispatches a rendering   *)
(* to the main loop, and releases isMutating.                              *)
(*                                                                         *)
(* The tree is abstracted to three sets of layers: the ones with a bit in  *)
(* invalidateMask_, the ones whose bounds are in surfaceDamage_, and the   *)
(* ones whose pixels on the screen are older than the tree.                *)
(***************************************************************************)
EXTENDS TaskLoop

CONSTANTS
  Layer,       \* the layers of the render tree
  Thread,      \* the threads that use the compositor
  NoThread     \* the value of isMutating when it is not locked

VARIABLES
  isMutating,     \* the thread that locked the mutex last, or NoThread
  update,         \* renderState_.update
  invalid,        \* layers with invalidateMask_ # LayerInvalidateNone
  surfaceDamage,  \* layers whose bounds are in surfaceDamage_
  stale,          \* layers whose pixels on the screen are out of date
  needsResize,    \* attributes_.needsResize
  windowContext   \* windowContext_ # nullptr

compositorVars ==
  <<isMutating, update, invalid, surfaceDamage, stale, needsResize, windowContext>>

treeVars == <<invalid, surfaceDamage, stale, needsResize>>

-----------------------------------------------------------------------------

CompositorInit ==
  /\ isMutating = NoThread
  /\ update = "Idle"
  /\ invalid = {}         \* layers come with the first Create instruction
  /\ surfaceDamage = {}
  /\ stale = {}
  /\ windowContext \in BOOLEAN
  /\ needsResize = FALSE   \* LayerTreeHost creates it with an empty viewport

\* A begin() that does not wait for the mutex.
Mutant_BeginNoWait(t) ==
  /\ isMutating' = t
  /\ surfaceDamage' = {}
  /\ UNCHANGED <<update, invalid, stale, needsResize, windowContext>>

\* begin(): blocks until the mutex is free, then forgets the damage of the
\* previous frame.
Begin(t) ==
  /\ isMutating = NoThread
  /\ isMutating' = t
  /\ surfaceDamage' = {}
  /\ UNCHANGED <<update, invalid, stale, needsResize, windowContext>>

\* A client that is between begin() and commit() changes a layer and
\* invalidates it.
ChangeLayer(l) ==
  /\ invalid' = invalid \cup {l}
  /\ stale' = stale \cup {l}
  /\ UNCHANGED <<isMutating, update, surfaceDamage, needsResize, windowContext>>

\* A preRoll that adds no damage for a layer whose layout did not change.
Mutant_PrePaintNoDamage ==
  IF windowContext
    THEN /\ invalid' = {}
         /\ needsResize' = FALSE
         /\ UNCHANGED <<stale, surfaceDamage>>
    ELSE UNCHANGED treeVars

(***************************************************************************)
(* renderLayerTree(), first half: prePaint adds the bounds of every        *)
(* invalid layer to surfaceDamage_ and clears the masks.  Without a window *)
(* context renderLayerTree returns before it touches anything.             *)
(***************************************************************************)
PrePaint ==
  IF windowContext
    THEN /\ surfaceDamage' = surfaceDamage \cup invalid
         /\ invalid' = {}
         /\ needsResize' = FALSE
         /\ UNCHANGED stale
    ELSE UNCHANGED treeVars

(***************************************************************************)
(* Second half: clip to surfaceDamage_, paint, swapBuffers.  It brings the *)
(* damaged layers up to date on the screen and nothing else; the damage    *)
(* list itself is left for the next begin() to clear.                      *)
(***************************************************************************)
Paint ==
  /\ stale' = IF windowContext THEN stale \ surfaceDamage ELSE stale
  /\ UNCHANGED <<invalid, surfaceDamage, needsResize>>

\* isMutating.unlock(): whoever calls it, the mutex is free afterwards.
Unlock == isMutating' = NoThread

\* commit(true): render on the calling thread, then unlock.
CommitPrePaint ==
  /\ PrePaint
  /\ UNCHANGED <<isMutating, update, windowContext>>

CommitPaint ==
  /\ Paint
  /\ Unlock
  /\ UNCHANGED <<update, windowContext>>

(***************************************************************************)
(* commit(false), up to its last unlock().  Only a commit that finds the   *)
(* update state Idle goes on to dispatch a rendering, after the unlock.    *)
(***************************************************************************)
NeedsDispatch == windowContext /\ update = "Idle"

\* A commit that forgets to unlock in the case "already scheduled".
Mutant_CommitKeepsLock ==
  /\ update' = IF NeedsDispatch THEN "Scheduled" ELSE update
  /\ IF update = "Scheduled" THEN UNCHANGED isMutating ELSE Unlock
  /\ UNCHANGED <<treeVars, windowContext>>

CommitScheduled ==
  /\ update' = IF NeedsDispatch THEN "Scheduled" ELSE update
  /\ Unlock
  /\ UNCHANGED <<treeVars, windowContext>>

-----------------------------------------------------------------------------
(* The lambda that commit(false) dispatches: scoped_lock, renderLayerTree, *)
(* and the state is Idle again just before the lock is released.           *)

\* The lambda without its scoped_lock.
Mutant_RenderLockNoWait(t) ==
  /\ isMutating' = t
  /\ UNCHANGED <<update, treeVars, windowContext>>

\* A lambda that uses the third state, which commit() does not expect.
Mutant_RenderLockInProgress(t) ==
  /\ isMutating = NoThread
  /\ isMutating' = t
  /\ update' = "InProgress"
  /\ UNCHANGED <<treeVars, windowContext>>

RenderLock(t) ==
  /\ isMutating = NoThread
  /\ isMutating' = t
  /\ UNCHANGED <<update, treeVars, windowContext>>

RenderPrePaint ==
  /\ PrePaint
  /\ UNCHANGED <<isMutating, update, windowContext>>

RenderPaint ==
  /\ Paint
  /\ UNCHANGED <<isMutating, update, windowContext>>

\* The update state is not set back to Idle.
Mutant_RenderDoneKeepsState ==
  /\ Unlock
  /\ UNCHANGED <<update, treeVars, windowContext>>

RenderDone ==
  /\ update' = "Idle"
  /\ Unlock
  /\ UNCHANGED <<treeVars, windowContext>>

-----------------------------------------------------------------------------
(* setViewportSize() with a new size: the attributes change and commit()   *)
(* is called without begin(), so its reads and writes of the update state  *)
(* are not protected by the mutex that it unlocks at the end.              *)

SetViewportSize ==
  /\ needsResize' = TRUE
  /\ UNCHANGED <<isMutating, update, invalid, surfaceDamage, stale, windowContext>>

MarkScheduled ==
  /\ update' = "Scheduled"
  /\ UNCHANGED <<isMutating, treeVars, windowContext>>

ReleaseUnheld ==
  /\ Unlock
  /\ UNCHANGED <<update, treeVars, windowContext>>

=============================================================================
