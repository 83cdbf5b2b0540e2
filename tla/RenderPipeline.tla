--------------------------- MODULE RenderPipeline ---------------------------
(***************************************************************************)
(* The rendering pipeline: the mounting manager, the compositor and the    *)
(* main task loop, with every thread that takes part in it.                *)
(*                                                                         *)
(*   JS       commits revisions and dispatches view commands               *)
(*   Main     runs transactions, view commands and scheduled renderings    *)
(*   Worker   threads that change a layer on their own: the completion of  *)
(*            an image request, the fade-out timer of a scroll bar, the    *)
(*            animation thread, the key thread, UIManager.updateView       *)
(*   Events   the window's event loop, which reports a new window size     *)
(***************************************************************************)
EXTENDS MountingManager

CONSTANTS
  Worker,             \* threads that call notifyFlushBegin/notifyFlushRequired
  Events,             \* the thread of Window::createEventLoop
  MaxUpdates,         \* bound: updates by worker threads in a behaviour
  MaxResizes          \* bound: window size changes in a behaviour

ASSUME ThreadAssumption ==
  /\ Main # JS /\ Main # Events /\ JS # Events
  /\ Worker \cap {Main, JS, Events} = {}
  /\ Thread = Worker \cup {Main, JS, Events}
  /\ NoThread \notin Thread

ASSUME BoundAssumption ==
  /\ MaxCommits \in Nat /\ MaxCommands \in Nat
  /\ MaxUpdates \in Nat /\ MaxResizes \in Nat

VARIABLES
  updates,   \* updates by worker threads so far
  resizes    \* window size changes so far

vars == <<taskLoopVars, compositorVars, mountingVars, pc, updates, resizes>>

-----------------------------------------------------------------------------
(* A client of Layer::Client::notifyFlushBegin / notifyFlushRequired.      *)

\* notifyFlushBegin -> beginRenderingUpdate -> begin
ClientBegin(t, from) ==
  /\ Goto(t, from, "change")
  /\ Begin(t)

ClientChange(t) ==
  /\ Goto(t, "change", "flush")
  /\ \E l \in Layer : ChangeLayer(l)
  /\ UNCHANGED <<mountingVars, taskLoopVars, updates, resizes>>

\* notifyFlushRequired -> scheduleRenderingUpdate -> commit(false)
ClientFlush(t) ==
  /\ Goto(t, "flush", IF NeedsDispatch THEN "dispatchRender" ELSE "idle")
  /\ CommitScheduled
  /\ UNCHANGED <<mountingVars, taskLoopVars, updates, resizes>>

ClientDispatch(t) ==
  /\ Goto(t, "dispatchRender", "idle")
  /\ Dispatch("render")
  /\ UNCHANGED <<mountingVars, running, compositorVars, updates, resizes>>

ClientSteps(t) == ClientChange(t) \/ ClientFlush(t) \/ ClientDispatch(t)

\* RSkComponentImage::drawAndSubmit and its like, on a thread of its own: a
\* component is there when a transaction has created it.
WorkerUpdate(w) ==
  /\ updates < MaxUpdates /\ pulled > 0
  /\ updates' = updates + 1
  /\ ClientBegin(w, "idle")
  /\ UNCHANGED <<mountingVars, taskLoopVars, resizes>>

-----------------------------------------------------------------------------
(* The tasks of the main thread other than performTransaction.             *)

\* The lambda of schedulerDidDispatchCommand; a command whose component is
\* gone, or that changes nothing, does not touch the tree.
StartCommand ==
  /\ TakeTask("command")
  /\ \E next \in {"idle", "beginCommand"} : Goto(Main, "idle", next)
  /\ UNCHANGED <<mountingVars, compositorVars, updates, resizes>>

BeginCommand ==
  /\ ClientBegin(Main, "beginCommand")
  /\ UNCHANGED <<mountingVars, taskLoopVars, updates, resizes>>

StartRender ==
  /\ TakeTask("render")
  /\ Goto(Main, "idle", "renderLock")
  /\ UNCHANGED <<mountingVars, compositorVars, updates, resizes>>

LockScheduledRender ==
  /\ Goto(Main, "renderLock", "prePaint")
  /\ RenderLock(Main)
  /\ UNCHANGED <<mountingVars, taskLoopVars, updates, resizes>>

PrePaintScheduledRender ==
  /\ Goto(Main, "prePaint", "paint")
  /\ RenderPrePaint
  /\ UNCHANGED <<mountingVars, taskLoopVars, updates, resizes>>

PaintScheduledRender ==
  /\ Goto(Main, "paint", "renderDone")
  /\ RenderPaint
  /\ UNCHANGED <<mountingVars, taskLoopVars, updates, resizes>>

FinishScheduledRender ==
  /\ Goto(Main, "renderDone", "idle")
  /\ RenderDone
  /\ UNCHANGED <<mountingVars, taskLoopVars, updates, resizes>>

MainTasks ==
  \/ StartCommand \/ BeginCommand \/ StartRender
  \/ LockScheduledRender \/ PrePaintScheduledRender
  \/ PaintScheduledRender \/ FinishScheduledRender

\* main() of shell.cpp enters the loop after it has created the application and
\* the event loop's thread: JavaScript runs already.
EnterLoop ==
  /\ Run
  /\ UNCHANGED <<compositorVars, mountingVars, pc, updates, resizes>>

-----------------------------------------------------------------------------
(* Application::sizeChanged, on the event loop's thread.                   *)

WindowResized ==
  /\ resizes < MaxResizes
  /\ resizes' = resizes + 1
  /\ Goto(Events, "idle", "readState")
  /\ SetViewportSize
  /\ UNCHANGED <<mountingVars, taskLoopVars, updates>>

\* commit(): the switch on renderState_.update, then unlock and dispatch.
ResizeReadState ==
  /\ Goto(Events, "readState", IF NeedsDispatch THEN "markScheduled" ELSE "unlock")
  /\ UNCHANGED <<mountingVars, taskLoopVars, compositorVars, updates, resizes>>

ResizeMarkScheduled ==
  /\ Goto(Events, "markScheduled", "unlockThenDispatch")
  /\ MarkScheduled
  /\ UNCHANGED <<mountingVars, taskLoopVars, updates, resizes>>

ResizeUnlock ==
  /\ \/ Goto(Events, "unlock", "idle")
     \/ Goto(Events, "unlockThenDispatch", "dispatchRender")
  /\ ReleaseUnheld
  /\ UNCHANGED <<mountingVars, taskLoopVars, updates, resizes>>

EventsStep ==
  \/ ResizeReadState \/ ResizeMarkScheduled \/ ResizeUnlock \/ ClientDispatch(Events)

-----------------------------------------------------------------------------

Init ==
  /\ running = FALSE /\ tasks = <<>> /\ lost = {}
  /\ CompositorInit
  /\ MountingInit
  /\ updates = 0
  /\ resizes = 0

\* One step of a thread's own work: what the operating system's scheduler
\* and the task loop sooner or later give it the time for.
JSStep   == (CheckInFlight \/ SetFollowUp \/ SetInFlight \/ DispatchPerform)
              /\ UNCHANGED <<updates, resizes>>
MainStep == \/ PerformTransaction /\ UNCHANGED <<updates, resizes>>
            \/ MainTasks
            \/ ClientSteps(Main)
            \/ EnterLoop

\* A step that some thread decides on: nothing forces it to happen.
Request ==
  \/ (CommitRevision \/ SchedulerDidDispatchCommand) /\ UNCHANGED <<updates, resizes>>
  \/ \E w \in Worker : WorkerUpdate(w)

Next ==
  \/ Request
  \/ JSStep
  \/ MainStep
  \/ \E w \in Worker : ClientSteps(w)

Spec == Init /\ [][Next]_vars

Fairness ==
  /\ WF_vars(JSStep)
  /\ WF_vars(MainStep)
  /\ \A w \in Worker : WF_vars(ClientSteps(w))

FairSpec == Spec /\ Fairness

\* The same system when the size of the window may change.
ResizeNext == Next \/ WindowResized \/ EventsStep

ResizeSpec == Init /\ [][ResizeNext]_vars /\ Fairness /\ WF_vars(EventsStep)

-----------------------------------------------------------------------------
(* Properties                                                              *)

PerformPc == {"resetFollowUp", "raiseInFlight", "pull", "begin", "mutate",
              "commit", "commitPaint", "clearInFlight", "checkFollowUp"}
RenderPc  == {"renderLock", "prePaint", "paint", "renderDone"}
ClientPc  == {"change", "flush", "dispatchRender"}

MainPc   == {"idle", "beginCommand"} \cup PerformPc \cup RenderPc \cup ClientPc
JSPc     == {"idle", "checkInFlight", "setFollowUp", "setInFlight", "dispatchPerform"}
WorkerPc == {"idle"} \cup ClientPc
EventsPc == {"idle", "readState", "markScheduled", "unlock", "unlockThenDispatch",
             "dispatchRender"}

(***************************************************************************)
(* Every variable has its type.  In particular the update state is never   *)
(* InProgress, the case that commit() says it should not reach, and the    *)
(* main thread never gives out a revision that was not committed.          *)
(***************************************************************************)
TypeOK ==
  /\ running \in BOOLEAN
  /\ tasks \in Seq(Task) /\ lost \subseteq Task
  /\ isMutating \in Thread \cup {NoThread}
  /\ update \in {"Idle", "Scheduled"}
  /\ invalid \subseteq Layer /\ surfaceDamage \subseteq Layer /\ stale \subseteq Layer
  /\ needsResize \in BOOLEAN /\ windowContext \in BOOLEAN
  /\ transactionInFlight \in BOOLEAN /\ followUpTransactionRequired \in BOOLEAN
  /\ committed \in 0..MaxCommits /\ pulled \in 0..committed
  /\ mutations \subseteq Layer
  /\ commands \in 0..MaxCommands
  /\ updates \in 0..MaxUpdates /\ resizes \in 0..MaxResizes
  /\ pc \in [Thread -> MainPc \cup JSPc \cup EventsPc]
  /\ pc[Main] \in MainPc /\ pc[JS] \in JSPc /\ pc[Events] \in EventsPc
  /\ \A w \in Worker : pc[w] \in WorkerPc

\* The statements between the lock and the unlock of isMutating.
CriticalPc == {"mutate", "commit", "commitPaint", "change", "flush",
               "prePaint", "paint", "renderDone"}

(***************************************************************************)
(* No two threads are between begin() and commit(), or in a rendering, at  *)
(* the same time ("Call this before modifying render layer tree",          *)
(* Compositor.h:44).                                                       *)
(***************************************************************************)
TreeExclusive ==
  \A t, u \in Thread : pc[t] \in CriticalPc /\ pc[u] \in CriticalPc => t = u

(***************************************************************************)
(* No damage is lost: although begin() forgets the damage list and any     *)
(* thread's rendering clears the masks of every layer, a layer whose       *)
(* pixels are out of date is always invalid, or in the damage list of a    *)
(* rendering that has not painted yet.                                     *)
(***************************************************************************)
DamageKept ==
  \A l \in stale :
    \/ l \in invalid
    \/ windowContext /\ pc[Main] \in {"paint", "commitPaint"} /\ l \in surfaceDamage

(***************************************************************************)
(* While the update state is Scheduled, so that commit(false) schedules    *)
(* nothing, a rendering is queued, running, or about to be dispatched.  No *)
(* rendering is dropped by a loop that does not run yet, for whoever asks  *)
(* for one has a component, which the loop has created.                    *)
(***************************************************************************)
ScheduledBacked ==
  update = "Scheduled" =>
    \/ Queued("render")
    \/ pc[Main] \in RenderPc
    \/ \E t \in Thread : pc[t] \in {"dispatchRender", "unlockThenDispatch"}

(***************************************************************************)
(* While transactionInFlight_ is set, so that schedulerDidFinishTransaction*)
(* dispatches nothing, performTransaction is queued, about to be           *)
(* dispatched, or running and still to clear the flag, unless JavaScript   *)
(* has dispatched it before the main thread entered its loop.              *)
(***************************************************************************)
TransactionComing ==
  \/ Queued("perform")
  \/ pc[JS] = "dispatchPerform"
  \/ pc[Main] \in PerformPc \ {"checkFollowUp"}

InFlightBacked == transactionInFlight => TransactionComing \/ "perform" \in lost

(***************************************************************************)
(* The same without an exception.  It is violated: nothing makes the first *)
(* commit of JavaScript wait for the loop, which drops performTransaction, *)
(* and no later commit dispatches it again (shell.cpp:87, :95).            *)
(***************************************************************************)
InFlightAlwaysBacked == transactionInFlight => TransactionComing

(***************************************************************************)
(* A revision that has not been pulled is on its way to the main thread,   *)
(* or at least the follow-up flag remembers it: the reset of the flag at   *)
(* the head of the loop never forgets a revision.  The only other revision *)
(* is one whose performTransaction was dispatched before the loop ran.     *)
(***************************************************************************)
RevisionAccounted ==
  pulled < committed =>
    \/ pc[JS] # "idle"
    \/ Queued("perform")
    \/ pc[Main] \in {"resetFollowUp", "raiseInFlight", "pull"}
    \/ followUpTransactionRequired
    \/ "perform" \in lost

(***************************************************************************)
(* Every change of a layer reaches the screen, whichever of the threads'   *)
(* renderings gets to it.                                                  *)
(***************************************************************************)
ChangesShown ==
  \A l \in Layer : (l \in stale /\ windowContext) ~> (l \notin stale)

(***************************************************************************)
(* No thread hangs: whoever waits for isMutating, or holds it, gets to the *)
(* end of what it is doing.                                                *)
(***************************************************************************)
ThreadsFinish ==
  \A t \in Thread : (pc[t] # "idle") ~> (pc[t] = "idle")

(***************************************************************************)
(* A revision is mounted at the latest because of the commit after it,     *)
(* unless the loop has dropped performTransaction before it ran.           *)
(***************************************************************************)
EarlierRevisionsMounted ==
  \A n \in 1..MaxCommits : (committed > n) ~> (pulled >= n \/ "perform" \in lost)

(***************************************************************************)
(* Every committed revision is mounted, if the loop has dropped nothing.   *)
(* "If transaction processing ongoing,set flag for followUp and return"    *)
(* (MountingManager.cpp:34) says that the running transaction takes care   *)
(* of it.                                                                  *)
(***************************************************************************)
EveryRevisionMounted ==
  \A n \in 1..MaxCommits : (committed >= n) ~> (pulled >= n \/ "perform" \in lost)

=============================================================================
