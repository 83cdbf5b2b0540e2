--------------------------- MODULE MountingManager --------------------------
(***************************************************************************)
(* MountingManager (ReactSkia/MountingManager.cpp): how a revision of the  *)
(* shadow tree, committed on the JavaScript thread, reaches the render     *)
(* layer tree on the main thread.                                          *)
(*                                                                         *)
(* The two threads share two std::atomic<bool> flags and nothing else, so  *)
(* every read and every write of a flag is a step of its own.  A program   *)
(* counter value is the name of the next statement of the thread.          *)
(***************************************************************************)
EXTENDS Compositor

CONSTANTS
  Main,        \* the thread that runs TaskLoop::main()
  JS,          \* the JavaScript thread, the one that commits
  MaxCommits,  \* bound: revisions committed in a behaviour
  MaxCommands  \* bound: view commands dispatched in a behaviour

VARIABLES
  transactionInFlight,          \* std::atomic<bool>
  followUpTransactionRequired,  \* std::atomic<bool>
  committed,   \* the newest revision held by the MountingCoordinator
  pulled,      \* the newest revision taken by pullTransaction
  mutations,   \* layers that the current transaction has still to change
  commands,    \* view commands dispatched so far
  pc           \* the next statement of every thread

flagVars == <<transactionInFlight, followUpTransactionRequired>>
mountingVars == <<flagVars, committed, pulled, mutations, commands>>

Goto(t, from, to) ==
  /\ pc[t] = from
  /\ pc' = [pc EXCEPT ![t] = to]

MountingInit ==
  /\ transactionInFlight = FALSE
  /\ followUpTransactionRequired = FALSE
  /\ committed = 0
  /\ pulled = 0
  /\ mutations = {}
  /\ commands = 0
  /\ pc = [t \in Thread |-> "idle"]

-----------------------------------------------------------------------------
(* The JavaScript thread: schedulerDidFinishTransaction                    *)

\* A commit of the shadow tree: the coordinator holds a new revision and the
\* scheduler calls its delegate.
CommitRevision ==
  /\ committed < MaxCommits
  /\ Goto(JS, "idle", "checkInFlight")
  /\ committed' = committed + 1
  /\ UNCHANGED <<flagVars, pulled, mutations, commands, taskLoopVars, compositorVars>>

\* The early return without followUpTransactionRequired_ = true.
Mutant_CheckInFlightNoFollowUp ==
  /\ Goto(JS, "checkInFlight", IF transactionInFlight THEN "idle" ELSE "setInFlight")
  /\ UNCHANGED <<mountingVars, taskLoopVars, compositorVars>>

CheckInFlight ==
  /\ Goto(JS, "checkInFlight",
          IF transactionInFlight THEN "setFollowUp" ELSE "setInFlight")
  /\ UNCHANGED <<mountingVars, taskLoopVars, compositorVars>>

SetFollowUp ==
  /\ Goto(JS, "setFollowUp", "idle")
  /\ followUpTransactionRequired' = TRUE
  /\ UNCHANGED <<transactionInFlight, committed, pulled, mutations, commands,
                 taskLoopVars, compositorVars>>

SetInFlight ==
  /\ Goto(JS, "setInFlight", "dispatchPerform")
  /\ transactionInFlight' = TRUE
  /\ UNCHANGED <<followUpTransactionRequired, committed, pulled, mutations, commands,
                 taskLoopVars, compositorVars>>

DispatchPerform ==
  /\ Goto(JS, "dispatchPerform", "idle")
  /\ Dispatch("perform")
  /\ UNCHANGED <<mountingVars, running, compositorVars>>

\* schedulerDidDispatchCommand
SchedulerDidDispatchCommand ==
  /\ commands < MaxCommands
  /\ pc[JS] = "idle"
  /\ commands' = commands + 1
  /\ Dispatch("command")
  /\ UNCHANGED <<flagVars, committed, pulled, mutations, pc, running, compositorVars>>

-----------------------------------------------------------------------------
(* The main thread: performTransaction and ProcessMutations                *)

StartPerform ==
  /\ Goto(Main, "idle", "resetFollowUp")
  /\ TakeTask("perform")
  /\ UNCHANGED <<mountingVars, compositorVars>>

ResetFollowUp ==
  /\ Goto(Main, "resetFollowUp", "raiseInFlight")
  /\ followUpTransactionRequired' = FALSE
  /\ UNCHANGED <<transactionInFlight, committed, pulled, mutations, commands,
                 taskLoopVars, compositorVars>>

RaiseInFlight ==
  /\ Goto(Main, "raiseInFlight", "pull")
  /\ transactionInFlight' = TRUE
  /\ UNCHANGED <<followUpTransactionRequired, committed, pulled, mutations, commands,
                 taskLoopVars, compositorVars>>

(***************************************************************************)
(* pullTransaction hands over the difference between the last revision it  *)
(* gave out and the newest one: nothing when there is no newer revision,   *)
(* and possibly nothing when there is one (the revisions may describe the  *)
(* same views).  ProcessMutations returns at once on an empty list.        *)
(***************************************************************************)
PullTransaction ==
  \E layers \in SUBSET Layer :
    /\ committed = pulled => layers = {}
    /\ mutations' = layers
    /\ pulled' = committed
    /\ Goto(Main, "pull", IF layers = {} THEN "clearInFlight" ELSE "begin")
    /\ UNCHANGED <<flagVars, committed, commands, taskLoopVars, compositorVars>>

BeginTransaction ==
  /\ Goto(Main, "begin", "mutate")
  /\ Begin(Main)
  /\ UNCHANGED <<mountingVars, taskLoopVars>>

\* One Create, Delete, Insert, Remove or Update instruction.
ProcessMutation ==
  \E l \in mutations :
    /\ mutations' = mutations \ {l}
    /\ ChangeLayer(l)
    /\ Goto(Main, "mutate", IF mutations = {l} THEN "commit" ELSE "mutate")
    /\ UNCHANGED <<flagVars, committed, pulled, commands, taskLoopVars>>

\* commit(true), the two halves of its rendering
CommitTransaction ==
  /\ Goto(Main, "commit", "commitPaint")
  /\ CommitPrePaint
  /\ UNCHANGED <<mountingVars, taskLoopVars>>

PaintTransaction ==
  /\ Goto(Main, "commitPaint", "clearInFlight")
  /\ CommitPaint
  /\ UNCHANGED <<mountingVars, taskLoopVars>>

\* performTransaction ends without transactionInFlight_ = false.
Mutant_ClearInFlightMissing ==
  /\ Goto(Main, "clearInFlight", "checkFollowUp")
  /\ UNCHANGED <<mountingVars, taskLoopVars, compositorVars>>

ClearInFlight ==
  /\ Goto(Main, "clearInFlight", "checkFollowUp")
  /\ transactionInFlight' = FALSE
  /\ UNCHANGED <<followUpTransactionRequired, committed, pulled, mutations, commands,
                 taskLoopVars, compositorVars>>

\* The body of the do-while loop, without the loop.
Mutant_CheckFollowUpNoLoop ==
  /\ Goto(Main, "checkFollowUp", "idle")
  /\ UNCHANGED <<mountingVars, taskLoopVars, compositorVars>>

CheckFollowUp ==
  /\ Goto(Main, "checkFollowUp",
          IF followUpTransactionRequired THEN "resetFollowUp" ELSE "idle")
  /\ UNCHANGED <<mountingVars, taskLoopVars, compositorVars>>

PerformTransaction ==
  \/ StartPerform \/ ResetFollowUp \/ RaiseInFlight \/ PullTransaction
  \/ BeginTransaction \/ ProcessMutation \/ CommitTransaction
  \/ PaintTransaction \/ ClearInFlight \/ CheckFollowUp

=============================================================================
