------------------------------ MODULE TaskLoop ------------------------------
(***************************************************************************)
(* The main thread's task loop (rns_shell/platform/linux/TaskLoop.cpp), a  *)
(* thin wrapper of folly::EventBase.  Any thread may dispatch a task; the  *)
(* main thread runs the tasks one after the other, in FIFO order, once     *)
(* main() of shell.cpp has entered TaskLoop::run().                        *)
(***************************************************************************)
EXTENDS Naturals, Sequences

VARIABLES
  running,   \* eventBase_.isRunning(): run() has been entered
  tasks,     \* the functions queued in the event base, oldest first
  lost       \* history: the kinds of functions that were dropped

taskLoopVars == <<running, tasks, lost>>

(***************************************************************************)
(* The functions that the modelled code hands to dispatch():               *)
(*   "perform"  MountingManager::performTransaction                        *)
(*   "command"  the lambda of schedulerDidDispatchCommand                  *)
(*   "render"   the lambda of Compositor::commit                           *)
(***************************************************************************)
Task == {"perform", "command", "render"}

(***************************************************************************)
(* dispatch(): a function given to a loop that is not running is dropped   *)
(* and the caller is not told.                                             *)
(***************************************************************************)
Dispatch(task) ==
  IF running THEN tasks' = Append(tasks, task) /\ UNCHANGED lost
             ELSE lost' = lost \cup {task} /\ UNCHANGED tasks

\* run(): the main thread enters the loop.
Run ==
  /\ ~running
  /\ running' = TRUE
  /\ UNCHANGED <<tasks, lost>>

(***************************************************************************)
(* The event base takes the oldest function off its queue.  (What the main *)
(* thread hands to its own loop may overtake what other threads queued.    *)
(* The only such function here is the rendering of a view command.)        *)
(***************************************************************************)
TakeTask(task) ==
  /\ running
  /\ tasks # <<>>
  /\ Head(tasks) = task
  /\ tasks' = Tail(tasks)
  /\ UNCHANGED <<running, lost>>

Queued(task) == \E i \in DOMAIN tasks : tasks[i] = task

=============================================================================
