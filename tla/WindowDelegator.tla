--------------------------- MODULE WindowDelegator ---------------------------
(***************************************************************************)
(* WindowDelegator: the sub-window of the on-screen keyboard.  Creating,   *)
(* drawing and closing are tasks of a task loop on a worker thread.  The   *)
(* client is told that it may draw by a callback: on the worker itself, or *)
(* (X11) on the thread that delivers the expose event.  The steps of that  *)
(* callback are the client's; callback says which thread runs it.          *)
(***************************************************************************)
EXTENDS Naturals, Sequences

CONSTANT Display   \* the display platforms: "x11", "wpe"

VARIABLES
  display,       \* displayPlatForm_
  worker,        \* workerThread_: "none" (not joinable), "running", "ended"
  tasks,         \* the queue of windowTaskRunner_
  window,        \* window_ and windowContext_ are set
  windowActive,
  readyCB,       \* windowReadyTodrawCB_ is set
  exposeID,      \* exposeEventID_ is registered
  readyPermits,  \* semReadyToDraw_
  exposing,      \* the expose event is being handled
  callback       \* where the client's callback runs: "none", "worker", "expose"

delegatorVars == <<display, worker, tasks, window, windowActive, readyCB, exposeID, readyPermits,
                   exposing, callback>>

DelegatorInit ==
  /\ display \in Display
  /\ worker = "none" /\ tasks = <<>>
  /\ window = FALSE /\ windowActive = FALSE /\ readyCB = FALSE
  /\ exposeID = FALSE /\ readyPermits = 0 /\ exposing = FALSE /\ callback = "none"

\* createWindow; with a worker that can still be joined the assignment of the
\* new thread would end the program.
CreateWindow ==
  /\ worker' = "running"
  /\ tasks' = <<"create">>
  /\ readyCB' = TRUE
  /\ UNCHANGED <<display, window, windowActive, exposeID, readyPermits, exposing, callback>>

\* closeWindow, up to the join.
CloseWindow ==
  /\ windowActive' = FALSE
  /\ tasks' = IF worker = "running" THEN Append(tasks, "close") ELSE tasks
  /\ UNCHANGED <<display, worker, window, readyCB, exposeID, readyPermits, exposing, callback>>

\* closeWindow without the join.
Mutant_CanJoin == TRUE

\* workerThread_.join() does not block.
CanJoin == worker # "running"

\* commitDrawCall, in a step of the client that changes nothing else of the
\* window.
CommitDrawCall(draw) ==
  /\ tasks' = IF draw /\ windowActive /\ worker = "running" THEN Append(tasks, "draw") ELSE tasks
  /\ UNCHANGED <<display, worker, window, windowActive, readyCB, exposeID, readyPermits, exposing,
                 callback>>

-----------------------------------------------------------------------------
(* The worker thread                                                       *)

NextTask(task) == worker = "running" /\ callback # "worker" /\ tasks # <<>> /\ Head(tasks) = task

CreateNativeWindow ==
  /\ NextTask("create")
  /\ tasks' = Tail(tasks)
  /\ window' = TRUE /\ windowActive' = TRUE
  /\ IF display = "x11"
     THEN exposeID' = TRUE /\ readyPermits' = 1 /\ UNCHANGED callback
     ELSE callback' = (IF readyCB THEN "worker" ELSE "none") /\ UNCHANGED <<exposeID, readyPermits>>
  /\ UNCHANGED <<display, worker, readyCB, exposing>>

RenderToDisplay ==
  /\ NextTask("draw")
  /\ tasks' = Tail(tasks)
  /\ UNCHANGED <<display, worker, window, windowActive, readyCB, exposeID, readyPermits, exposing,
                 callback>>

\* closeNativeWindow, and the end of the task loop.
CloseNativeWindow ==
  /\ NextTask("close")
  /\ worker' = "ended" /\ tasks' = <<>>
  /\ window' = FALSE /\ readyCB' = FALSE /\ exposeID' = FALSE
  /\ readyPermits' = IF display = "x11" THEN readyPermits + 1 ELSE 0
  /\ UNCHANGED <<display, windowActive, exposing, callback>>

-----------------------------------------------------------------------------
(* The thread that delivers the expose event                               *)

Expose ==
  /\ window /\ exposeID /\ ~exposing
  /\ exposing' = TRUE
  /\ UNCHANGED <<display, worker, tasks, window, windowActive, readyCB, exposeID, readyPermits,
                 callback>>

\* onExposeHandler after sem_wait.
OnExposed ==
  /\ exposing /\ callback # "expose" /\ readyPermits > 0
  /\ readyPermits' = readyPermits - 1
  /\ exposeID' = FALSE
  /\ callback' = IF readyCB THEN "expose" ELSE "none"
  /\ exposing' = readyCB
  /\ UNCHANGED <<display, worker, tasks, window, windowActive, readyCB>>

\* The client's callback returns.
CallbackReturns ==
  /\ callback' = "none"
  /\ exposing' = IF callback = "expose" THEN FALSE ELSE exposing

=============================================================================
