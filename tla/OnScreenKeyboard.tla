-------------------------- MODULE OnScreenKeyboard --------------------------
(***************************************************************************)
(* OnScreenKeyboard: the keyboard that a text input launches and exits.    *)
(* Its threads are the clients (the thread that mounts and the thread that *)
(* delivers keys both open and close text inputs), the worker of the       *)
(* window (WindowDelegator), the notifier of the sub-window, which brings  *)
(* key events, and a thread that works off repeated keys.  The mutex       *)
(* oskActiontCtrlMutex_ is held over a whole launch or exit and for every  *)
(* drawing; oskState_ is read and written without it.                      *)
(***************************************************************************)
EXTENDS WindowDelegator

CONSTANTS
  Client,        \* threads that call launch, exit and updatePlaceHolderString
  Key,           \* keys of the remote control; every one may move the focus
  TextKey,       \* the keys among them that are emitted to the client
  NoClient,      \* nobody holds the mutex
  NoKey,         \* RNS_KEY_UnKnown
  MaxCalls,      \* bound on the calls of the clients
  MaxKeys        \* bound on key events

ASSUME KeyAssumption == TextKey \subseteq Key /\ NoKey \notin Key /\ NoClient \notin Client

VARIABLES
  oskState,      \* "launching", "active", "exiting", "inactive"
  mutex,         \* the client in exit that holds oskActiontCtrlMutex_, or NoClient
  call,          \* what each client is doing
  ready,         \* windowReadyToDrawCB: "idle", "set", or drawings left, or "start"
  hearing,       \* subWindowKeyEventId_ is registered
  handler,       \* the notifier in onHWkeyHandler
  repeater,      \* repeatKeyProcessingThread
  repeatQueue,   \* repeatKeyQueue_
  hasQueue,      \* repeatKeyQueue_ is not null
  repeatMode,    \* onKeyRepeatMode_
  waiting,       \* waitingForKeyConsumedSignal_
  consumed,      \* sigKeyConsumed_
  previousKey,
  calls, keys,   \* calls and key events so far
  crashed        \* a thread was started over a joinable one, or a null queue used

oskVars == <<oskState, mutex, call, ready, hearing, handler, repeater, repeatQueue, hasQueue,
             repeatMode, waiting, consumed, previousKey, calls, keys, crashed>>
keyboardVars == <<delegatorVars, oskVars>>

\* A thread in processKey: the key, and the drawings it still asks for.
Processing(pc, k, left) == [pc |-> pc, key |-> k, left |-> left]
Idle == Processing("idle", NoKey, 0)
NoThread == Processing("none", NoKey, 0)
Ended == Processing("ended", NoKey, 0)
Loop == Processing("loop", NoKey, 0)

KeyboardInit ==
  /\ DelegatorInit
  /\ oskState = "inactive" /\ mutex = NoClient
  /\ call = [t \in Client |-> "idle"]
  /\ ready = "idle" /\ hearing = FALSE
  /\ handler = Idle /\ repeater = NoThread
  /\ repeatQueue = <<>> /\ hasQueue = FALSE /\ repeatMode = FALSE
  /\ waiting = FALSE /\ consumed = 0 /\ previousKey = NoKey
  /\ calls = 0 /\ keys = 0 /\ crashed = FALSE

\* triggerRenderRequest, as part of a step of the thread that asks for it.
TriggerRenderRequest == mutex = NoClient /\ CommitDrawCall(oskState = "active")

-----------------------------------------------------------------------------
(* launch and updatePlaceHolderString                                      *)

Call(t) == ~crashed /\ call[t] = "idle" /\ calls < MaxCalls /\ calls' = calls + 1
Step(t, from, to) == ~crashed /\ call[t] = from /\ call' = [call EXCEPT ![t] = to]

LaunchCheck(t) ==
  /\ Call(t) /\ oskState \notin {"launching", "active"}
  /\ Step(t, "idle", "launch")
  /\ UNCHANGED <<delegatorVars, oskState, mutex, ready, hearing, handler, repeater, repeatQueue,
                 hasQueue, repeatMode, waiting, consumed, previousKey, keys, crashed>>

Launch(t) ==
  /\ mutex = NoClient
  /\ Step(t, "launch", "idle")
  /\ oskState' = "launching"
  /\ IF worker = "none" THEN CreateWindow /\ UNCHANGED crashed
                        ELSE crashed' = TRUE /\ UNCHANGED delegatorVars
  /\ UNCHANGED <<mutex, ready, hearing, handler, repeater, repeatQueue, hasQueue, repeatMode,
                 waiting, consumed, previousKey, calls, keys>>

UpdateCheck(t) ==
  /\ Call(t) /\ oskState = "active"
  /\ Step(t, "idle", "update")
  /\ consumed' = IF waiting THEN consumed + 1 ELSE consumed
  /\ UNCHANGED <<delegatorVars, oskState, mutex, ready, hearing, handler, repeater, repeatQueue,
                 hasQueue, repeatMode, waiting, previousKey, keys, crashed>>

UpdateDraw(t) ==
  /\ Step(t, "update", "idle")
  /\ TriggerRenderRequest
  /\ UNCHANGED <<oskState, mutex, ready, hearing, handler, repeater, repeatQueue, hasQueue,
                 repeatMode, waiting, consumed, previousKey, calls, keys, crashed>>

-----------------------------------------------------------------------------
(* exit                                                                    *)

ExitCheck(t) ==
  /\ Call(t) /\ oskState \notin {"exiting", "inactive"}
  /\ Step(t, "idle", "exit")
  /\ UNCHANGED <<delegatorVars, oskState, mutex, ready, hearing, handler, repeater, repeatQueue,
                 hasQueue, repeatMode, waiting, consumed, previousKey, keys, crashed>>

ExitState(t) ==
  /\ Step(t, "exit", "lock")
  /\ oskState' = "exiting"
  /\ UNCHANGED <<delegatorVars, mutex, ready, hearing, handler, repeater, repeatQueue, hasQueue,
                 repeatMode, waiting, consumed, previousKey, calls, keys, crashed>>

ExitClose(t) ==
  /\ mutex = NoClient
  /\ Step(t, "lock", "join")
  /\ mutex' = t
  /\ CloseWindow
  /\ UNCHANGED <<oskState, ready, hearing, handler, repeater, repeatQueue, hasQueue, repeatMode,
                 waiting, consumed, previousKey, calls, keys, crashed>>

\* The worker is joined; the listener, the state and the queue are reset.
ExitReset(t) ==
  /\ CanJoin
  /\ Step(t, "join", "release")
  /\ worker' = "none"
  /\ hearing' = FALSE
  /\ oskState' = "inactive"
  /\ repeatQueue' = <<>>
  /\ UNCHANGED <<display, tasks, window, windowActive, readyCB, exposeID, readyPermits, exposing,
                 callback, mutex, ready, handler, repeater, hasQueue, repeatMode, waiting, consumed,
                 previousKey, calls, keys, crashed>>

\* The exit that does not wake a repeat thread that waits for a key.
Mutant_ExitRelease(t) ==
  /\ Step(t, "release", "joinRepeater")
  /\ consumed' = IF repeater # NoThread /\ waiting THEN consumed + 1 ELSE consumed
  /\ UNCHANGED <<repeatQueue, delegatorVars, oskState, mutex, ready, hearing, handler, repeater, hasQueue,
                 repeatMode, waiting, previousKey, calls, keys, crashed>>

\* The repeat thread is released from the semaphore or from the queue.
ExitRelease(t) ==
  /\ Step(t, "release", "joinRepeater")
  /\ consumed' = IF repeater # NoThread /\ waiting THEN consumed + 1 ELSE consumed
  /\ repeatQueue' = IF repeater # NoThread /\ ~waiting THEN Append(repeatQueue, NoKey)
                                                       ELSE repeatQueue
  /\ UNCHANGED <<delegatorVars, oskState, mutex, ready, hearing, handler, repeater, hasQueue,
                 repeatMode, waiting, previousKey, calls, keys, crashed>>

ExitJoin(t) ==
  /\ Step(t, "joinRepeater", "idle")
  /\ repeater \in {NoThread, Ended}
  /\ repeater' = NoThread
  /\ repeatMode' = FALSE /\ previousKey' = NoKey /\ waiting' = FALSE
  /\ hasQueue' = FALSE /\ repeatQueue' = <<>>
  /\ mutex' = NoClient
  /\ UNCHANGED <<delegatorVars, oskState, ready, hearing, handler, consumed, calls, keys, crashed>>

-----------------------------------------------------------------------------
(* windowReadyToDrawCB                                                     *)

ReadyUnchanged == UNCHANGED <<mutex, call, handler, repeatMode, waiting, previousKey, calls, keys>>

\* The check of the state; nothing else is done unless a launch is in progress.
ReadyCheck ==
  /\ ~crashed /\ callback # "none" /\ ready = "idle"
  /\ IF oskState = "launching"
     THEN ready' = "set" /\ UNCHANGED delegatorVars
     ELSE /\ CallbackReturns
          /\ UNCHANGED <<ready, display, worker, tasks, window, windowActive, readyCB, exposeID,
                         readyPermits>>
  /\ ReadyUnchanged
  /\ UNCHANGED <<oskState, hearing, repeater, repeatQueue, hasQueue, consumed, crashed>>

ReadySet ==
  /\ ~crashed /\ ready = "set"
  /\ oskState' = "active"
  /\ ready' = "draw"
  /\ ReadyUnchanged
  /\ UNCHANGED <<delegatorVars, hearing, repeater, repeatQueue, hasQueue, consumed, crashed>>

\* The four drawings; the model lets the first stand for the batched three.
ReadyDraw ==
  /\ ~crashed /\ ready \in {"draw", "drawLast"}
  /\ TriggerRenderRequest
  /\ ready' = IF ready = "draw" THEN "drawLast" ELSE "start"
  /\ ReadyUnchanged
  /\ UNCHANGED <<oskState, hearing, repeater, repeatQueue, hasQueue, consumed, crashed>>

ReadyStart ==
  /\ ~crashed /\ ready = "start"
  /\ ready' = "idle"
  /\ CallbackReturns
  /\ UNCHANGED <<display, worker, tasks, window, windowActive, readyCB, exposeID, readyPermits>>
  /\ IF repeater = NoThread
     THEN /\ repeater' = Loop
          /\ repeatQueue' = <<>> /\ hasQueue' = TRUE /\ consumed' = 0
          /\ hearing' = TRUE
          /\ UNCHANGED crashed
     ELSE crashed' = TRUE /\ UNCHANGED <<repeater, repeatQueue, hasQueue, consumed, hearing>>
  /\ ReadyUnchanged
  /\ UNCHANGED oskState

-----------------------------------------------------------------------------
(* Keys                                                                    *)

\* The rest of processKey after its check of the state: the drawings (one
\* stands for those of the return key, the focus and a new layout), then a key
\* of the keyboard is emitted.
Draws(thread) == thread.left > 0 /\ TriggerRenderRequest
Emits(thread) == thread.left = 0 /\ thread.key \in TextKey

\* onHWkeyHandler, for an event of the keyboard's window.
KeyEvent == ~crashed /\ hearing /\ window /\ handler = Idle /\ keys < MaxKeys /\ keys' = keys + 1

KeyRelease ==
  /\ KeyEvent
  /\ crashed' = (repeatMode /\ ~hasQueue)
  /\ repeatQueue' = IF repeatMode THEN <<>> ELSE repeatQueue
  /\ previousKey' = NoKey /\ repeatMode' = FALSE
  /\ UNCHANGED <<delegatorVars, oskState, mutex, call, ready, hearing, handler, repeater, hasQueue,
                 waiting, consumed, calls>>

KeyPress(k) ==
  /\ KeyEvent
  /\ oskState = "active"
  /\ handler' = Processing(IF previousKey = k THEN "repeat" ELSE "first", k, 0)
  /\ UNCHANGED <<delegatorVars, oskState, mutex, call, ready, hearing, repeater, repeatQueue,
                 hasQueue, repeatMode, waiting, consumed, previousKey, calls, crashed>>

\* A repeated key goes to the queue; another one is processed here.
KeyRepeat ==
  /\ ~crashed /\ handler.pc = "repeat"
  /\ repeatMode' = TRUE
  /\ crashed' = ~hasQueue
  /\ repeatQueue' = Append(repeatQueue, handler.key)
  /\ previousKey' = handler.key /\ handler' = Idle
  /\ UNCHANGED <<delegatorVars, oskState, mutex, call, ready, hearing, repeater, hasQueue, waiting,
                 consumed, calls, keys>>

\* The start of processKey: the check of the state, and how much it will draw.
KeyProcess ==
  /\ ~crashed /\ handler.pc = "first"
  /\ IF oskState = "active"
     THEN /\ \E n \in 0..2 : handler' = Processing("process", handler.key, n)
          /\ UNCHANGED previousKey
     ELSE handler' = Idle /\ previousKey' = handler.key
  /\ UNCHANGED <<delegatorVars, oskState, mutex, call, ready, hearing, repeater, repeatQueue,
                 hasQueue, repeatMode, waiting, consumed, calls, keys, crashed>>

KeyDraw ==
  /\ ~crashed /\ handler.pc = "process" /\ Draws(handler)
  /\ handler' = [handler EXCEPT !.left = @ - 1]
  /\ UNCHANGED <<oskState, mutex, call, ready, hearing, repeater, repeatQueue, hasQueue, repeatMode,
                 waiting, consumed, previousKey, calls, keys, crashed>>

KeyEmit ==
  /\ ~crashed /\ handler.pc = "process" /\ handler.left = 0
  /\ handler' = Idle /\ previousKey' = handler.key
  /\ waiting' = (waiting \/ (Emits(handler) /\ repeatMode))
  /\ UNCHANGED <<delegatorVars, oskState, mutex, call, ready, hearing, repeater, repeatQueue,
                 hasQueue, repeatMode, consumed, calls, keys, crashed>>

-----------------------------------------------------------------------------
(* repeatKeyProcessingThread                                               *)

RepeaterUnchanged == UNCHANGED <<oskState, mutex, call, ready, hearing, handler, hasQueue, repeatMode,
                                 previousKey, calls, keys, crashed>>

RepeatLoop ==
  /\ ~crashed /\ repeater = Loop
  /\ repeater' = IF oskState # "active" THEN Ended
                 ELSE Processing(IF waiting THEN "wait" ELSE "check", NoKey, 0)
  /\ RepeaterUnchanged
  /\ UNCHANGED <<delegatorVars, repeatQueue, waiting, consumed>>

RepeatWait ==
  /\ ~crashed /\ repeater.pc = "wait" /\ consumed > 0
  /\ consumed' = consumed - 1 /\ waiting' = FALSE
  /\ repeater' = [repeater EXCEPT !.pc = "check"]
  /\ RepeaterUnchanged
  /\ UNCHANGED <<delegatorVars, repeatQueue>>

RepeatCheck ==
  /\ ~crashed /\ repeater.pc = "check"
  /\ repeater' = IF oskState = "active" THEN [repeater EXCEPT !.pc = "pop"] ELSE Loop
  /\ RepeaterUnchanged
  /\ UNCHANGED <<delegatorVars, repeatQueue, waiting, consumed>>

\* pop, and the start of processKey.
RepeatPop ==
  /\ ~crashed /\ repeater.pc = "pop" /\ repeatQueue # <<>>
  /\ repeatQueue' = Tail(repeatQueue)
  /\ LET handles == Head(repeatQueue) # NoKey /\ oskState = "active"
     IN  \E n \in 0..2 : repeater' = Processing("process",
                                                IF handles THEN Head(repeatQueue) ELSE NoKey,
                                                IF handles THEN n ELSE 0)
  /\ RepeaterUnchanged
  /\ UNCHANGED <<delegatorVars, waiting, consumed>>

RepeatDraw ==
  /\ ~crashed /\ repeater.pc = "process" /\ Draws(repeater)
  /\ repeater' = [repeater EXCEPT !.left = @ - 1]
  /\ RepeaterUnchanged
  /\ UNCHANGED <<repeatQueue, waiting, consumed>>

RepeatEmit ==
  /\ ~crashed /\ repeater.pc = "process" /\ repeater.left = 0
  /\ repeater' = Loop
  /\ waiting' = (waiting \/ (Emits(repeater) /\ repeatMode))
  /\ RepeaterUnchanged
  /\ UNCHANGED <<delegatorVars, repeatQueue, consumed>>

-----------------------------------------------------------------------------
Window ==
  /\ ~crashed
  /\ CreateNativeWindow \/ RenderToDisplay \/ CloseNativeWindow \/ OnExposed
  /\ UNCHANGED oskVars

ExposeEvent == ~crashed /\ Expose /\ UNCHANGED oskVars

ClientWorks(t) == \/ Launch(t) \/ UpdateDraw(t) \/ ExitState(t) \/ ExitClose(t) \/ ExitReset(t)
                  \/ ExitRelease(t) \/ ExitJoin(t)
Ready == ReadyCheck \/ ReadySet \/ ReadyDraw \/ ReadyStart
Handler == KeyRepeat \/ KeyProcess \/ KeyDraw \/ KeyEmit
Repeater == RepeatLoop \/ RepeatWait \/ RepeatCheck \/ RepeatPop \/ RepeatDraw \/ RepeatEmit

KeyboardNext ==
  \/ \E t \in Client : LaunchCheck(t) \/ UpdateCheck(t) \/ ExitCheck(t) \/ ClientWorks(t)
  \/ KeyRelease \/ \E k \in Key : KeyPress(k)
  \/ Window \/ ExposeEvent \/ Ready \/ Handler \/ Repeater

\* Every thread that can go on does; calls and events come or do not come.
KeyboardSpec ==
  /\ KeyboardInit /\ [][KeyboardNext]_keyboardVars
  /\ \A t \in Client : WF_keyboardVars(ClientWorks(t))
  /\ WF_keyboardVars(Window) /\ WF_keyboardVars(Ready)
  /\ WF_keyboardVars(Handler) /\ WF_keyboardVars(Repeater)

-----------------------------------------------------------------------------
(* Properties                                                              *)

\* The state tells the truth about the window where the worker itself reports
\* that it is ready, whenever no exit is at work: an active keyboard has its
\* window, and an inactive one has neither the window nor a thread left,
\* whatever launches, exits and keys overlapped.
StateMatchesWindow ==
  (display = "wpe" /\ ~crashed /\ mutex = NoClient) =>
    /\ (oskState = "active" => window)
    /\ (oskState = "inactive" => ~window /\ worker = "none" /\ repeater = NoThread)

\* What an exit waits for in vain: the callback that waits for the mutex of
\* the exit, a repeat thread that waits for it to draw, and a repeat thread
\* that waits for a key although a key of another thread was emitted.
ExitBlocked ==
  \/ ready \in {"draw", "drawLast"}
  \/ (repeater.pc = "process" /\ repeater.left > 0)
  \/ (repeater.pc = "pop" /\ waiting)
  \/ crashed

\* An exit returns, unless these waits hold it for ever: closing the
\* window, the dummy key and the signal reach every other wait of the threads.
ExitReturns == \A t \in Client : call[t] = "lock" ~> (call[t] = "idle" \/ []ExitBlocked)

\* "post a dummy message to avoid dead lock on waiting for key Input" and
\* "Finally ensure the thread exit": an exit returns.
ExitNeverBlocks == \A t \in Client : call[t] = "lock" ~> (call[t] = "idle" \/ crashed)

=============================================================================
