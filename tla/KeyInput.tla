------------------------------ MODULE KeyInput ------------------------------
(***************************************************************************)
(* Hardware keys: RSkInputEventManager, the focus notifications of         *)
(* RSkSpatialNavigator, and RSkTVNavigationEventEmitter, which hands them  *)
(* to JavaScript.                                                          *)
(*                                                                         *)
(* The notifier thread of the default NotificationCenter receives keys and *)
(* focus notifications in one queue.  With key throttling built in         *)
(* (FEATURE_KEY_THROTTLING) a worker thread takes the keys from a second   *)
(* queue, and takes none while a focus notification is on its way: the     *)
(* count activeInputClients_ goes up when a notification with a completion *)
(* callback is emitted, and down when JavaScript has run the callback.     *)
(***************************************************************************)
EXTENDS Naturals, Integers, Sequences, FiniteSets, SequencesExt

CONSTANTS
  Key,             \* keys of the remote control
  NoKey,           \* RNS_KEY_UnKnown
  Builds,          \* the values of FEATURE_KEY_THROTTLING to look at
  MaxKeys,         \* bound: hardware key events in a behaviour
  MaxFocus,        \* bound: focus changes made by the main thread
  MaxObserve       \* bound: calls of addListener and removeListeners by JavaScript

ASSUME KeyAssumption ==
  /\ NoKey \notin Key
  /\ Builds \subseteq BOOLEAN
  /\ MaxKeys \in Nat /\ MaxFocus \in Nat /\ MaxObserve \in Nat

VARIABLES
  throttling,    \* FEATURE_KEY_THROTTLING, fixed when the program is built
  down,          \* the keys that are held down
  chord,         \* history: a key has gone down while another one was held
  center,        \* functions queued for the notifier thread, oldest first
  previousKey,   \* previousKeyType
  keyRepeat,
  handled,       \* the last key that keyHandler has seen
  keyQueue,      \* keyQueue_: keys for the worker thread
  worker,        \* next statement of inputWorkerThreadFunction
  current,       \* the keyInput that the worker has popped
  active,        \* activeInputClients_
  sem,           \* the value of keyEventPost_
  completions,   \* completion callbacks queued on the JavaScript thread
  listenerCount, \* listenerCount_ of the TV navigation event emitter
  navEventId,    \* the id that its last addListener() of the notification center returned
  listed,        \* ids of its handlers in the table of the notification center
  delivery,      \* a focus notification that is handed to them: its cause, for each one left
  lastKey,       \* the last key handed to processKey
  keys, focuses, observes   \* numbers of events so far

handlerVars == <<previousKey, keyRepeat, handled>>
workerVars  == <<worker, current>>
clientVars  == <<active, sem, completions>>
emitterVars == <<listenerCount, navEventId, listed, delivery>>
hardwareVars == <<down, chord>>
countVars   == <<keys, focuses, observes>>
vars == <<throttling, hardwareVars, center, handlerVars, keyQueue, workerVars, clientVars, emitterVars,
          lastKey, countVars>>

NoInput == [key |-> NoKey, press |-> FALSE, repeat |-> FALSE]

Init ==
  /\ throttling \in Builds
  /\ down = {} /\ chord = FALSE
  /\ center = <<>>
  /\ previousKey = NoKey /\ keyRepeat = FALSE /\ handled = NoInput
  /\ keyQueue = <<>>
  /\ worker = "check" /\ current = NoInput
  /\ active = 0 /\ sem = 1
  /\ completions = <<>>
  /\ listenerCount = 1 /\ navEventId = 1 /\ listed = {1} /\ delivery = <<>>
  /\ lastKey = NoInput
  /\ keys = 0 /\ focuses = 0 /\ observes = 0

-----------------------------------------------------------------------------
(* The window's event loop emits onHWKeyEvent: a key goes down, is         *)
(* reported again while it is held, and goes up; other keys may go down    *)
(* and up in the meantime.                                                 *)

HardwareKey(k, press) ==
  /\ keys < MaxKeys
  /\ keys' = keys + 1
  /\ press \/ k \in down
  /\ down' = IF press THEN down \cup {k} ELSE down \ {k}
  /\ chord' = (chord \/ (press /\ ~(down \subseteq {k})))
  /\ center' = Append(center, [op |-> "key", key |-> k, press |-> press])
  /\ UNCHANGED <<throttling, handlerVars, keyQueue, workerVars, clientVars, emitterVars,
                 lastKey, focuses, observes>>

-----------------------------------------------------------------------------
(* processKey, and the focus notifications of the spatial navigator        *)

\* A notification with a callback that is not counted.
Mutant_SendFocusNoCount(cause, queued) ==
  /\ center' = Append(queued, [op |-> "focus", cause |-> cause])
  /\ UNCHANGED active

\* sendNotificationWithEventType with a completion callback.  Without key
\* throttling there is no callback and nothing is counted.
SendFocus(cause, queued) ==
  /\ center' = Append(queued, [op |-> "focus", cause |-> cause])
  /\ active' = IF throttling THEN active + 1 ELSE active

\* processKey: the focused component may stop the key; a press that goes on
\* may move the focus.
ProcessKey(input, queued) ==
  /\ lastKey' = input
  /\ \/ center' = queued /\ UNCHANGED active
     \/ /\ input.press
        /\ SendFocus("key", queued)

\* updateFocusCandidate or updateSpatialNavigatorState on the main thread:
\* mounting gave a component the focus, or took it away.
MainFocus ==
  /\ focuses < MaxFocus
  /\ focuses' = focuses + 1
  /\ SendFocus("mount", center)
  /\ UNCHANGED <<throttling, hardwareVars, handlerVars, keyQueue, workerVars, sem, completions,
                 emitterVars, lastKey, keys, observes>>

-----------------------------------------------------------------------------
(* The notifier thread                                                     *)

\* The notifier thread begins with the next function of its queue.
Serves(op) == delivery = <<>> /\ center # <<>> /\ Head(center).op = op

\* The queue is flushed after the release has been pushed.
Mutant_FlushAfterPush(input, flush) == keyQueue' = IF flush THEN <<>> ELSE Append(keyQueue, input)

\* Flush the queue when the key was repeating, then push.
PushKey(input, flush) == keyQueue' = IF flush THEN <<input>> ELSE Append(keyQueue, input)

\* keyRepeat after the first test of keyHandler: a press of the previous key
\* is a repeat.
Repeating(k, press) == keyRepeat \/ (press /\ previousKey = k)

\* A release that does not end the repetition.
Mutant_RepeatFlagKept(k, press) == Repeating(k, press)

\* keyRepeat when the key input is made: a release ends the repetition.
RepeatFlag(k, press) == press /\ Repeating(k, press)

(***************************************************************************)
(* keyHandler.  A release sets previousKeyType to unknown, but it is set   *)
(* again to the key before the function returns.                           *)
(***************************************************************************)
HandleKey ==
  LET k      == Head(center).key
      press  == Head(center).press
      input  == [key |-> k, press |-> press, repeat |-> RepeatFlag(k, press)]
  IN  /\ Serves("key")
      /\ previousKey' = k
      /\ keyRepeat' = input.repeat
      /\ handled' = input
      /\ IF throttling
           THEN /\ PushKey(input, ~press /\ Repeating(k, press))
                /\ center' = Tail(center)
                /\ UNCHANGED <<active, lastKey>>
           ELSE /\ ProcessKey(input, Tail(center))
                /\ UNCHANGED keyQueue
      /\ UNCHANGED <<throttling, hardwareVars, workerVars, sem, completions, emitterVars, countVars>>

(***************************************************************************)
(* emit()'s function copies the list of handlers under the mutex and calls *)
(* them without it.  A notification that finds none is dropped together    *)
(* with its callback.                                                      *)
(***************************************************************************)
HandleFocus ==
  /\ Serves("focus")
  /\ center' = Tail(center)
  /\ delivery' = [i \in 1..Cardinality(listed) |-> Head(center).cause]
  /\ UNCHANGED <<throttling, hardwareVars, handlerVars, keyQueue, workerVars, clientVars, listenerCount,
                 navEventId, listed, lastKey, countVars>>

\* The TV navigation handler: sendEventWithName queues the completion on the
\* JavaScript thread, if anyone listens.
SendEventWithName ==
  /\ delivery # <<>>
  /\ delivery' = Tail(delivery)
  /\ completions' = IF throttling /\ listenerCount >= 1
                      THEN Append(completions, Head(delivery)) ELSE completions
  /\ UNCHANGED <<throttling, hardwareVars, center, handlerVars, keyQueue, workerVars, active, sem,
                 listenerCount, navEventId, listed, lastKey, countVars>>

\* The insertion that addListener() has left to the notifier thread.
HandleListen ==
  /\ Serves("listen")
  /\ center' = Tail(center)
  /\ listed' = listed \cup {Head(center).id}
  /\ UNCHANGED <<throttling, hardwareVars, handlerVars, keyQueue, workerVars, clientVars, listenerCount,
                 navEventId, delivery, lastKey, countVars>>

-----------------------------------------------------------------------------
(* inputWorkerThreadFunction                                               *)

\* The test without its loop: one post is enough to go on.
Mutant_WorkerWaitOnce ==
  /\ worker = "wait" /\ sem > 0
  /\ sem' = sem - 1
  /\ worker' = "pop"
  /\ UNCHANGED <<throttling, hardwareVars, center, handlerVars, keyQueue, current, active, completions,
                 emitterVars, lastKey, countVars>>

WorkerCheck ==
  /\ throttling /\ worker = "check"
  /\ worker' = IF active > 0 THEN "wait" ELSE "pop"
  /\ UNCHANGED <<throttling, hardwareVars, center, handlerVars, keyQueue, current, clientVars, emitterVars,
                 lastKey, countVars>>

WorkerWait ==
  /\ worker = "wait" /\ sem > 0
  /\ sem' = sem - 1
  /\ worker' = "check"
  /\ UNCHANGED <<throttling, hardwareVars, center, handlerVars, keyQueue, current, active, completions,
                 emitterVars, lastKey, countVars>>

WorkerPop ==
  /\ worker = "pop" /\ keyQueue # <<>>
  /\ worker' = "process"
  /\ current' = Head(keyQueue)
  /\ keyQueue' = Tail(keyQueue)
  /\ UNCHANGED <<throttling, hardwareVars, center, handlerVars, clientVars, emitterVars, lastKey, countVars>>

WorkerProcess ==
  /\ worker = "process"
  /\ worker' = "check"
  /\ ProcessKey(current, center)
  /\ UNCHANGED <<throttling, hardwareVars, handlerVars, keyQueue, current, sem, completions, emitterVars, countVars>>

-----------------------------------------------------------------------------
(* The JavaScript thread                                                   *)

\* A completion that posts only when somebody else is still active.
Mutant_Post == sem' = IF active = 2 THEN sem + 1 ELSE sem

\* onEventComplete: the last completion posts the semaphore.
Post == sem' = IF active = 1 THEN sem + 1 ELSE sem

OnEventComplete ==
  /\ completions # <<>>
  /\ completions' = Tail(completions)
  /\ Post
  /\ active' = IF active > 0 THEN active - 1 ELSE active
  /\ UNCHANGED <<throttling, hardwareVars, center, handlerVars, keyQueue, workerVars, emitterVars, lastKey, countVars>>

(***************************************************************************)
(* RSkBaseEventEmitter::addListener: for the first listener startObserving *)
(* adds a handler, and remembers the id of this handler only.              *)
(***************************************************************************)
JSAddListener ==
  /\ observes < MaxObserve
  /\ observes' = observes + 1
  /\ listenerCount' = listenerCount + 1
  /\ IF listenerCount = 0
       THEN /\ navEventId' = navEventId + 1
            /\ center' = Append(center, [op |-> "listen", id |-> navEventId'])
       ELSE UNCHANGED <<navEventId, center>>
  /\ UNCHANGED <<throttling, hardwareVars, handlerVars, keyQueue, workerVars, clientVars, listed, delivery,
                 lastKey, keys, focuses>>

(***************************************************************************)
(* RSkBaseEventEmitter::removeListeners(1): when none is left, now or      *)
(* already before, stopObserving erases the handler with the id, if it is  *)
(* in the table.                                                           *)
(***************************************************************************)
JSRemoveListeners ==
  /\ observes < MaxObserve
  /\ observes' = observes + 1
  /\ listenerCount' = IF listenerCount > 0 THEN listenerCount - 1 ELSE 0
  /\ listed' = IF listenerCount' = 0 THEN listed \ {navEventId} ELSE listed
  /\ UNCHANGED <<throttling, hardwareVars, center, handlerVars, keyQueue, workerVars, clientVars, navEventId,
                 delivery, lastKey, keys, focuses>>

-----------------------------------------------------------------------------

NotifierStep == HandleKey \/ HandleFocus \/ SendEventWithName \/ HandleListen
WorkerStep   == WorkerCheck \/ WorkerWait \/ WorkerPop \/ WorkerProcess

Next ==
  \/ \E k \in Key, press \in BOOLEAN : HardwareKey(k, press)
  \/ MainFocus \/ JSAddListener \/ JSRemoveListeners
  \/ NotifierStep \/ WorkerStep \/ OnEventComplete

\* The three threads serve what is queued for them.
Spec ==
  /\ Init /\ [][Next]_vars
  /\ WF_vars(NotifierStep) /\ WF_vars(WorkerStep) /\ WF_vars(OnEventComplete)

-----------------------------------------------------------------------------
(* Properties                                                              *)

\* Focus notifications that are queued, deliveries to a handler that are left,
\* and completions that have not run.
Outstanding ==
  Cardinality({i \in DOMAIN center : center[i].op = "focus"}) + Len(delivery) + Len(completions)

\* One of them is for a focus change that a key made.
KeyChangePending ==
  \/ \E i \in DOMAIN center : center[i].op = "focus" /\ center[i].cause = "key"
  \/ "key" \in Range(delivery) \cup Range(completions)

(***************************************************************************)
(* The emitter has one handler at most, the one whose id it remembers: no  *)
(* removal has come before the insertion of its handler, which it would    *)
(* miss and leave behind for good when another handler is added            *)
(* (RSkTVNavigationEventEmitter.cpp:38, 42).                               *)
(***************************************************************************)
OneHandler ==
  /\ listed \subseteq {navEventId}
  /\ \A i \in DOMAIN center : center[i].op = "listen" => center[i].id = navEventId

(***************************************************************************)
(* The worker takes no key while JavaScript still has to complete a focus  *)
(* change that an earlier key made ("If there are clients who are still    *)
(* processing previous key then wait..", RSkInputEventManager.cpp:65).     *)
(***************************************************************************)
Throttled == worker \in {"pop", "process"} => ~KeyChangePending

(***************************************************************************)
(* The worker is throttled, although the main thread moves the count up    *)
(* and JavaScript stops and starts listening at any time, as long as the   *)
(* emitter has one handler.  A second one completes each notification once *)
(* more, and the worker takes a key too early (RSkInputEventManager.cpp:65,*)
(* 78-79).                                                                 *)
(***************************************************************************)
KeyThrottled == OneHandler => Throttled

(***************************************************************************)
(* The worker's count is the number of focus changes that will still be    *)
(* completed, so that it never waits for a completion that nobody will     *)
(* deliver ("clients who are still processing previous key",               *)
(* RSkInputEventManager.cpp:65).                                           *)
(***************************************************************************)
CountExact == throttling => active = Outstanding

(***************************************************************************)
(* The count is exact as long as JavaScript keeps its listener: whatever   *)
(* the order of emits, deliveries and completions on the four threads, no  *)
(* notification is counted twice or completed uncounted                    *)
(* (RSkInputEventManager.cpp:73-81, RSkSpatialNavigator.cpp:48-52).        *)
(***************************************************************************)
CountIsOutstanding == observes = 0 => CountExact

(***************************************************************************)
(* Whatever the flush drops, the newest key that the handler has seen is   *)
(* never dropped: it is the last one in the queue, popped, or processed.   *)
(***************************************************************************)
NewestKeyKept ==
  LET newest == CASE keyQueue # <<>> -> Last(keyQueue)
                  [] keyQueue = <<>> /\ worker = "process" -> current
                  [] OTHER -> lastKey
  IN  newest = handled

(***************************************************************************)
(* In the build without key throttling, a key that reaches processKey as a *)
(* repeat is a press of the key that was processed just before it: a       *)
(* repetition ends with a release.  Only when two keys have been held at   *)
(* the same time can another key be taken for a repeat, and then only in   *)
(* the middle of a repetition (RSkInputEventManager.cpp:87-106).           *)
(***************************************************************************)
RepeatIsSameKey ==
  [][~throttling /\ lastKey' # lastKey /\ lastKey'.repeat
       => /\ lastKey'.press
          /\ lastKey'.key = lastKey.key \/ (chord /\ lastKey.repeat)]_vars

\* A key that is processed as a repeat is the key before it, whatever keys are
\* held (RSkInputEventManager.cpp:87-89).
RepeatIsKeyBefore ==
  [][~throttling /\ lastKey' # lastKey /\ lastKey'.repeat => lastKey'.key = lastKey.key]_vars

(***************************************************************************)
(* Every queued key is processed in the end, as long as JavaScript keeps   *)
(* its listener: the wake-ups of the semaphore are not lost, although the  *)
(* worker does not wait for each of them (RSkInputEventManager.cpp:62-81). *)
(***************************************************************************)
KeysServed ==
  (keyQueue # <<>>) ~> ((keyQueue = <<>> /\ worker # "process") \/ observes > 0)

=============================================================================
