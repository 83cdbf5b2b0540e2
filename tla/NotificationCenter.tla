------------------------ MODULE NotificationCenter --------------------------
(***************************************************************************)
(* NotificationCenter (ReactSkia/sdk/NotificationCenter.h and .cpp): a     *)
(* table of listeners per event, shared by every thread.  addListener()    *)
(* gives out an identifier at once and leaves the insertion to the event   *)
(* notifier thread; emit() leaves the calls to that thread as well;        *)
(* removeListener() changes the table on the calling thread.               *)
(*                                                                         *)
(* A critical section reads the shared state when it has locked the mutex  *)
(* and writes its result when it unlocks it.  While the mutex excludes     *)
(* other threads this is one atomic step; where it does not, it is the     *)
(* lost update that the data race can produce.                             *)
(***************************************************************************)
EXTENDS Naturals, Sequences, SequencesExt, FiniteSets

CONSTANTS
  Client,        \* threads that use the center
  Notifier,      \* the thread of eventNotifierThread_
  NoThread,      \* the mutex is not locked
  Event,         \* event names
  MaxListeners,  \* bound: calls of addListener
  MaxRemoves,    \* bound: calls of removeListener
  MaxEmits       \* bound: calls of emit

ASSUME CenterAssumption ==
  /\ Notifier \notin Client /\ NoThread \notin Client \cup {Notifier}
  /\ MaxListeners \in Nat /\ MaxRemoves \in Nat /\ MaxEmits \in Nat

Thread == Client \cup {Notifier}

VARIABLES
  mutex,          \* the thread that locked it last, or NoThread
  lastListener,   \* last_listener
  listenersList,  \* the registrations listed for every event
  queue,          \* functions queued for the notifier thread, oldest first
  pc,             \* the next statement of every thread
  call,           \* arguments of a thread's current call, and what it has read
  handle,         \* emit: the copied listeners that are still to be called
  called,         \* emit: registrations called so far
  owed,           \* emit: registrations made for the event before the emit
  removing,       \* identifiers for which removeListener has been called
  erased,         \* registrations that removeListener has erased
  added, removes, emits   \* numbers of calls so far

centerVars == <<mutex, lastListener, listenersList, queue>>
emitVars   == <<handle, called, owed>>
auxVars    == <<removing, erased, added, removes, emits>>
vars == <<centerVars, pc, call, emitVars, auxVars>>

Goto(t, from, to) ==
  /\ pc[t] = from
  /\ pc' = [pc EXCEPT ![t] = to]

Lock(t) == mutex = NoThread /\ mutex' = t
Unlock  == mutex' = NoThread

\* Where a thread calls the center from: a client from its own code, the
\* notifier thread from a listener's callback.
Outside(t) == IF t = Notifier THEN "calling" ELSE "idle"

Init ==
  /\ mutex = NoThread
  /\ lastListener = 0
  /\ listenersList = [e \in Event |-> {}]
  /\ queue = <<>>
  /\ pc = [t \in Thread |-> "idle"]
  /\ call = [t \in Thread |-> <<>>]
  /\ handle = {} /\ called = {} /\ owed = {}
  /\ removing = {} /\ erased = {}
  /\ added = {} /\ removes = 0 /\ emits = 0

-----------------------------------------------------------------------------
(* addListener                                                             *)

AddListener(t, e) ==
  /\ Cardinality(added) < MaxListeners
  /\ Goto(t, Outside(t), "addLock")
  /\ call' = [call EXCEPT ![t] =
                [op |-> "add", reg |-> Cardinality(added) + 1, event |-> e,
                 nested |-> t = Notifier]]
  /\ added' = added \cup {call'[t]}
  /\ UNCHANGED <<centerVars, emitVars, removing, erased, removes, emits>>

AddLock(t) ==
  /\ Goto(t, "addLock", "addQueue")
  /\ Lock(t)
  /\ call' = [call EXCEPT ![t] = [op |-> "add", reg |-> @.reg, event |-> @.event,
                                  nested |-> @.nested, id |-> lastListener + 1]]
  /\ UNCHANGED <<lastListener, listenersList, queue, emitVars, auxVars>>

AddQueue(t) ==
  /\ Goto(t, "addQueue", Outside(t))
  /\ lastListener' = call[t].id
  /\ queue' = Append(queue, call[t])
  /\ Unlock
  /\ UNCHANGED <<listenersList, call, emitVars, auxVars>>

-----------------------------------------------------------------------------
(* removeListener                                                          *)

RemoveListener(t, id) ==
  /\ removes < MaxRemoves
  /\ removes' = removes + 1
  /\ removing' = removing \cup {id}
  /\ Goto(t, Outside(t), "removeLock")
  /\ call' = [call EXCEPT ![t] = [op |-> "remove", id |-> id]]
  /\ UNCHANGED <<centerVars, emitVars, erased, added, emits>>

RemoveLock(t) ==
  /\ Goto(t, "removeLock", "removeErase")
  /\ Lock(t)
  /\ call' = [call EXCEPT ![t] = [op |-> "remove", id |-> @.id, list |-> listenersList]]
  /\ UNCHANGED <<lastListener, listenersList, queue, emitVars, auxVars>>

\* Erase the listener with this identifier, if there is one.
RemoveErase(t) ==
  LET list == call[t].list
      found == {r \in UNION {list[e] : e \in Event} : r.id = call[t].id}
  IN  /\ Goto(t, "removeErase", Outside(t))
      /\ IF found = {}
           THEN UNCHANGED <<listenersList, erased>>
           ELSE \E r \in found :
                  /\ listenersList' = [list EXCEPT ![r.event] = @ \ {r}]
                  /\ erased' = erased \cup {r.reg}
      /\ Unlock
      /\ UNCHANGED <<lastListener, queue, call, emitVars, removing, added, removes, emits>>

-----------------------------------------------------------------------------
(* emit                                                                    *)

\* A task that runs before the ones queued earlier.
Mutant_QueueEmitFirst(task) == queue' = <<task>> \o queue

\* runInEventBaseThread
QueueEmit(task) == queue' = Append(queue, task)

\* Registrations from inside callbacks, or from outside, whose addListener has
\* returned.
Registered(e, nested) ==
  {a.reg : a \in {x \in added : x.event = e /\ x.nested = nested /\ \A t \in Thread :
                     ~(pc[t] \in {"addLock", "addQueue"} /\ call[t].reg = x.reg)}}

Emit(t, e) ==
  /\ emits < MaxEmits
  /\ emits' = emits + 1
  /\ pc[t] = Outside(t)
  /\ QueueEmit([op |-> "emit", event |-> e, nested |-> t = Notifier,
                owed |-> Registered(e, t = Notifier)])
  /\ UNCHANGED <<mutex, lastListener, listenersList, pc, call, emitVars,
                 removing, erased, added, removes>>

-----------------------------------------------------------------------------
(* The notifier thread.                                                    *)

(***************************************************************************)
(* The event base runs the functions queued by other threads in order, and *)
(* those queued by its own thread (from inside a callback) in order, but   *)
(* it may run either kind first.                                           *)
(***************************************************************************)
TakeFunction(i, op) ==
  /\ queue[i].op = op
  /\ \A j \in 1..(i - 1) : queue[j].nested # queue[i].nested
  /\ queue' = RemoveAt(queue, i)

\* addlistenerHandler
InsertLock ==
  \E i \in DOMAIN queue :
    /\ TakeFunction(i, "add")
    /\ Goto(Notifier, "idle", "insert")
    /\ Lock(Notifier)
    /\ call' = [call EXCEPT ![Notifier] =
                  [op |-> "insert", task |-> queue[i], list |-> listenersList]]
    /\ UNCHANGED <<lastListener, listenersList, emitVars, auxVars>>

Insert ==
  LET task == call[Notifier].task
  IN  /\ Goto(Notifier, "insert", "idle")
      /\ listenersList' = [call[Notifier].list EXCEPT ![task.event] =
                             @ \cup {[reg |-> task.reg, event |-> task.event, id |-> task.id]}]
      /\ Unlock
      /\ UNCHANGED <<lastListener, queue, call, emitVars, auxVars>>

\* dispatchHandler that keeps the mutex while it calls the listeners.
Mutant_EmitCopyKeepsLock ==
  \E i \in DOMAIN queue :
    /\ TakeFunction(i, "emit")
    /\ handle' = listenersList[queue[i].event]
    /\ called' = {}
    /\ owed' = queue[i].owed
    /\ Goto(Notifier, "idle", IF handle' = {} THEN "idle" ELSE "calling")
    /\ mutex = NoThread
    /\ mutex' = IF handle' = {} THEN NoThread ELSE Notifier
    /\ UNCHANGED <<lastListener, listenersList, call, auxVars>>

(***************************************************************************)
(* dispatchHandler up to mutex.unlock(): copy the listeners of the event,  *)
(* or return when there are none.                                          *)
(***************************************************************************)
EmitCopy ==
  \E i \in DOMAIN queue :
    /\ TakeFunction(i, "emit")
    /\ handle' = listenersList[queue[i].event]
    /\ called' = {}
    /\ owed' = queue[i].owed
    /\ Goto(Notifier, "idle", IF handle' = {} THEN "idle" ELSE "calling")
    /\ mutex = NoThread
    /\ UNCHANGED <<mutex, lastListener, listenersList, call, auxVars>>

EmitCall ==
  /\ pc[Notifier] = "calling"
  /\ \E r \in handle :
       /\ handle' = handle \ {r}
       /\ called' = called \cup {r.reg}
  /\ UNCHANGED <<centerVars, pc, call, owed, auxVars>>

\* The end of dispatchHandler: the destructor of the unique_lock, which still
\* owns the mutex, unlocks it a second time.
EmitReturn ==
  /\ handle = {}
  /\ Goto(Notifier, "calling", "idle")
  /\ Unlock
  /\ UNCHANGED <<lastListener, listenersList, queue, call, emitVars, auxVars>>

-----------------------------------------------------------------------------

\* The rest of a call that a thread has started.
CallStep(t) == AddLock(t) \/ AddQueue(t) \/ RemoveLock(t) \/ RemoveErase(t)

NotifierStep ==
  InsertLock \/ Insert \/ EmitCopy \/ EmitCall \/ EmitReturn \/ CallStep(Notifier)

Request(t) ==
  \/ \E e \in Event : AddListener(t, e) \/ Emit(t, e)
  \/ \E id \in 1..lastListener : RemoveListener(t, id)

Next ==
  \/ \E t \in Thread : Request(t)
  \/ \E t \in Client : CallStep(t)
  \/ NotifierStep

\* A thread in the middle of a call goes on, and the notifier thread serves
\* its queue; nobody has to start a call.
Spec ==
  /\ Init /\ [][Next]_vars
  /\ WF_vars(NotifierStep)
  /\ \A t \in Client : WF_vars(CallStep(t))

-----------------------------------------------------------------------------
(* Properties                                                              *)

(***************************************************************************)
(* As long as no removal has been asked for, emit() calls every listener   *)
(* whose addListener() returned before it, when both are called from       *)
(* outside the callbacks, or both from inside: the insertion that is left  *)
(* to the notifier thread (NotificationCenter.h:108-121) never comes after *)
(* the calls of the emit.                                                  *)
(***************************************************************************)
DeliveryComplete == handle = {} /\ removing = {} => owed \subseteq called

(***************************************************************************)
(* The notifier thread serves everything that was queued, even when        *)
(* listeners add, remove and emit from inside their callbacks.             *)
(***************************************************************************)
QueueServed == (queue # <<>>) ~> (queue = <<>> /\ pc[Notifier] = "idle")

(***************************************************************************)
(* A listener that removeListener() has found and erased is not in the     *)
(* table any more: "Listener removed,Exiting.." (NotificationCenter.cpp:42)*)
(***************************************************************************)
ErasedNotListed ==
  \A e \in Event : \A r \in listenersList[e] : r.reg \notin erased

=============================================================================
