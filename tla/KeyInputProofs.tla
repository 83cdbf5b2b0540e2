--------------------------- MODULE KeyInputProofs ---------------------------
(***************************************************************************)
(* Proofs about KeyInput, for any set of keys and any bounds: the key      *)
(* throttle, the count it rests on, and what becomes of the newest key.    *)
(***************************************************************************)
EXTENDS KeyInput, FiniteSetTheorems, SequenceTheorems, TLAPS

-----------------------------------------------------------------------------
(* Counting the elements of a queue.                                       *)

\* The positions at which a queue holds an element of T, and their number.
Places(s, T) == {i \in 1..Len(s) : s[i] \in T}
Count(s, T)  == Cardinality(Places(s, T))

\* A count is a natural number.
LEMMA CountIsNat ==
  ASSUME NEW M, NEW T, NEW s \in Seq(M)
  PROVE  IsFiniteSet(Places(s, T)) /\ Count(s, T) \in Nat
<1>1. IsFiniteSet(1..Len(s))
  BY FS_Interval
<1>2. IsFiniteSet(Places(s, T))
  BY <1>1, FS_Subset DEF Places
<1> QED BY <1>2, FS_CardinalityType DEF Count

\* The empty queue counts nothing.
LEMMA CountEmpty == ASSUME NEW T PROVE Count(<<>>, T) = 0
<1>1. Places(<<>>, T) = {}
  BY DEF Places
<1> QED BY <1>1, FS_EmptySet DEF Count

\* Emitting adds one to the count of the sets that have the new element.
LEMMA CountAppend ==
  ASSUME NEW M, NEW T, NEW s \in Seq(M), NEW e \in M
  PROVE  Count(Append(s, e), T) = Count(s, T) + (IF e \in T THEN 1 ELSE 0)
<1>1. Len(s) \in Nat /\ Len(s) + 1 \notin Places(s, T)
  BY DEF Places
<1>2. /\ Len(Append(s, e)) = Len(s) + 1
      /\ \A i \in 1..Len(s) : Append(s, e)[i] = s[i]
      /\ Append(s, e)[Len(s) + 1] = e
  BY AppendProperties
<1>3. Places(Append(s, e), T) = IF e \in T THEN Places(s, T) \cup {Len(s) + 1} ELSE Places(s, T)
  BY <1>1, <1>2 DEF Places
<1>4. IsFiniteSet(Places(s, T)) /\ Count(s, T) \in Nat
  BY CountIsNat
<1>5. Cardinality(Places(s, T) \cup {Len(s) + 1}) = Count(s, T) + 1
  BY <1>1, <1>4, FS_AddElement DEF Count
<1>6. CASE e \in T
  BY <1>3, <1>5, <1>6 DEF Count
<1>7. CASE e \notin T
  BY <1>3, <1>4, <1>7 DEF Count
<1> QED BY <1>6, <1>7

\* Serving the oldest element takes one from the count of the sets that have it.
LEMMA CountTail ==
  ASSUME NEW M, NEW T, NEW s \in Seq(M), s # <<>>
  PROVE  Count(Tail(s), T) = Count(s, T) - (IF Head(s) \in T THEN 1 ELSE 0)
<1> DEFINE t == Tail(s)
           moved == Places(s, T) \ {1}
           shift == [i \in Places(t, T) |-> i + 1]
<1>1. /\ t \in Seq(M) /\ Len(s) \in Nat \ {0} /\ Len(t) = Len(s) - 1 /\ Head(s) = s[1]
      /\ \A i \in 1..Len(t) : t[i] = s[i + 1]
  BY HeadTailProperties, EmptySeq
<1>2. IsFiniteSet(Places(t, T)) /\ IsFiniteSet(Places(s, T)) /\ Count(s, T) \in Nat /\ Count(t, T) \in Nat
  BY <1>1, CountIsNat
<1>3. ExistsBijection(Places(t, T), moved)
  <2>1. shift \in [Places(t, T) -> moved]
    BY <1>1 DEF Places
  <2>2. \A a, b \in Places(t, T) : shift[a] = shift[b] => a = b
    BY DEF Places
  <2>3. \A m \in moved : \E i \in Places(t, T) : shift[i] = m
    <3> SUFFICES ASSUME NEW m \in moved PROVE m - 1 \in Places(t, T) /\ shift[m - 1] = m
      OBVIOUS
    <3> QED BY <1>1 DEF Places
  <2>4. shift \in Bijection(Places(t, T), moved)
    BY <2>1, <2>2, <2>3 DEF Bijection, Injection, Surjection, IsInjective
  <2> QED BY <2>4 DEF ExistsBijection
<1>4. Cardinality(moved) = Count(t, T)
  BY <1>2, <1>3, FS_Bijection DEF Count
<1>5. 1 \in Places(s, T) <=> Head(s) \in T
  BY <1>1 DEF Places
<1>6. Cardinality(moved) = IF 1 \in Places(s, T) THEN Count(s, T) - 1 ELSE Count(s, T)
  BY <1>2, FS_RemoveElement DEF Count
<1> QED BY <1>2, <1>4, <1>5, <1>6

-----------------------------------------------------------------------------
(* The inductive invariant.                                                *)

Cause       == {"key", "mount"}
KeyEvent    == [op : {"key"}, key : Key, press : BOOLEAN]
FocusEvent  == [op : {"focus"}, cause : Cause]
ListenEvent == [op : {"listen"}, id : Nat]
Event       == KeyEvent \cup FocusEvent \cup ListenEvent
Input       == [key : Key \cup {NoKey}, press : BOOLEAN, repeat : BOOLEAN]

KeyTypeOK ==
  /\ throttling \in BOOLEAN
  /\ down \subseteq Key /\ chord \in BOOLEAN
  /\ center \in Seq(Event)
  /\ previousKey \in Key \cup {NoKey} /\ keyRepeat \in BOOLEAN /\ handled \in Input
  /\ keyQueue \in Seq(Input)
  /\ worker \in {"check", "wait", "pop", "process"} /\ current \in Input
  /\ active \in Nat /\ sem \in Nat
  /\ completions \in Seq(Cause)
  /\ listenerCount \in Nat /\ navEventId \in Nat
  /\ listed \subseteq Nat /\ IsFiniteSet(listed)
  /\ delivery \in Seq(Cause)
  /\ lastKey \in Input
  /\ keys \in Nat /\ focuses \in Nat /\ observes \in Nat

\* Without key throttling the worker and its count rest.
WorkerRests == ~throttling => worker = "check" /\ completions = <<>> /\ keyQueue = <<>>

(***************************************************************************)
(* With one handler a notification is completed once at most, so the count *)
(* covers what is outstanding (some notifications were dropped).           *)
(***************************************************************************)
CountCovers == OneHandler /\ throttling => Outstanding <= active

\* The id that the emitter remembers is the newest one.
IdsBelow ==
  /\ listed \subseteq 0..navEventId
  /\ \A i \in DOMAIN center : center[i].op = "listen" => center[i].id <= navEventId

\* While JavaScript keeps its listener no notification is dropped.
Listened ==
  observes = 0 => /\ listenerCount >= 1 /\ listed = {navEventId}
                  /\ \A i \in DOMAIN center : center[i].op # "listen"

KeyInv ==
  /\ KeyTypeOK /\ IdsBelow /\ WorkerRests /\ CountCovers /\ KeyThrottled /\ Listened
  /\ CountIsOutstanding /\ NewestKeyKept

-----------------------------------------------------------------------------
(* Type correctness.                                                       *)

\* Events of the three kinds, in the queue for the notifier.
LEMMA EventKinds ==
  /\ \A c \in Cause : [op |-> "focus", cause |-> c] \in FocusEvent
  /\ \A k \in Key, p \in BOOLEAN : [op |-> "key", key |-> k, press |-> p] \in KeyEvent
  /\ \A n \in Nat : [op |-> "listen", id |-> n] \in ListenEvent
  /\ FocusEvent \subseteq Event /\ KeyEvent \subseteq Event /\ ListenEvent \subseteq Event
  /\ \A x \in Event : /\ x \in FocusEvent <=> x.op = "focus"
                      /\ x \in KeyEvent <=> x.op = "key"
                      /\ x \in ListenEvent <=> x.op = "listen"
BY DEF Event, KeyEvent, FocusEvent, ListenEvent

\* What processKey does to the queue and to the count.
LEMMA KeyProcessed ==
  ASSUME KeyTypeOK, NEW i \in Input, NEW q \in Seq(Event), ProcessKey(i, q)
  PROVE  /\ lastKey' = i
         /\ \/ center' = q /\ active' = active
            \/ /\ center' = Append(q, [op |-> "focus", cause |-> "key"])
               /\ active' = IF throttling THEN active + 1 ELSE active
         /\ center' \in Seq(Event) /\ active' \in Nat
<1> USE DEF KeyTypeOK
<1>1. lastKey' = i
  BY DEF ProcessKey
<1>2. CASE center' = q /\ UNCHANGED active
  BY <1>1, <1>2
<1>3. CASE SendFocus("key", q)
  <2>1. [op |-> "focus", cause |-> "key"] \in Event
    BY EventKinds DEF Cause
  <2> QED BY <1>1, <1>3, <2>1 DEF SendFocus
<1> QED BY <1>2, <1>3 DEF ProcessKey

LEMMA KeyInitType == Init => KeyTypeOK
PROOF
<1> SUFFICES ASSUME Init PROVE KeyTypeOK
  OBVIOUS
<1>1. NoInput \in Input
  BY DEF NoInput, Input
<1>2. throttling \in BOOLEAN
  BY KeyAssumption DEF Init
<1>3. keyRepeat \in BOOLEAN /\ chord \in BOOLEAN /\ down \subseteq Key
  BY DEF Init
<1>4. /\ center \in Seq(Event) /\ keyQueue \in Seq(Input) /\ completions \in Seq(Cause)
      /\ delivery \in Seq(Cause)
  BY DEF Init
<1>5. handled \in Input /\ current \in Input /\ lastKey \in Input
  BY <1>1 DEF Init
<1>6. listed \subseteq Nat /\ IsFiniteSet(listed)
  <2>1. listed = {1}
    BY DEF Init
  <2>2. IsFiniteSet({1})
    BY FS_Singleton
  <2> QED BY <2>1, <2>2
<1> QED BY <1>2, <1>3, <1>4, <1>5, <1>6 DEF Init, KeyTypeOK

LEMMA KeyNextType == KeyTypeOK /\ [Next]_vars => KeyTypeOK'
PROOF
<1> SUFFICES ASSUME KeyTypeOK, [Next]_vars PROVE KeyTypeOK'
  OBVIOUS
<1> USE DEF KeyTypeOK, handlerVars, workerVars, clientVars, emitterVars, countVars, hardwareVars
<1>1. ASSUME NEW k \in Key, NEW press \in BOOLEAN, HardwareKey(k, press) PROVE KeyTypeOK'
  <2>1. [op |-> "key", key |-> k, press |-> press] \in Event
    BY EventKinds
  <2>2. down' \subseteq Key /\ chord' \in BOOLEAN
    BY <1>1 DEF HardwareKey
  <2>3. center' \in Seq(Event)
    BY <1>1, <2>1 DEF HardwareKey
  <2> QED BY <1>1, <2>2, <2>3 DEF HardwareKey
<1>2. CASE MainFocus
  <2>1. [op |-> "focus", cause |-> "mount"] \in Event
    BY EventKinds DEF Cause
  <2> QED BY <1>2, <2>1 DEF MainFocus, SendFocus
<1>3. CASE HandleKey
  <2>1. Head(center) \in KeyEvent /\ Tail(center) \in Seq(Event)
    <3>1. center # <<>> /\ Head(center) \in Event /\ Head(center).op = "key"
      BY <1>3, HeadTailProperties DEF HandleKey, Serves
    <3> QED BY <3>1, HeadTailProperties, EventKinds
  <2> DEFINE k == Head(center).key
             press == Head(center).press
             input == [key |-> k, press |-> press, repeat |-> RepeatFlag(k, press)]
  <2>2. k \in Key /\ press \in BOOLEAN
    BY <2>1 DEF KeyEvent
  <2>3. RepeatFlag(k, press) \in BOOLEAN
    BY <2>2 DEF RepeatFlag, Repeating
  <2>4. input \in Input
    BY <2>2, <2>3 DEF Input
  <2>5. /\ previousKey' = k /\ keyRepeat' = input.repeat /\ handled' = input
        /\ UNCHANGED <<throttling, hardwareVars, workerVars, sem, completions, emitterVars, countVars>>
    BY <1>3 DEF HandleKey
  <2>6. keyQueue' \in Seq(Input) /\ center' \in Seq(Event) /\ active' \in Nat /\ lastKey' \in Input
    <3>1. CASE throttling
      <4>1. /\ PushKey(input, ~press /\ Repeating(k, press))
            /\ center' = Tail(center)
            /\ UNCHANGED <<active, lastKey>>
        BY <1>3, <3>1 DEF HandleKey
      <4>2. <<input>> \in Seq(Input) /\ Append(keyQueue, input) \in Seq(Input)
        BY <2>4
      <4> HIDE DEF input
      <4>3. keyQueue' \in Seq(Input)
        BY <4>1, <4>2 DEF PushKey
      <4> QED BY <2>1, <4>1, <4>3
    <3>2. CASE ~throttling
      <4>1. ProcessKey(input, Tail(center)) /\ UNCHANGED keyQueue
        BY <1>3, <3>2 DEF HandleKey
      <4> HIDE DEF input
      <4> QED BY <4>1, <2>1, <2>4, KeyProcessed
    <3> QED BY <3>1, <3>2
  <2>7. input.repeat \in BOOLEAN
    BY <2>3
  <2> HIDE DEF input, k, press
  <2>8. UNCHANGED <<throttling, down, chord, worker, current, sem, completions, listenerCount, navEventId,
                    listed, delivery, keys, focuses, observes>>
    BY <2>5
  <2> QED BY <2>2, <2>4, <2>5, <2>6, <2>7, <2>8
<1>4. CASE HandleFocus
  <2>1. Head(center) \in FocusEvent /\ Tail(center) \in Seq(Event)
    <3>1. center # <<>> /\ Head(center) \in Event /\ Head(center).op = "focus"
      BY <1>4, HeadTailProperties DEF HandleFocus, Serves
    <3> QED BY <3>1, HeadTailProperties, EventKinds
  <2>2. Head(center).cause \in Cause
    BY <2>1 DEF FocusEvent
  <2>3. delivery' \in Seq(Cause)
    <3>1. Cardinality(listed) \in Nat
      BY FS_CardinalityType
    <3>2. delivery' \in [1..Cardinality(listed) -> Cause]
      BY <1>4, <2>2 DEF HandleFocus
    <3> QED BY <3>1, <3>2, SeqDef
  <2> QED BY <1>4, <2>1, <2>3 DEF HandleFocus
<1>5. CASE HandleListen
  <2>1. Head(center) \in ListenEvent /\ Tail(center) \in Seq(Event)
    <3>1. center # <<>> /\ Head(center) \in Event /\ Head(center).op = "listen"
      BY <1>5, HeadTailProperties DEF HandleListen, Serves
    <3> QED BY <3>1, HeadTailProperties, EventKinds
  <2>2. Head(center).id \in Nat
    BY <2>1 DEF ListenEvent
  <2>3. listed' \subseteq Nat /\ IsFiniteSet(listed')
    BY <1>5, <2>2, FS_AddElement DEF HandleListen
  <2> QED BY <1>5, <2>1, <2>3 DEF HandleListen
<1>6. CASE SendEventWithName
  BY <1>6, HeadTailProperties DEF SendEventWithName
<1>7. CASE WorkerCheck \/ WorkerWait
  <2>1. CASE WorkerCheck
    BY <2>1 DEF WorkerCheck
  <2>2. CASE WorkerWait
    BY <2>2 DEF WorkerWait
  <2> QED BY <1>7, <2>1, <2>2
<1>8. CASE WorkerPop
  BY <1>8, HeadTailProperties DEF WorkerPop
<1>9. CASE WorkerProcess
  <2>1. lastKey' = current /\ center' \in Seq(Event) /\ active' \in Nat
    BY <1>9, KeyProcessed DEF WorkerProcess
  <2> QED BY <1>9, <2>1 DEF WorkerProcess
<1>10. CASE OnEventComplete
  BY <1>10, HeadTailProperties DEF OnEventComplete, Post
<1>11. CASE JSAddListener
  <2>1. [op |-> "listen", id |-> navEventId + 1] \in Event
    BY EventKinds
  <2>2. center' \in Seq(Event) /\ navEventId' \in Nat
    <3>1. CASE listenerCount = 0
      <4>1. /\ navEventId' = navEventId + 1
            /\ center' = Append(center, [op |-> "listen", id |-> navEventId + 1])
        BY <1>11, <3>1 DEF JSAddListener
      <4> QED BY <2>1, <4>1
    <3>2. CASE listenerCount # 0
      BY <1>11, <3>2 DEF JSAddListener
    <3> QED BY <3>1, <3>2
  <2> QED BY <1>11, <2>2 DEF JSAddListener
<1>12. CASE JSRemoveListeners
  <2>1. listed' \subseteq listed /\ IsFiniteSet(listed')
    BY <1>12, FS_Subset DEF JSRemoveListeners
  <2> QED BY <1>12, <2>1 DEF JSRemoveListeners
<1>13. CASE UNCHANGED vars
  BY <1>13 DEF vars
<1> QED BY <1>1, <1>2, <1>3, <1>4, <1>5, <1>6, <1>7, <1>8, <1>9, <1>10, <1>11, <1>12, <1>13
        DEF Next, NotifierStep, WorkerStep

-----------------------------------------------------------------------------
(* What a step does to the queue of the notifier.                          *)

\* The elements of a queue after an emit, and after one was served.
LEMMA Elements ==
  ASSUME NEW M, NEW s \in Seq(M)
  PROVE  /\ \A e \in M : \A i \in DOMAIN Append(s, e) :
              Append(s, e)[i] = e \/ (i \in DOMAIN s /\ Append(s, e)[i] = s[i])
         /\ s # <<>> => /\ 1 \in DOMAIN s /\ Head(s) = s[1]
                        /\ \A i \in DOMAIN Tail(s) : i + 1 \in DOMAIN s /\ Tail(s)[i] = s[i + 1]
<1>1. ASSUME NEW e \in M, NEW i \in DOMAIN Append(s, e)
      PROVE  Append(s, e)[i] = e \/ (i \in DOMAIN s /\ Append(s, e)[i] = s[i])
  <2>1. i \in 1..(Len(s) + 1) /\ DOMAIN s = 1..Len(s) /\ Len(s) \in Nat
    BY <1>1, AppendProperties, LenProperties
  <2>2. CASE i = Len(s) + 1
    BY <2>2, AppendProperties
  <2>3. CASE i \in 1..Len(s)
    BY <2>1, <2>3, AppendProperties
  <2> QED BY <2>1, <2>2, <2>3
<1>2. ASSUME s # <<>>
      PROVE  /\ 1 \in DOMAIN s /\ Head(s) = s[1]
             /\ \A i \in DOMAIN Tail(s) : i + 1 \in DOMAIN s /\ Tail(s)[i] = s[i + 1]
  <2>1. /\ Len(s) \in Nat \ {0} /\ DOMAIN s = 1..Len(s) /\ Tail(s) \in Seq(M)
        /\ Len(Tail(s)) = Len(s) - 1 /\ DOMAIN Tail(s) = 1..Len(Tail(s))
        /\ \A i \in 1..Len(Tail(s)) : Tail(s)[i] = s[i + 1]
    BY <1>2, EmptySeq, LenProperties, HeadTailProperties
  <2> QED BY <2>1
<1> QED BY <1>1, <1>2

(***************************************************************************)
(* Only addListener leaves the queue other than served, or with a key or a *)
(* focus change more.                                                      *)
(***************************************************************************)
ServeStep == center # <<>> /\ (HandleListen \/ Head(center).op # "listen")
QueueStep ==
  \/ center' = center
  \/ ServeStep /\ center' = Tail(center)
  \/ \E e \in Event : e.op # "listen" /\ center' = Append(center, e)
  \/ \E e \in Event : e.op # "listen" /\ ServeStep /\ center' = Append(Tail(center), e)

LEMMA QueueSteps ==
  ASSUME KeyTypeOK, [Next]_vars
  PROVE  /\ throttling' = throttling
         /\ JSAddListener \/ QueueStep
         /\ JSAddListener \/ JSRemoveListeners \/ UNCHANGED <<listenerCount, navEventId, observes>>
         /\ JSRemoveListeners \/ HandleListen \/ UNCHANGED listed
<1> USE DEF KeyTypeOK, handlerVars, workerVars, clientVars, emitterVars, countVars, hardwareVars
<1>focus. \A c \in Cause : [op |-> "focus", cause |-> c] \in Event /\ [op |-> "focus", cause |-> c].op # "listen"
  BY EventKinds
<1>1. ASSUME NEW k \in Key, NEW press \in BOOLEAN, HardwareKey(k, press)
      PROVE  QueueStep /\ UNCHANGED <<throttling, emitterVars, observes>>
  <2>1. [op |-> "key", key |-> k, press |-> press] \in Event
    BY EventKinds
  <2> QED BY <1>1, <2>1 DEF HardwareKey, QueueStep
<1>2. CASE MainFocus
  BY <1>2, <1>focus DEF MainFocus, SendFocus, QueueStep, Cause
<1>3. CASE HandleKey
  <2>1. ServeStep /\ UNCHANGED <<throttling, emitterVars, countVars>>
    BY <1>3 DEF HandleKey, Serves, ServeStep
  <2>2. \/ center' = Tail(center)
        \/ center' = Append(Tail(center), [op |-> "focus", cause |-> "key"])
    BY <1>3 DEF HandleKey, ProcessKey, SendFocus
  <2> QED BY <1>focus, <2>1, <2>2 DEF QueueStep, Cause
<1>4. CASE HandleFocus \/ HandleListen
  BY <1>4 DEF HandleFocus, HandleListen, Serves, QueueStep, ServeStep
<1>5. CASE SendEventWithName \/ OnEventComplete \/ JSRemoveListeners
  BY <1>5 DEF SendEventWithName, OnEventComplete, JSRemoveListeners, QueueStep
<1>6. CASE WorkerCheck \/ WorkerWait \/ WorkerPop
  BY <1>6 DEF WorkerCheck, WorkerWait, WorkerPop, QueueStep
<1>7. CASE WorkerProcess
  <2>1. UNCHANGED <<throttling, emitterVars, countVars>>
    BY <1>7 DEF WorkerProcess
  <2>2. \/ center' = center
        \/ center' = Append(center, [op |-> "focus", cause |-> "key"])
    BY <1>7 DEF WorkerProcess, ProcessKey, SendFocus
  <2> QED BY <1>focus, <2>1, <2>2 DEF QueueStep, Cause
<1>8. CASE JSAddListener
  BY <1>8 DEF JSAddListener
<1>9. CASE UNCHANGED vars
  BY <1>9 DEF vars, QueueStep
<1> QED BY <1>1, <1>2, <1>3, <1>4, <1>5, <1>6, <1>7, <1>8, <1>9 DEF Next, NotifierStep, WorkerStep

\* No new insertion of a handler comes into the queue.
LEMMA OldEvents ==
  ASSUME KeyTypeOK, QueueStep, NEW i \in DOMAIN center'
  PROVE  center'[i].op # "listen" \/ \E j \in DOMAIN center : center'[i] = center[j]
<1> USE DEF KeyTypeOK
<1>1. CASE center' = center
  BY <1>1
<1>2. CASE ServeStep /\ center' = Tail(center)
  BY <1>2, Elements DEF ServeStep
<1>3. ASSUME NEW e \in Event, e.op # "listen", center' = Append(center, e)
      PROVE  center'[i].op # "listen" \/ \E j \in DOMAIN center : center'[i] = center[j]
  BY <1>3, Elements
<1>4. ASSUME NEW e \in Event, e.op # "listen", ServeStep, center' = Append(Tail(center), e)
      PROVE  center'[i].op # "listen" \/ \E j \in DOMAIN center : center'[i] = center[j]
  <2>1. Tail(center) \in Seq(Event)
    BY <1>4, HeadTailProperties DEF ServeStep
  <2>2. center'[i] = e \/ (i \in DOMAIN Tail(center) /\ center'[i] = Tail(center)[i])
    BY <1>4, <2>1, Elements
  <2> QED BY <1>4, <2>2, Elements DEF ServeStep
<1> QED BY <1>1, <1>2, <1>3, <1>4 DEF QueueStep

\* No insertion of a handler leaves the queue but the one that is served.
LEMMA KeptEvents ==
  ASSUME KeyTypeOK, QueueStep, NEW j \in DOMAIN center
  PROVE  \/ \E i \in DOMAIN center' : center'[i] = center[j]
         \/ center # <<>> /\ center[j] = Head(center) /\ ServeStep
<1> USE DEF KeyTypeOK
<1>tail. ASSUME center # <<>>, j # 1
         PROVE  Tail(center) \in Seq(Event) /\ j - 1 \in DOMAIN Tail(center) /\ Tail(center)[j - 1] = center[j]
  <2>1. /\ Len(center) \in Nat /\ DOMAIN center = 1..Len(center) /\ Tail(center) \in Seq(Event)
        /\ Len(Tail(center)) = Len(center) - 1 /\ DOMAIN Tail(center) = 1..Len(Tail(center))
        /\ \A i \in 1..Len(Tail(center)) : Tail(center)[i] = center[i + 1]
    BY <1>tail, LenProperties, HeadTailProperties
  <2>2. j - 1 \in 1..Len(Tail(center))
    BY <1>tail, <2>1
  <2> QED BY <2>1, <2>2
<1>append. ASSUME NEW s \in Seq(Event), NEW e \in Event, NEW i \in DOMAIN s
           PROVE  i \in DOMAIN Append(s, e) /\ Append(s, e)[i] = s[i]
  BY LenProperties, AppendProperties
<1>1. CASE center' = center
  BY <1>1
<1>2. CASE ServeStep /\ center' = Tail(center)
  BY <1>2, <1>tail, Elements DEF ServeStep
<1>3. ASSUME NEW e \in Event, center' = Append(center, e)
      PROVE  \E i \in DOMAIN center' : center'[i] = center[j]
  BY <1>3, <1>append
<1>4. ASSUME NEW e \in Event, ServeStep, center' = Append(Tail(center), e)
      PROVE  \/ \E i \in DOMAIN center' : center'[i] = center[j]
             \/ center # <<>> /\ center[j] = Head(center) /\ ServeStep
  <2>1. CASE j = 1
    BY <1>4, <2>1, Elements DEF ServeStep
  <2>2. CASE j # 1
    <3>1. /\ Tail(center) \in Seq(Event) /\ j - 1 \in DOMAIN Tail(center)
          /\ Tail(center)[j - 1] = center[j]
      BY <1>4, <1>tail, <2>2 DEF ServeStep
    <3> QED BY <1>4, <1>append, <3>1
  <2> QED BY <2>1, <2>2
<1> QED BY <1>1, <1>2, <1>3, <1>4 DEF QueueStep

-----------------------------------------------------------------------------
(* The handlers of the emitter.                                            *)

LEMMA NextIdsBelow == KeyTypeOK /\ IdsBelow /\ [Next]_vars => IdsBelow'
PROOF
<1> SUFFICES ASSUME KeyTypeOK, IdsBelow, [Next]_vars PROVE IdsBelow'
  OBVIOUS
<1> USE DEF KeyTypeOK
<1>1. CASE JSAddListener
  <2>1. CASE listenerCount = 0
    <3> DEFINE e == [op |-> "listen", id |-> navEventId + 1]
    <3>1. e \in Event /\ e.id = navEventId + 1
      BY EventKinds
    <3>2. navEventId' = navEventId + 1 /\ center' = Append(center, e) /\ listed' = listed
      BY <1>1, <2>1 DEF JSAddListener
    <3> HIDE DEF e
    <3>3. \A i \in DOMAIN center' : center'[i] = e \/ (i \in DOMAIN center /\ center'[i] = center[i])
      BY <3>1, <3>2, Elements
    <3>4. center \in Seq(Event) /\ \A i \in DOMAIN center : center[i] \in Event
      BY LenProperties
    <3>5. \A i \in DOMAIN center : center[i].op = "listen" => center[i].id \in Nat
      <4>1. \A x \in Event : x.op = "listen" => x \in ListenEvent
        BY EventKinds
      <4> QED BY <3>4, <4>1 DEF ListenEvent
    <3>6. \A i \in DOMAIN center' : center'[i].op = "listen" => center'[i].id <= navEventId'
      BY <3>1, <3>2, <3>3, <3>5 DEF IdsBelow
    <3> QED BY <3>2, <3>6 DEF IdsBelow
  <2>2. CASE listenerCount # 0
    BY <1>1, <2>2 DEF JSAddListener, IdsBelow
  <2> QED BY <2>1, <2>2
<1>2. CASE ~JSAddListener
  <2>1. QueueStep /\ navEventId' = navEventId
    BY <1>2, QueueSteps DEF JSRemoveListeners
  <2>2. listed' \subseteq 0..navEventId
    <3>1. CASE HandleListen
      <4>1. /\ center # <<>> /\ Head(center).op = "listen" /\ listed' = listed \cup {Head(center).id}
            /\ Head(center) \in Event
        BY <3>1, HeadTailProperties DEF HandleListen, Serves
      <4>2. Head(center).id <= navEventId
        BY <4>1, Elements DEF IdsBelow
      <4>3. Head(center).id \in Nat
        BY <4>1, EventKinds DEF ListenEvent
      <4>4. listed \subseteq 0..navEventId /\ Head(center).id \in 0..navEventId
        BY <4>2, <4>3 DEF IdsBelow
      <4> QED BY <4>1, <4>4
    <3>2. CASE JSRemoveListeners
      BY <3>2 DEF JSRemoveListeners, IdsBelow
    <3>3. CASE listed' = listed
      BY <3>3 DEF IdsBelow
    <3> QED BY <3>1, <3>2, <3>3, QueueSteps
  <2>3. \A i \in DOMAIN center' : center'[i].op = "listen" => center'[i].id <= navEventId
    BY <2>1, OldEvents DEF IdsBelow
  <2> QED BY <2>1, <2>2, <2>3 DEF IdsBelow
<1> QED BY <1>1, <1>2

\* A handler left behind stays behind.
LEMMA OneHandlerBefore == KeyTypeOK /\ IdsBelow /\ [Next]_vars /\ OneHandler' => OneHandler
PROOF
<1> SUFFICES ASSUME KeyTypeOK, IdsBelow, [Next]_vars, OneHandler' PROVE OneHandler
  OBVIOUS
<1> USE DEF KeyTypeOK
<1>1. CASE JSAddListener
  <2>1. CASE listenerCount = 0
    <3> DEFINE e == [op |-> "listen", id |-> navEventId + 1]
    <3>1. /\ e \in Event /\ navEventId' = navEventId + 1 /\ center' = Append(center, e)
          /\ listed' = listed
      BY <1>1, <2>1, EventKinds DEF JSAddListener
    <3> HIDE DEF e
    <3>2. \A j \in DOMAIN center : j \in DOMAIN center' /\ center'[j] = center[j]
      BY <3>1, LenProperties, AppendProperties
    <3>3. \A j \in DOMAIN center : center[j].op # "listen"
      <4>1. \A i \in DOMAIN center' : center'[i].op = "listen" => center'[i].id = navEventId + 1
        BY <3>1 DEF OneHandler
      <4>2. \A j \in DOMAIN center : center[j].op = "listen" => center[j].id <= navEventId
        BY DEF IdsBelow
      <4> QED BY <3>2, <4>1, <4>2
    <3>4. listed = {}
      BY <3>1 DEF OneHandler, IdsBelow
    <3> QED BY <3>3, <3>4 DEF OneHandler
  <2>2. CASE listenerCount # 0
    BY <1>1, <2>2 DEF JSAddListener, OneHandler
  <2> QED BY <2>1, <2>2
<1>2. CASE ~JSAddListener
  <2>1. QueueStep /\ navEventId' = navEventId
    BY <1>2, QueueSteps DEF JSRemoveListeners
  <2>2. listed \subseteq {navEventId}
    BY <2>1, QueueSteps DEF OneHandler, HandleListen, JSRemoveListeners
  <2>3. ASSUME NEW j \in DOMAIN center, center[j].op = "listen" PROVE center[j].id = navEventId
    <3>1. CASE \E i \in DOMAIN center' : center'[i] = center[j]
      BY <2>1, <2>3, <3>1 DEF OneHandler
    <3>2. CASE center # <<>> /\ center[j] = Head(center) /\ ServeStep
      BY <2>1, <2>3, <3>2 DEF OneHandler, ServeStep, HandleListen
    <3> QED BY <2>1, <3>1, <3>2, KeptEvents
  <2> QED BY <2>2, <2>3 DEF OneHandler
<1> QED BY <1>1, <1>2

LEMMA NextListened == KeyTypeOK /\ Listened /\ [Next]_vars => Listened'
PROOF
<1> SUFFICES ASSUME KeyTypeOK, Listened, [Next]_vars, observes' = 0
             PROVE  /\ listenerCount' >= 1 /\ listed' = {navEventId'}
                    /\ \A i \in DOMAIN center' : center'[i].op # "listen"
  BY DEF Listened
<1> USE DEF KeyTypeOK
<1>1. ~JSAddListener /\ ~JSRemoveListeners
  BY DEF JSAddListener, JSRemoveListeners
<1>2. QueueStep /\ UNCHANGED <<listenerCount, navEventId, observes>>
  BY <1>1, QueueSteps
<1>3. /\ listenerCount >= 1 /\ listed = {navEventId}
      /\ \A i \in DOMAIN center : center[i].op # "listen"
  BY <1>2 DEF Listened
<1>4. ~HandleListen
  BY <1>3, Elements DEF HandleListen, Serves
<1>5. \A i \in DOMAIN center' : center'[i].op # "listen"
  BY <1>2, <1>3, OldEvents
<1>6. listed' = listed
  BY <1>1, <1>4, QueueSteps
<1> QED BY <1>2, <1>3, <1>5, <1>6

-----------------------------------------------------------------------------
(* The count of what is outstanding.                                       *)

\* Outstanding as a count of elements of a set.
LEMMA OutstandingCount ==
  KeyTypeOK => Outstanding = Count(center, FocusEvent) + Len(delivery) + Len(completions)
<1> SUFFICES ASSUME KeyTypeOK
             PROVE  Outstanding = Count(center, FocusEvent) + Len(delivery) + Len(completions)
  OBVIOUS
<1>1. center \in Seq(Event) /\ DOMAIN center = 1..Len(center)
  BY LenProperties DEF KeyTypeOK
<1>2. \A i \in 1..Len(center) : center[i] \in FocusEvent <=> center[i].op = "focus"
  BY <1>1, EventKinds, ElementOfSeq
<1>3. {i \in DOMAIN center : center[i].op = "focus"} = Places(center, FocusEvent)
  BY <1>1, <1>2 DEF Places
<1> QED BY <1>3 DEF Outstanding, Count

\* The four things a step can do to the count and to what it counts: nothing,
\* one more of both, one less of both, or a notification that is dropped.
Stays    == Outstanding' = Outstanding /\ active' = active
Emits    == Outstanding' = Outstanding + 1 /\ active' = active + 1
Finishes == /\ Outstanding' = Outstanding - 1 /\ Outstanding > 0
            /\ active' = IF active > 0 THEN active - 1 ELSE active
Drops    == /\ Outstanding' = Outstanding - 1 /\ active' = active
            /\ listenerCount = 0 \/ listed # {navEventId}

LEMMA CountSteps ==
  ASSUME KeyTypeOK, WorkerRests, OneHandler, throttling, [Next]_vars
  PROVE  /\ Outstanding \in Nat /\ Outstanding' \in Nat
         /\ Stays \/ Emits \/ Finishes \/ Drops
<1> DEFINE n == Count(center, FocusEvent)
           d == Len(delivery)
           l == Len(completions)
<1>1. KeyTypeOK' /\ Outstanding = n + d + l /\ Outstanding' = n' + d' + l'
  <2>1. KeyTypeOK'
    BY KeyNextType
  <2>2. KeyTypeOK' => (Outstanding = Count(center, FocusEvent) + Len(delivery) + Len(completions))'
    BY OutstandingCount, PTL
  <2> QED BY <2>1, <2>2, OutstandingCount
<1>2. /\ n \in Nat /\ d \in Nat /\ l \in Nat /\ active \in Nat
      /\ n' \in Nat /\ d' \in Nat /\ l' \in Nat /\ active' \in Nat
      /\ center \in Seq(Event) /\ completions \in Seq(Cause) /\ delivery \in Seq(Cause)
  BY <1>1, CountIsNat, LenProperties DEF KeyTypeOK
<1>appended. ASSUME NEW e \in Event, center' = Append(center, e)
             PROVE  n' = n + (IF e.op = "focus" THEN 1 ELSE 0)
  <2>1. n' = n + (IF e \in FocusEvent THEN 1 ELSE 0)
    BY <1>2, <1>appended, CountAppend
  <2> QED BY <2>1, EventKinds
<1>served. ASSUME center # <<>>, center' = Tail(center)
           PROVE  n' = n - (IF Head(center).op = "focus" THEN 1 ELSE 0)
  <2>1. Head(center) \in FocusEvent <=> Head(center).op = "focus"
    BY <1>2, <1>served, EventKinds, HeadTailProperties
  <2> QED BY <1>2, <1>served, <2>1, CountTail
<1>tail. ASSUME NEW s \in Seq(Cause), s # <<>> PROVE Len(Tail(s)) = Len(s) - 1 /\ Len(s) > 0
  BY <1>tail, HeadTailProperties, EmptySeq
<1> SUFFICES Stays \/ Emits \/ Finishes \/ Drops
  BY <1>1, <1>2
<1> USE DEF handlerVars, workerVars, clientVars, emitterVars, countVars, hardwareVars
<1>same. ASSUME UNCHANGED <<center, delivery, completions, active>> PROVE Stays
  BY <1>1, <1>2, <1>same DEF Stays
<1>quiet. ASSUME NEW e \in Event, e.op # "focus", center' = Append(center, e),
                 UNCHANGED <<delivery, completions, active>>
          PROVE  Stays
  <2>1. n' = n /\ d' = d /\ l' = l /\ active' = active
    BY <1>2, <1>quiet, <1>appended
  <2> HIDE DEF n, d, l
  <2> QED BY <1>1, <2>1 DEF Stays
<1>focus. ASSUME NEW c \in Cause, center' = Append(center, [op |-> "focus", cause |-> c]),
                 active' = active + 1, UNCHANGED <<delivery, completions>>
          PROVE  Emits
  <2>1. [op |-> "focus", cause |-> c] \in Event
    BY EventKinds
  <2>2. n' = n + 1 /\ d' = d /\ l' = l
    BY <1>2, <1>focus, <1>appended, <2>1
  <2> HIDE DEF n, d, l
  <2> QED BY <1>1, <1>2, <1>focus, <2>2 DEF Emits
<1>past. ASSUME center # <<>>, center' = Tail(center), Head(center).op # "focus",
                UNCHANGED <<delivery, completions, active>>
         PROVE  Stays
  <2>1. n' = n /\ d' = d /\ l' = l /\ active' = active
    BY <1>2, <1>past, <1>served
  <2> HIDE DEF n, d, l
  <2> QED BY <1>1, <2>1 DEF Stays
<1>4. ASSUME NEW k \in Key, NEW press \in BOOLEAN, HardwareKey(k, press) PROVE Stays
  <2> DEFINE e == [op |-> "key", key |-> k, press |-> press]
  <2>1. e \in Event /\ e.op # "focus"
    BY EventKinds
  <2>2. center' = Append(center, e) /\ UNCHANGED <<delivery, completions, active>>
    BY <1>4 DEF HardwareKey
  <2> HIDE DEF e
  <2> QED BY <1>quiet, <2>1, <2>2
<1>5. CASE MainFocus
  BY <1>5, <1>focus DEF MainFocus, SendFocus, Cause
<1>6. CASE HandleKey
  BY <1>6, <1>past DEF HandleKey, Serves
<1>7. CASE HandleFocus
  <2>1. /\ center # <<>> /\ center' = Tail(center) /\ Head(center).op = "focus" /\ delivery = <<>>
        /\ delivery' = [i \in 1..Cardinality(listed) |-> Head(center).cause]
        /\ UNCHANGED <<completions, active>>
    BY <1>7 DEF HandleFocus, Serves
  <2>2. n' = n - 1 /\ l' = l /\ d = 0
    BY <1>2, <1>served, <2>1
  <2>3. Cardinality(listed) \in Nat /\ d' = Cardinality(listed)
    <3>1. Cardinality(listed) \in Nat
      BY FS_CardinalityType DEF KeyTypeOK
    <3>2. (DOMAIN delivery)' = 1..Cardinality(listed)
      BY <2>1
    <3>3. (DOMAIN delivery)' = 1..d'
      BY <1>1, LenProperties DEF KeyTypeOK
    <3>4. d' = Cardinality(listed)
      BY <1>2, <3>1, <3>2, <3>3
    <3> QED BY <3>1, <3>4
  <2>4. CASE listed = {navEventId}
    <3>1. d' = 1
      BY <2>3, <2>4, FS_Singleton
    <3> HIDE DEF n, d, l
    <3> QED BY <1>1, <1>2, <2>1, <2>2, <3>1 DEF Stays
  <2>5. CASE listed = {}
    <3>1. d' = 0
      BY <2>3, <2>5, FS_EmptySet
    <3> HIDE DEF n, d, l
    <3> QED BY <1>1, <1>2, <2>1, <2>2, <2>5, <3>1 DEF Drops
  <2> QED BY <2>4, <2>5 DEF OneHandler
<1>8. CASE SendEventWithName
  <2>1. /\ delivery # <<>> /\ delivery' = Tail(delivery) /\ UNCHANGED <<center, active>>
        /\ completions' = IF listenerCount >= 1 THEN Append(completions, Head(delivery)) ELSE completions
    BY <1>8 DEF SendEventWithName
  <2>2. d' = d - 1 /\ n' = n
    BY <1>2, <1>tail, <2>1
  <2>3. CASE listenerCount >= 1
    <3>1. l' = l + 1
      BY <1>2, <2>1, <2>3, HeadTailProperties, AppendProperties
    <3> HIDE DEF n, d, l
    <3> QED BY <1>1, <1>2, <2>1, <2>2, <3>1 DEF Stays
  <2>4. CASE ~(listenerCount >= 1)
    <3>1. l' = l /\ listenerCount = 0
      BY <2>1, <2>4 DEF KeyTypeOK
    <3> HIDE DEF n, d, l
    <3> QED BY <1>1, <1>2, <2>1, <2>2, <3>1 DEF Drops
  <2> QED BY <2>3, <2>4
<1>9. CASE HandleListen
  BY <1>9, <1>past DEF HandleListen, Serves
<1>10. CASE WorkerCheck \/ WorkerWait \/ WorkerPop
  BY <1>10, <1>same DEF WorkerCheck, WorkerWait, WorkerPop
<1>11. CASE WorkerProcess
  <2>1. ProcessKey(current, center) /\ UNCHANGED <<delivery, completions>>
    BY <1>11 DEF WorkerProcess
  <2>2. \/ center' = center /\ active' = active
        \/ /\ center' = Append(center, [op |-> "focus", cause |-> "key"])
           /\ active' = active + 1
    BY <1>2, <2>1, KeyProcessed DEF KeyTypeOK
  <2>3. "key" \in Cause
    BY DEF Cause
  <2> QED BY <1>same, <1>focus, <2>1, <2>2, <2>3
<1>12. CASE OnEventComplete
  <2>1. /\ completions # <<>> /\ completions' = Tail(completions) /\ UNCHANGED <<center, delivery>>
        /\ active' = IF active > 0 THEN active - 1 ELSE active
    BY <1>12 DEF OnEventComplete
  <2>2. n' = n /\ d' = d /\ l' = l - 1 /\ l > 0
    BY <1>2, <1>tail, <2>1
  <2> HIDE DEF n, d, l
  <2> QED BY <1>1, <1>2, <2>1, <2>2 DEF Finishes
<1>13. CASE JSAddListener
  <2>1. UNCHANGED <<delivery, completions, active>>
    BY <1>13 DEF JSAddListener
  <2>2. CASE listenerCount = 0
    <3> DEFINE e == [op |-> "listen", id |-> navEventId + 1]
    <3>1. e \in Event /\ e.op # "focus"
      BY EventKinds DEF KeyTypeOK
    <3>2. center' = Append(center, e)
      BY <1>13, <2>2 DEF JSAddListener
    <3> HIDE DEF e
    <3> QED BY <1>quiet, <2>1, <3>1, <3>2
  <2>3. CASE listenerCount # 0
    BY <1>13, <1>same, <2>1, <2>3 DEF JSAddListener
  <2> QED BY <2>2, <2>3
<1>14. CASE JSRemoveListeners \/ UNCHANGED vars
  BY <1>14, <1>same DEF JSRemoveListeners, vars
<1> QED BY <1>4, <1>5, <1>6, <1>7, <1>8, <1>9, <1>10, <1>11, <1>12, <1>13, <1>14
        DEF Next, NotifierStep, WorkerStep

LEMMA NextCovers ==
  KeyTypeOK /\ IdsBelow /\ WorkerRests /\ CountCovers /\ [Next]_vars => CountCovers'
PROOF
<1> SUFFICES ASSUME KeyTypeOK, IdsBelow, WorkerRests, CountCovers, [Next]_vars, OneHandler', throttling'
             PROVE  Outstanding' <= active'
  BY DEF CountCovers
<1>1. OneHandler /\ throttling
  BY OneHandlerBefore, QueueSteps DEF JSAddListener
<1>2. Outstanding <= active /\ active \in Nat
  BY <1>1 DEF CountCovers, KeyTypeOK
<1>3. /\ Outstanding \in Nat /\ Outstanding' \in Nat
      /\ Stays \/ Emits \/ Finishes \/ Drops
  BY <1>1, CountSteps
<1> QED BY <1>2, <1>3 DEF Stays, Emits, Finishes, Drops

LEMMA NextExact ==
  KeyTypeOK /\ WorkerRests /\ Listened /\ CountIsOutstanding /\ [Next]_vars => CountIsOutstanding'
PROOF
<1> SUFFICES ASSUME KeyTypeOK, WorkerRests, Listened, CountIsOutstanding, [Next]_vars,
                    observes' = 0, throttling'
             PROVE  active' = Outstanding'
  BY DEF CountIsOutstanding, CountExact
<1>1. observes = 0 /\ throttling /\ active \in Nat
  <2>1. ~JSAddListener /\ ~JSRemoveListeners
    <3>1. observes \in Nat /\ observes' = 0
      BY DEF KeyTypeOK
    <3>2. observes' # observes + 1
      BY <3>1
    <3> QED BY <3>2 DEF JSAddListener, JSRemoveListeners
  <2> QED BY <2>1, QueueSteps DEF KeyTypeOK
<1>2. /\ active = Outstanding /\ listed = {navEventId} /\ listenerCount >= 1
      /\ OneHandler
  BY <1>1 DEF CountIsOutstanding, CountExact, Listened, OneHandler
<1>3. /\ Outstanding \in Nat /\ Outstanding' \in Nat
      /\ Stays \/ Emits \/ Finishes \/ Drops
  BY <1>1, <1>2, CountSteps
<1>4. ~Drops
  BY <1>2 DEF Drops
<1> QED BY <1>1, <1>2, <1>3, <1>4 DEF Stays, Emits, Finishes

LEMMA NextRests == KeyTypeOK /\ WorkerRests /\ [Next]_vars => WorkerRests'
PROOF
<1> SUFFICES ASSUME KeyTypeOK, WorkerRests, [Next]_vars, ~throttling'
             PROVE  UNCHANGED <<worker, completions, keyQueue>>
  BY QueueSteps DEF WorkerRests
<1>1. ~throttling /\ worker = "check" /\ completions = <<>> /\ keyQueue = <<>>
  BY QueueSteps DEF WorkerRests
<1> QED BY <1>1 DEF Next, NotifierStep, WorkerStep, HardwareKey, MainFocus, HandleKey, HandleFocus,
        SendEventWithName, HandleListen, WorkerCheck, WorkerWait, WorkerPop, WorkerProcess,
        OnEventComplete, JSAddListener, JSRemoveListeners, vars, workerVars, clientVars

-----------------------------------------------------------------------------
(* The throttle.                                                           *)

\* Nothing outstanding, nothing that a key has caused.
LEMMA NothingPending ==
  ASSUME KeyTypeOK, Outstanding <= 0
  PROVE  ~KeyChangePending
<1>1. /\ Count(center, FocusEvent) \in Nat /\ Len(delivery) \in Nat /\ Len(completions) \in Nat
      /\ IsFiniteSet(Places(center, FocusEvent))
  BY CountIsNat, LenProperties DEF KeyTypeOK
<1>2. Count(center, FocusEvent) = 0 /\ Len(delivery) = 0 /\ Len(completions) = 0
  BY <1>1, OutstandingCount
<1>3. delivery = <<>> /\ completions = <<>>
  BY <1>2, EmptySeq DEF KeyTypeOK
<1>4. Places(center, FocusEvent) = {}
  BY <1>1, <1>2, FS_EmptySet DEF Count
<1>5. \A i \in DOMAIN center : center[i].op # "focus"
  <2>1. DOMAIN center = 1..Len(center) /\ \A i \in DOMAIN center : center[i] \in Event
    BY LenProperties DEF KeyTypeOK
  <2> QED BY <1>4, <2>1, EventKinds DEF Places
<1>6. Range(delivery) = {} /\ Range(completions) = {}
  BY <1>3 DEF Range
<1> QED BY <1>5, <1>6 DEF KeyChangePending

\* While the worker has a key in its hands, no other thread makes a focus change
\* on behalf of a key.
LEMMA NoKeyChange ==
  ASSUME KeyTypeOK, throttling, [Next]_vars, ~WorkerProcess, ~KeyChangePending
  PROVE  ~KeyChangePending'
<1> USE DEF KeyTypeOK, handlerVars, workerVars, clientVars, emitterVars, countVars, hardwareVars
<1> DEFINE Clean(q) == \A i \in DOMAIN q : ~(q[i].op = "focus" /\ q[i].cause = "key")
           NoKeyIn(s) == \A i \in DOMAIN s : s[i] # "key"
<1>1. KeyChangePending <=> ~Clean(center) \/ ~NoKeyIn(delivery) \/ ~NoKeyIn(completions)
  BY DEF KeyChangePending, Range
<1>2. KeyChangePending' <=> ~Clean(center') \/ ~NoKeyIn(delivery') \/ ~NoKeyIn(completions')
  BY DEF KeyChangePending, Range
<1>3. Clean(center) /\ NoKeyIn(delivery) /\ NoKeyIn(completions)
  BY <1>1
<1>tail. ASSUME NEW s \in Seq(Cause), NoKeyIn(s), s # <<>> PROVE NoKeyIn(Tail(s)) /\ Head(s) # "key"
  BY <1>tail, Elements
<1>append. ASSUME NEW e \in Event, ~(e.op = "focus" /\ e.cause = "key") PROVE Clean(Append(center, e))
  BY <1>3, <1>append, Elements
<1>served. ASSUME center # <<>>
           PROVE  Clean(Tail(center)) /\ ~(Head(center).op = "focus" /\ Head(center).cause = "key")
  BY <1>3, <1>served, Elements
<1> SUFFICES Clean(center') /\ NoKeyIn(delivery') /\ NoKeyIn(completions')
  BY <1>2
<1> HIDE DEF Clean, NoKeyIn
<1>4. ASSUME NEW k \in Key, NEW press \in BOOLEAN, HardwareKey(k, press)
      PROVE  Clean(center') /\ NoKeyIn(delivery') /\ NoKeyIn(completions')
  <2>1. [op |-> "key", key |-> k, press |-> press] \in Event
    BY EventKinds
  <2>2. center' = Append(center, [op |-> "key", key |-> k, press |-> press])
        /\ UNCHANGED <<delivery, completions>>
    BY <1>4 DEF HardwareKey
  <2>3. Clean(center')
    BY <1>append, <2>1, <2>2
  <2> QED BY <1>3, <2>2, <2>3
<1>5. CASE MainFocus
  <2>1. [op |-> "focus", cause |-> "mount"] \in Event
    BY EventKinds DEF Cause
  <2>2. center' = Append(center, [op |-> "focus", cause |-> "mount"])
        /\ UNCHANGED <<delivery, completions>>
    BY <1>5 DEF MainFocus, SendFocus
  <2>3. Clean(center')
    BY <1>append, <2>1, <2>2
  <2> QED BY <1>3, <2>2, <2>3
<1>6. CASE HandleKey \/ HandleListen
  <2>1. center # <<>> /\ center' = Tail(center) /\ UNCHANGED <<delivery, completions>>
    BY <1>6 DEF HandleKey, HandleListen, Serves
  <2> QED BY <1>3, <1>served, <2>1
<1>7. CASE HandleFocus
  <2>1. /\ center # <<>> /\ center' = Tail(center) /\ Head(center).op = "focus"
        /\ delivery' = [i \in 1..Cardinality(listed) |-> Head(center).cause]
        /\ UNCHANGED completions
    BY <1>7 DEF HandleFocus, Serves
  <2>2. NoKeyIn(delivery')
    BY <1>served, <2>1 DEF NoKeyIn
  <2> QED BY <1>3, <1>served, <2>1, <2>2
<1>8. CASE SendEventWithName
  <2>1. /\ delivery # <<>> /\ delivery' = Tail(delivery) /\ UNCHANGED center
        /\ completions' = completions \/ completions' = Append(completions, Head(delivery))
    BY <1>8 DEF SendEventWithName
  <2>2. NoKeyIn(delivery') /\ Head(delivery) # "key" /\ Head(delivery) \in Cause
    BY <1>3, <1>tail, <2>1, HeadTailProperties
  <2>3. NoKeyIn(completions')
    <3>1. CASE completions' = completions
      BY <1>3, <3>1
    <3>2. CASE completions' = Append(completions, Head(delivery))
      <4>1. \A i \in DOMAIN completions' : completions'[i] = Head(delivery)
                                           \/ (i \in DOMAIN completions /\ completions'[i] = completions[i])
        BY <2>2, <3>2, Elements
      <4> QED BY <1>3, <2>2, <4>1 DEF NoKeyIn
    <3> QED BY <2>1, <3>1, <3>2
  <2> QED BY <1>3, <2>1, <2>2, <2>3
<1>9. CASE OnEventComplete
  <2>1. completions # <<>> /\ completions' = Tail(completions) /\ UNCHANGED <<center, delivery>>
    BY <1>9 DEF OnEventComplete
  <2> QED BY <1>3, <1>tail, <2>1
<1>10. CASE WorkerCheck \/ WorkerWait \/ WorkerPop \/ JSRemoveListeners \/ UNCHANGED vars
  <2>1. UNCHANGED <<center, delivery, completions>>
    BY <1>10 DEF WorkerCheck, WorkerWait, WorkerPop, JSRemoveListeners, vars
  <2> QED BY <1>3, <2>1
<1>11. CASE JSAddListener
  <2>1. /\ UNCHANGED <<delivery, completions>>
        /\ center' = center \/ center' = Append(center, [op |-> "listen", id |-> navEventId + 1])
    BY <1>11 DEF JSAddListener
  <2>2. [op |-> "listen", id |-> navEventId + 1] \in Event
    BY EventKinds
  <2>3. Clean(center')
    BY <1>3, <1>append, <2>1, <2>2
  <2> QED BY <1>3, <2>1, <2>3
<1> QED BY <1>4, <1>5, <1>6, <1>7, <1>8, <1>9, <1>10, <1>11 DEF Next, NotifierStep, WorkerStep

LEMMA NextThrottled ==
  KeyTypeOK /\ IdsBelow /\ WorkerRests /\ CountCovers /\ KeyThrottled /\ [Next]_vars => KeyThrottled'
PROOF
<1> SUFFICES ASSUME KeyTypeOK, IdsBelow, WorkerRests, CountCovers, KeyThrottled, [Next]_vars,
                    OneHandler', worker' \in {"pop", "process"}
             PROVE  ~KeyChangePending'
  BY DEF KeyThrottled, Throttled
<1> USE DEF handlerVars, workerVars, clientVars, emitterVars, countVars, hardwareVars
<1>1. OneHandler /\ ~WorkerProcess /\ throttling
  <2>1. CASE throttling
    BY <2>1, OneHandlerBefore DEF WorkerProcess
  <2>2. CASE ~throttling
    BY <2>2, NextRests, QueueSteps DEF WorkerRests
  <2> QED BY <2>1, <2>2
<1>2. ~KeyChangePending
  <2>1. CASE worker \in {"pop", "process"}
    BY <1>1, <2>1 DEF KeyThrottled, Throttled
  <2>2. CASE worker \notin {"pop", "process"}
    <3>1. WorkerCheck
      BY <1>1, <2>2 DEF Next, NotifierStep, WorkerStep, HardwareKey, MainFocus, HandleKey, HandleFocus,
         SendEventWithName, HandleListen, WorkerWait, WorkerPop, OnEventComplete, JSAddListener,
         JSRemoveListeners, vars
    <3>2. active <= 0
      BY <3>1 DEF WorkerCheck, KeyTypeOK
    <3>3. Outstanding <= 0
      <4>1. Outstanding \in Nat /\ Outstanding <= active /\ active \in Nat
        BY <1>1, CountSteps DEF CountCovers, KeyTypeOK
      <4> QED BY <3>2, <4>1
    <3> QED BY <3>3, NothingPending
  <2> QED BY <2>1, <2>2
<1> QED BY <1>1, <1>2, NoKeyChange

-----------------------------------------------------------------------------
(* The newest key survives the flush.                                      *)

\* The newest key of a state, by what the state still holds.
LEMMA NewestForm ==
  NewestKeyKept <=>
    /\ keyQueue # <<>> => Last(keyQueue) = handled
    /\ keyQueue = <<>> /\ worker = "process" => current = handled
    /\ keyQueue = <<>> /\ worker # "process" => lastKey = handled
BY DEF NewestKeyKept

LEMMA NextNewest == KeyTypeOK /\ WorkerRests /\ NewestKeyKept /\ [Next]_vars => NewestKeyKept'
PROOF
<1> SUFFICES ASSUME KeyTypeOK, WorkerRests, NewestKeyKept, [Next]_vars PROVE NewestKeyKept'
  OBVIOUS
<1> USE DEF handlerVars, workerVars, clientVars, emitterVars, countVars, hardwareVars
<1>goal. ASSUME keyQueue' # <<>> => Last(keyQueue)' = handled',
                keyQueue' = <<>> /\ worker' = "process" => current' = handled',
                keyQueue' = <<>> /\ worker' # "process" => lastKey' = handled'
         PROVE  NewestKeyKept'
  BY <1>goal DEF NewestKeyKept
<1>kept. ASSUME UNCHANGED <<keyQueue, worker, current, lastKey, handled>> PROVE NewestKeyKept'
  BY <1>kept, <1>goal, NewestForm
<1>1. ASSUME NEW k \in Key, NEW press \in BOOLEAN, HardwareKey(k, press) PROVE NewestKeyKept'
  BY <1>1, <1>kept DEF HardwareKey
<1>2. CASE MainFocus \/ HandleFocus \/ SendEventWithName \/ HandleListen
  BY <1>2, <1>kept DEF MainFocus, HandleFocus, SendEventWithName, HandleListen
<1>3. CASE OnEventComplete \/ JSAddListener \/ JSRemoveListeners
  BY <1>3, <1>kept DEF OnEventComplete, JSAddListener, JSRemoveListeners
<1>4. CASE UNCHANGED vars
  BY <1>4, <1>kept DEF vars
<1>5. CASE HandleKey
  <2> DEFINE k == Head(center).key
             press == Head(center).press
             flush == ~press /\ Repeating(k, press)
             input == [key |-> k, press |-> press, repeat |-> RepeatFlag(k, press)]
  <2>1. handled' = input /\ UNCHANGED <<throttling, worker, current>>
    BY <1>5 DEF HandleKey
  <2>2. CASE throttling
    <3>1. PushKey(input, flush)
      BY <1>5, <2>2 DEF HandleKey
    <3>2. input \in Input
      <4>1. KeyTypeOK'
        BY KeyNextType
      <4> QED BY <2>1, <4>1 DEF KeyTypeOK
    <3> HIDE DEF input, flush
    <3>3. keyQueue' = <<input>> \/ keyQueue' = Append(keyQueue, input)
      BY <3>1 DEF PushKey
    <3>4. keyQueue' # <<>> /\ Last(keyQueue)' = input
      <4>1. CASE keyQueue' = <<input>>
        BY <4>1 DEF Last
      <4>2. CASE keyQueue' = Append(keyQueue, input)
        BY <3>2, <4>2, AppendProperties DEF Last, KeyTypeOK
      <4> QED BY <3>3, <4>1, <4>2
    <3> QED BY <1>goal, <2>1, <3>4
  <2>3. CASE ~throttling
    <3>1. lastKey' = input /\ UNCHANGED keyQueue
      BY <1>5, <2>3 DEF HandleKey, ProcessKey
    <3>2. keyQueue = <<>> /\ worker = "check"
      BY <2>3 DEF WorkerRests
    <3> QED BY <1>goal, <2>1, <3>1, <3>2
  <2> QED BY <2>2, <2>3
<1>6. CASE WorkerCheck
  BY <1>6, <1>goal, NewestForm DEF WorkerCheck
<1>7. CASE WorkerWait
  BY <1>7, <1>goal, NewestForm DEF WorkerWait
<1>8. CASE WorkerPop
  <2>1. /\ keyQueue # <<>> /\ keyQueue' = Tail(keyQueue) /\ current' = Head(keyQueue)
        /\ worker' = "process" /\ handled' = handled
    BY <1>8 DEF WorkerPop
  <2>2. keyQueue \in Seq(Input) /\ Last(keyQueue) = handled
    BY <2>1, NewestForm DEF KeyTypeOK
  <2>3. Tail(keyQueue) # <<>> => Last(Tail(keyQueue)) = Last(keyQueue)
    BY <2>1, <2>2, HeadTailProperties, EmptySeq DEF Last
  <2>4. ASSUME Tail(keyQueue) = <<>> PROVE Head(keyQueue) = Last(keyQueue)
    <3>1. Len(Tail(keyQueue)) = 0 /\ Len(keyQueue) \in Nat /\ Len(Tail(keyQueue)) = Len(keyQueue) - 1
      BY <2>1, <2>2, <2>4, HeadTailProperties, LenProperties, EmptySeq
    <3>2. Len(keyQueue) = 1
      BY <3>1
    <3> QED BY <2>1, <2>2, <3>2, HeadTailProperties DEF Last
  <2>5. Last(keyQueue)' = Last(Tail(keyQueue))
    BY <2>1 DEF Last
  <2> QED BY <1>goal, <2>1, <2>2, <2>3, <2>4, <2>5
<1>9. CASE WorkerProcess
  <2>1. /\ lastKey' = current /\ worker = "process" /\ worker' = "check"
        /\ UNCHANGED <<keyQueue, handled>>
    BY <1>9 DEF WorkerProcess, ProcessKey
  <2> QED BY <1>goal, <2>1, NewestForm DEF Last
<1> QED BY <1>1, <1>2, <1>3, <1>4, <1>5, <1>6, <1>7, <1>8, <1>9 DEF Next, NotifierStep, WorkerStep

-----------------------------------------------------------------------------
(* The theorems of the safety invariants.                                  *)

LEMMA KeyInvHolds == Spec => []KeyInv
PROOF
<1>1. Init => KeyInv
  <2> SUFFICES ASSUME Init PROVE KeyInv
    OBVIOUS
  <2>1. KeyTypeOK
    BY KeyInitType
  <2>2. Count(center, FocusEvent) = 0
    BY CountEmpty DEF Init
  <2>3. WorkerRests /\ KeyThrottled /\ Listened /\ IdsBelow
    BY DEF Init, WorkerRests, KeyThrottled, Throttled, Listened, IdsBelow
  <2>4. Outstanding = 0
    <3>1. Len(completions) = 0 /\ Len(delivery) = 0
      BY DEF Init
    <3> QED BY <2>1, <2>2, <3>1, OutstandingCount
  <2>5. CountIsOutstanding /\ CountCovers
    BY <2>4 DEF Init, CountIsOutstanding, CountExact, CountCovers
  <2>6. NewestKeyKept
    BY NewestForm DEF Init
  <2> QED BY <2>1, <2>3, <2>5, <2>6 DEF KeyInv
<1>2. KeyInv /\ [Next]_vars => KeyInv'
  BY KeyNextType, NextIdsBelow, NextRests, NextCovers, NextThrottled, NextListened, NextExact, NextNewest
     DEF KeyInv
<1> QED BY <1>1, <1>2, PTL DEF Spec

\* As long as the emitter has one handler, the worker takes no key before
\* JavaScript has completed the focus changes that earlier keys made, for any
\* number of keys, listeners and focus changes (RSkInputEventManager.cpp:62-81).
THEOREM ThrottleHolds == Spec => []KeyThrottled
PROOF
<1>1. KeyInv => KeyThrottled
  BY DEF KeyInv
<1> QED BY <1>1, KeyInvHolds, PTL

\* activeInputClients_ is the number of completions that will still come, as
\* long as JavaScript keeps its listener (RSkInputEventManager.cpp:73-81,
\* RSkSpatialNavigator.cpp:48-52).
THEOREM CountHolds == Spec => []CountIsOutstanding
PROOF
<1>1. KeyInv => CountIsOutstanding
  BY DEF KeyInv
<1> QED BY <1>1, KeyInvHolds, PTL

\* The flush of a release never drops the newest key
\* (RSkInputEventManager.cpp:94-101).
THEOREM NewestHolds == Spec => []NewestKeyKept
PROOF
<1>1. KeyInv => NewestKeyKept
  BY DEF KeyInv
<1> QED BY <1>1, KeyInvHolds, PTL

-----------------------------------------------------------------------------
(* Repetitions end with the release of their key.                          *)

\* The key events that the notifier has seen last, at 0, or has still to see;
\* two of them with none in between; the last one of all.
SeenAt(h, q, i) == IF i = 0 THEN h ELSE q[i]
IsKey(q, i)     == i = 0 \/ q[i].op = "key"
Between(q, i, j) == \A m \in 1..Len(q) : i < m /\ m < j => q[m].op # "key"
Adjacent(q, i, j) == i < j /\ IsKey(q, i) /\ IsKey(q, j) /\ Between(q, i, j)

(***************************************************************************)
(* Where no two keys have been held at the same time: after a press comes  *)
(* another event of the same key, and the key of the last press is the one *)
(* that is held down.                                                      *)
(***************************************************************************)
Ordered(h, q, d) ==
  /\ \A i, j \in 0..Len(q) : Adjacent(q, i, j) /\ SeenAt(h, q, i).press
       => SeenAt(h, q, j).key = SeenAt(h, q, i).key
  /\ \A i \in 0..Len(q) : /\ IsKey(q, i) /\ Between(q, i, Len(q) + 1)
                          /\ SeenAt(h, q, i).press
       => d = {SeenAt(h, q, i).key}

KeysInOrder ==
  /\ previousKey = handled.key /\ keyRepeat = handled.repeat
  /\ handled.repeat => handled.press
  /\ ~chord => Ordered(handled, center, down)

\* An event that is no key, at the end of the queue, changes nothing.
LEMMA OrderedOther ==
  ASSUME NEW h \in Input, NEW q \in Seq(Event), NEW d, Ordered(h, q, d),
         NEW e \in Event, e.op # "key"
  PROVE  Ordered(h, Append(q, e), d)
<1> DEFINE r == Append(q, e)
           n == Len(q)
<1>1. n \in Nat /\ Len(r) = n + 1 /\ r[n + 1] = e /\ \A i \in 1..n : r[i] = q[i]
  BY AppendProperties
<1> HIDE DEF r, n
<1>2. ~IsKey(r, n + 1)
  BY <1>1 DEF IsKey
<1>3. \A i \in 0..n : (IsKey(r, i) <=> IsKey(q, i)) /\ SeenAt(h, r, i) = SeenAt(h, q, i)
  BY <1>1 DEF IsKey, SeenAt
<1>4. \A i, j \in 0..(n + 1) : Between(r, i, j) => Between(q, i, j)
  BY <1>1 DEF Between, n
<1>5. \A i \in 0..n : Between(r, i, n + 2) => Between(q, i, n + 1)
  BY <1>1 DEF Between, n
<1>6. ASSUME NEW i \in 0..Len(r), NEW j \in 0..Len(r), Adjacent(r, i, j), SeenAt(h, r, i).press
      PROVE  SeenAt(h, r, j).key = SeenAt(h, r, i).key
  <2>1. i \in 0..n /\ j \in 0..n
    BY <1>1, <1>2, <1>6 DEF Adjacent
  <2>2. Adjacent(q, i, j)
    BY <1>1, <1>3, <1>4, <1>6, <2>1 DEF Adjacent
  <2> QED BY <1>3, <1>6, <2>1, <2>2 DEF Ordered, n
<1>7. ASSUME NEW i \in 0..Len(r), IsKey(r, i), Between(r, i, Len(r) + 1), SeenAt(h, r, i).press
      PROVE  d = {SeenAt(h, r, i).key}
  <2>1. i \in 0..n /\ Len(r) + 1 = n + 2
    BY <1>1, <1>2, <1>7
  <2> QED BY <1>1, <1>3, <1>5, <1>7, <2>1 DEF Ordered, n
<1> QED BY <1>6, <1>7 DEF Ordered, r

\* A key of the hardware, at the end of the queue.
LEMMA OrderedKey ==
  ASSUME NEW h \in Input, NEW q \in Seq(Event), NEW d, Ordered(h, q, d),
         NEW k \in Key, NEW press \in BOOLEAN,
         IF press THEN d \subseteq {k} ELSE k \in d
  PROVE  Ordered(h, Append(q, [op |-> "key", key |-> k, press |-> press]), IF press THEN {k} ELSE d \ {k})
<1> DEFINE e == [op |-> "key", key |-> k, press |-> press]
           r == Append(q, e)
           n == Len(q)
<1>0. e \in Event /\ e.op = "key" /\ e.key = k /\ e.press = press
  BY DEF Event, KeyEvent
<1> HIDE DEF e
<1>1. n \in Nat /\ Len(r) = n + 1 /\ r[n + 1] = e /\ \A i \in 1..n : r[i] = q[i]
  BY <1>0, AppendProperties
<1> HIDE DEF r, n
<1>2. SeenAt(h, r, n + 1) = e /\ IsKey(r, n + 1)
  BY <1>0, <1>1 DEF SeenAt, IsKey
<1>3. \A i \in 0..n : (IsKey(r, i) <=> IsKey(q, i)) /\ SeenAt(h, r, i) = SeenAt(h, q, i)
  BY <1>1 DEF IsKey, SeenAt
<1>4. \A i, j \in 0..(n + 1) : Between(r, i, j) => Between(q, i, j)
  BY <1>1 DEF Between, n
<1>5. \A i \in 0..n : ~Between(r, i, n + 2)
  BY <1>0, <1>1 DEF Between
<1>6. ASSUME NEW i \in 0..n, IsKey(q, i), Between(q, i, n + 1), SeenAt(h, q, i).press
      PROVE  SeenAt(h, q, i).key = k
  <2>1. d = {SeenAt(h, q, i).key}
    BY <1>6 DEF Ordered, n
  <2> QED BY <2>1
<1>7. ASSUME NEW i \in 0..Len(r), NEW j \in 0..Len(r), Adjacent(r, i, j), SeenAt(h, r, i).press
      PROVE  SeenAt(h, r, j).key = SeenAt(h, r, i).key
  <2>1. i \in 0..n /\ IsKey(q, i) /\ SeenAt(h, q, i).press
    BY <1>1, <1>3, <1>7 DEF Adjacent
  <2>2. CASE j = n + 1
    BY <1>0, <1>1, <1>2, <1>3, <1>4, <1>6, <1>7, <2>1, <2>2 DEF Adjacent
  <2>3. CASE j \in 0..n
    <3>1. Adjacent(q, i, j)
      BY <1>1, <1>3, <1>4, <1>7, <2>1, <2>3 DEF Adjacent
    <3> QED BY <1>3, <2>1, <2>3, <3>1 DEF Ordered, n
  <2> QED BY <1>1, <2>2, <2>3
<1>8. ASSUME NEW i \in 0..Len(r), IsKey(r, i), Between(r, i, Len(r) + 1), SeenAt(h, r, i).press
      PROVE  (IF press THEN {k} ELSE d \ {k}) = {SeenAt(h, r, i).key}
  <2>1. i = n + 1
    BY <1>1, <1>5, <1>8
  <2> QED BY <1>0, <1>2, <1>8, <2>1
<1>9. Ordered(h, r, IF press THEN {k} ELSE d \ {k})
  BY <1>7, <1>8 DEF Ordered
<1> QED BY <1>9 DEF r, e

\* Serving an event that is no key keeps the order of the keys.
LEMMA OrderedSkip ==
  ASSUME NEW h \in Input, NEW q \in Seq(Event), NEW d, Ordered(h, q, d),
         q # <<>>, Head(q).op # "key"
  PROVE  Ordered(h, Tail(q), d)
<1> DEFINE r == Tail(q)
           n == Len(r)
           At(i) == IF i = 0 THEN 0 ELSE i + 1
<1>1. /\ n \in Nat /\ Len(q) = n + 1 /\ q[1].op # "key" /\ \A i \in 1..n : r[i] = q[i + 1]
  BY HeadTailProperties, LenProperties, EmptySeq
<1> HIDE DEF r, n
<1>2. \A i \in 0..n : /\ IsKey(r, i) <=> IsKey(q, At(i))
                      /\ SeenAt(h, r, i) = SeenAt(h, q, At(i))
  BY <1>1 DEF IsKey, SeenAt
<1>3. \A i, j \in 0..(n + 1) : Between(r, i, j) => Between(q, At(i), At(j))
  <2> SUFFICES ASSUME NEW i \in 0..(n + 1), NEW j \in 0..(n + 1), Between(r, i, j),
                      NEW m \in 1..Len(q), At(i) < m, m < At(j)
               PROVE  q[m].op # "key"
    BY DEF Between
  <2>1. CASE m = 1
    BY <1>1, <2>1
  <2>2. CASE m # 1
    <3>1. m - 1 \in 1..n /\ r[m - 1] = q[m] /\ i < m - 1 /\ m - 1 < j
      BY <1>1, <2>2
    <3> QED BY <3>1 DEF Between, n
  <2> QED BY <2>1, <2>2
<1>4. ASSUME NEW i \in 0..Len(r), NEW j \in 0..Len(r), Adjacent(r, i, j), SeenAt(h, r, i).press
      PROVE  SeenAt(h, r, j).key = SeenAt(h, r, i).key
  <2>1. i \in 0..n /\ j \in 0..n /\ At(i) \in 0..Len(q) /\ At(j) \in 0..Len(q) /\ At(i) < At(j)
    BY <1>1, <1>4 DEF Adjacent, n
  <2>2. Adjacent(q, At(i), At(j))
    BY <1>1, <1>2, <1>3, <1>4, <2>1 DEF Adjacent
  <2> HIDE DEF At
  <2> QED BY <1>2, <1>4, <2>1, <2>2 DEF Ordered
<1>5. ASSUME NEW i \in 0..Len(r), IsKey(r, i), Between(r, i, Len(r) + 1), SeenAt(h, r, i).press
      PROVE  d = {SeenAt(h, r, i).key}
  <2>1. i \in 0..n /\ At(i) \in 0..Len(q) /\ At(n + 1) = Len(q) + 1
    BY <1>1, <1>5 DEF n
  <2>2. Between(q, At(i), Len(q) + 1)
    BY <1>1, <1>3, <1>5, <2>1 DEF n
  <2> HIDE DEF At
  <2> QED BY <1>2, <1>5, <2>1, <2>2 DEF Ordered
<1> QED BY <1>4, <1>5 DEF Ordered, r

\* Serving a key makes it the one seen last; after a press it is the same key.
LEMMA OrderedTake ==
  ASSUME NEW h \in Input, NEW q \in Seq(Event), NEW d, Ordered(h, q, d),
         q # <<>>, Head(q).op = "key",
         NEW g \in Input, g.key = Head(q).key, g.press = Head(q).press
  PROVE  Ordered(g, Tail(q), d) /\ (h.press => Head(q).key = h.key)
<1> DEFINE r == Tail(q)
           n == Len(r)
<1>1. /\ n \in Nat /\ Len(q) = n + 1 /\ q[1] = Head(q) /\ \A i \in 1..n : r[i] = q[i + 1]
  BY HeadTailProperties, LenProperties, EmptySeq
<1> HIDE DEF r, n
<1>3. \A i \in 0..n : /\ IsKey(r, i) <=> IsKey(q, i + 1)
                      /\ SeenAt(g, r, i).key = SeenAt(h, q, i + 1).key
                      /\ SeenAt(g, r, i).press = SeenAt(h, q, i + 1).press
  BY <1>1 DEF IsKey, SeenAt
<1>4. \A i, j \in 0..(n + 1) : Between(r, i, j) => Between(q, i + 1, j + 1)
  <2> SUFFICES ASSUME NEW i \in 0..(n + 1), NEW j \in 0..(n + 1), Between(r, i, j),
                      NEW m \in 1..Len(q), i + 1 < m, m < j + 1
               PROVE  q[m].op # "key"
    BY DEF Between
  <2>1. m - 1 \in 1..n /\ r[m - 1] = q[m] /\ i < m - 1 /\ m - 1 < j
    BY <1>1
  <2> QED BY <2>1 DEF Between, n
<1>5. ASSUME NEW i \in 0..Len(r), NEW j \in 0..Len(r), Adjacent(r, i, j), SeenAt(g, r, i).press
      PROVE  SeenAt(g, r, j).key = SeenAt(g, r, i).key
  <2>1. i \in 0..n /\ j \in 0..n /\ i + 1 \in 0..Len(q) /\ j + 1 \in 0..Len(q) /\ i + 1 < j + 1
    BY <1>1, <1>5 DEF Adjacent, n
  <2>2. Adjacent(q, i + 1, j + 1)
    BY <1>1, <1>3, <1>4, <1>5, <2>1 DEF Adjacent
  <2> QED BY <1>3, <1>5, <2>1, <2>2 DEF Ordered
<1>6. ASSUME NEW i \in 0..Len(r), IsKey(r, i), Between(r, i, Len(r) + 1), SeenAt(g, r, i).press
      PROVE  d = {SeenAt(g, r, i).key}
  <2>1. i \in 0..n /\ i + 1 \in 0..Len(q) /\ n + 1 \in 0..(n + 1) /\ n + 2 = Len(q) + 1
    BY <1>1, <1>6 DEF n
  <2>2. Between(q, i + 1, Len(q) + 1)
    BY <1>1, <1>4, <1>6, <2>1 DEF n
  <2> QED BY <1>3, <1>6, <2>1, <2>2 DEF Ordered
<1>7. Ordered(g, r, d)
  BY <1>1, <1>5, <1>6 DEF Ordered
<1>8. ASSUME h.press PROVE Head(q).key = h.key
  <2>1. Adjacent(q, 0, 1) /\ SeenAt(h, q, 0) = h /\ SeenAt(h, q, 1) = q[1] /\ 0 \in 0..Len(q) /\ 1 \in 0..Len(q)
    BY <1>1 DEF Adjacent, IsKey, Between, SeenAt
  <2> QED BY <1>1, <1>8, <2>1 DEF Ordered
<1> QED BY <1>7, <1>8 DEF r

LEMMA NextOrdered == KeyTypeOK /\ KeysInOrder /\ [Next]_vars => KeysInOrder'
PROOF
<1> SUFFICES ASSUME KeyTypeOK, KeysInOrder, [Next]_vars PROVE KeysInOrder'
  OBVIOUS
<1> USE DEF handlerVars, workerVars, clientVars, emitterVars, countVars, hardwareVars
<1>1. center \in Seq(Event) /\ handled \in Input /\ handled' \in Input /\ down \subseteq Key
  <2>1. KeyTypeOK'
    BY KeyNextType
  <2> QED BY <2>1 DEF KeyTypeOK
<1>kept. ASSUME UNCHANGED handlerVars,
                ~chord' => ~chord /\ (Ordered(handled, center, down) => Ordered(handled, center', down'))
         PROVE  KeysInOrder'
  BY <1>kept DEF KeysInOrder
<1>focus. ASSUME NEW c \in Cause, NEW q \in Seq(Event), Ordered(handled', q, down)
          PROVE  Ordered(handled', Append(q, [op |-> "focus", cause |-> c]), down)
  <2>1. [op |-> "focus", cause |-> c] \in Event
    BY EventKinds
  <2> QED BY <1>1, <1>focus, <2>1, OrderedOther
<1>2. ASSUME NEW k \in Key, NEW press \in BOOLEAN, HardwareKey(k, press) PROVE KeysInOrder'
  <2>1. /\ center' = Append(center, [op |-> "key", key |-> k, press |-> press])
        /\ press \/ k \in down
        /\ down' = IF press THEN down \cup {k} ELSE down \ {k}
        /\ UNCHANGED handlerVars
    BY <1>2 DEF HardwareKey
  <2>2. chord' = (chord \/ (press /\ ~(down \subseteq {k})))
    BY <1>2 DEF HardwareKey
  <2>3. ASSUME ~chord', Ordered(handled, center, down) PROVE ~chord /\ Ordered(handled, center', down')
    <3>1. ~chord /\ IF press THEN down \subseteq {k} ELSE k \in down
      BY <2>1, <2>2, <2>3
    <3>2. Ordered(handled, center', IF press THEN {k} ELSE down \ {k})
      BY <1>1, <2>1, <2>3, <3>1, OrderedKey
    <3>3. down' = IF press THEN {k} ELSE down \ {k}
      BY <2>1, <3>1
    <3> QED BY <3>1, <3>2, <3>3
  <2>4. ~chord' => ~chord
    BY <2>2
  <2> QED BY <1>kept, <2>1, <2>3, <2>4
<1>3. CASE MainFocus
  <2>1. /\ center' = Append(center, [op |-> "focus", cause |-> "mount"])
        /\ UNCHANGED <<down, chord, handlerVars>> /\ "mount" \in Cause
    BY <1>3 DEF MainFocus, SendFocus, Cause
  <2> QED BY <1>1, <1>kept, <1>focus, <2>1
<1>4. CASE HandleKey
  <2> DEFINE k == Head(center).key
             press == Head(center).press
             input == [key |-> k, press |-> press, repeat |-> RepeatFlag(k, press)]
  <2>1. /\ center # <<>> /\ Head(center).op = "key" /\ UNCHANGED <<down, chord>>
        /\ previousKey' = k /\ keyRepeat' = input.repeat /\ handled' = input
    BY <1>4 DEF HandleKey, Serves
  <2>2. ASSUME ~chord PROVE Ordered(handled', Tail(center), down) /\ Tail(center) \in Seq(Event)
    <3>1. handled'.key = Head(center).key /\ handled'.press = Head(center).press
      BY <2>1
    <3> QED BY <1>1, <2>1, <2>2, <3>1, OrderedTake, HeadTailProperties DEF KeysInOrder
  <2>3. ASSUME ~chord PROVE Ordered(handled', center', down)
    <3>1. center' = Tail(center) \/ center' = Append(Tail(center), [op |-> "focus", cause |-> "key"])
      <4>1. CASE throttling
        BY <1>4, <4>1 DEF HandleKey
      <4>2. CASE ~throttling
        BY <1>4, <4>2 DEF HandleKey, ProcessKey, SendFocus
      <4> QED BY <4>1, <4>2
    <3> QED BY <2>2, <2>3, <3>1, <1>focus DEF Cause
  <2>4. handled'.repeat => handled'.press
    BY <2>1 DEF RepeatFlag
  <2> QED BY <2>1, <2>3, <2>4 DEF KeysInOrder
<1>5. CASE HandleFocus \/ HandleListen
  <2>1. /\ center # <<>> /\ Head(center).op # "key" /\ center' = Tail(center)
        /\ UNCHANGED <<down, chord, handlerVars>>
    BY <1>5 DEF HandleFocus, HandleListen, Serves
  <2>2. Ordered(handled, center, down) => Ordered(handled, center', down')
    BY <1>1, <2>1, OrderedSkip
  <2> QED BY <1>kept, <2>1, <2>2
<1>6. CASE WorkerProcess
  <2>1. /\ UNCHANGED <<down, chord, handlerVars>>
        /\ center' = center \/ center' = Append(center, [op |-> "focus", cause |-> "key"])
    BY <1>6 DEF WorkerProcess, ProcessKey, SendFocus
  <2>2. Ordered(handled, center, down) => Ordered(handled, center', down')
    BY <1>1, <1>focus, <2>1 DEF Cause
  <2> QED BY <1>kept, <2>1, <2>2
<1>7. CASE JSAddListener
  <2>1. /\ UNCHANGED <<down, chord, handlerVars>>
        /\ center' = center \/ center' = Append(center, [op |-> "listen", id |-> navEventId + 1])
    BY <1>7 DEF JSAddListener
  <2>2. [op |-> "listen", id |-> navEventId + 1] \in Event /\ [op |-> "listen", id |-> navEventId + 1].op # "key"
    BY EventKinds DEF KeyTypeOK
  <2>3. Ordered(handled, center, down) => Ordered(handled, center', down')
    BY <1>1, <2>1, <2>2, OrderedOther
  <2> QED BY <1>kept, <2>1, <2>3
<1>8. CASE \/ SendEventWithName \/ WorkerCheck \/ WorkerWait \/ WorkerPop \/ OnEventComplete
           \/ JSRemoveListeners \/ UNCHANGED vars
  <2>1. UNCHANGED <<down, chord, center, handlerVars>>
    BY <1>8 DEF SendEventWithName, WorkerCheck, WorkerWait, WorkerPop, OnEventComplete,
                JSRemoveListeners, vars
  <2> QED BY <1>1, <1>kept, <2>1
<1> QED BY <1>2, <1>3, <1>4, <1>5, <1>6, <1>7, <1>8 DEF Next, NotifierStep, WorkerStep

\* In the build without throttling a key that reaches processKey as a repeat is
\* a press of the key that was processed just before it, or, once two keys have
\* been held together, one in the middle of a repetition
\* (RSkInputEventManager.cpp:84-108).
THEOREM RepeatsAreSame == Spec => RepeatIsSameKey
PROOF
<1> DEFINE Same == ~throttling /\ lastKey' # lastKey /\ lastKey'.repeat
                     => /\ lastKey'.press
                        /\ lastKey'.key = lastKey.key \/ (chord /\ lastKey.repeat)
<1>1. Init => KeysInOrder
  <2> SUFFICES ASSUME Init PROVE KeysInOrder
    OBVIOUS
  <2>1. Ordered(handled, center, down)
    BY DEF Init, Ordered, NoInput, SeenAt, Adjacent
  <2> QED BY <2>1 DEF Init, KeysInOrder, NoInput
<1>2. KeyInv /\ KeysInOrder /\ [Next]_vars => KeysInOrder'
  BY NextOrdered DEF KeyInv
<1>3. KeyInv /\ KeysInOrder /\ [Next]_vars => [Same]_vars
  <2> SUFFICES ASSUME KeyInv, KeysInOrder, [Next]_vars, ~throttling, lastKey' # lastKey, lastKey'.repeat
               PROVE  lastKey'.press /\ (lastKey'.key = lastKey.key \/ (chord /\ lastKey.repeat))
    OBVIOUS
  <2>1. lastKey = handled /\ worker = "check"
    BY NewestForm DEF KeyInv, WorkerRests
  <2>2. HandleKey
    BY <2>1 DEF Next, NotifierStep, WorkerStep, HardwareKey, MainFocus, HandleFocus, SendEventWithName,
                HandleListen, WorkerCheck, WorkerWait, WorkerPop, WorkerProcess, OnEventComplete,
                JSAddListener, JSRemoveListeners, vars
  <2> DEFINE k == Head(center).key
             press == Head(center).press
             input == [key |-> k, press |-> press, repeat |-> RepeatFlag(k, press)]
  <2>3. /\ center # <<>> /\ Head(center).op = "key" /\ lastKey' = input /\ handled' = input
    BY <2>2 DEF HandleKey, Serves, ProcessKey
  <2>4. press /\ (keyRepeat \/ previousKey = k)
    BY <2>3 DEF RepeatFlag, Repeating
  <2>5. ~chord /\ handled.press => k = handled.key
    <3>1. KeyTypeOK /\ KeyTypeOK'
      BY KeyNextType DEF KeyInv
    <3> QED BY <2>3, <3>1, OrderedTake DEF KeyTypeOK, KeysInOrder
  <2> QED BY <2>1, <2>3, <2>4, <2>5 DEF KeysInOrder
<1>4. Spec => []KeyInv
  BY KeyInvHolds
<1> QED BY <1>1, <1>2, <1>3, <1>4, PTL DEF Spec, RepeatIsSameKey

=============================================================================
