----------------------- MODULE NotificationCenterProofs ---------------------
(***************************************************************************)
(* Proofs about NotificationCenter, for any threads, events and bounds: as *)
(* long as nothing is removed, an emit calls every listener it should.     *)
(***************************************************************************)
EXTENDS NotificationCenter, SequenceTheorems, FiniteSetTheorems, TLAPS

Registration == [op : {"add"}, reg : Nat, event : Event, nested : BOOLEAN]
AddTask == [op : {"add"}, reg : Nat, event : Event, nested : BOOLEAN, id : Nat]
EmitTask == [op : {"emit"}, event : Event, nested : BOOLEAN, owed : SUBSET Nat]
Task == AddTask \cup EmitTask

CenterTypeOK ==
  /\ lastListener \in Nat
  /\ queue \in Seq(Task)
  /\ DOMAIN pc = Thread /\ DOMAIN call = Thread
  /\ added \subseteq Registration /\ IsFiniteSet(added)

\* A task or a call that registers x for event e.
AddOf(f, x, e, nested) ==
  f.op = "add" /\ f.reg = x /\ f.event = e /\ f.nested = nested

\* Registrations have numbers of their own.
Numbered ==
  /\ \A x \in added : x.reg <= Cardinality(added)
  /\ \A x, y \in added : x.reg = y.reg => x = y

\* What the threads in the middle of a call know.
CallsKnown ==
  /\ \A t \in Thread : pc[t] = "addLock" => call[t] \in added
  /\ \A t \in Thread : pc[t] = "addQueue" =>
       /\ call[t] \in AddTask
       /\ \E x \in added : AddOf(call[t], x.reg, x.event, x.nested)
  /\ \A t \in Thread : pc[t] \in {"removeLock", "removeErase"} => removing # {}
  /\ pc[Notifier] = "insert" => call[Notifier].task \in AddTask

\* Without removals only the notifier thread writes the table.
TableOwned ==
  /\ DOMAIN listenersList = Event
  /\ pc[Notifier] = "insert" => call[Notifier].list = listenersList

\* The registrations that are listed for an event, or about to be.
Reached ==
  [e \in Event |-> {x \in Nat :
     \/ \E r \in listenersList[e] : r.reg = x
     \/ pc[Notifier] = "insert" /\ AddOf(call[Notifier].task, x, e, call[Notifier].task.nested)}]

\* A queued emit comes behind the registrations it owes a call.
OwedComing ==
  \A i \in DOMAIN queue : queue[i].op = "emit" =>
    \A x \in queue[i].owed :
      \/ x \in Reached[queue[i].event]
      \/ \E j \in DOMAIN queue :
           j < i /\ AddOf(queue[j], x, queue[i].event, queue[i].nested)

InProgress ==
  {x \in added : \E t \in Thread : pc[t] \in {"addLock", "addQueue"} /\ call[t].reg = x.reg}

\* A registration whose call has returned is queued, if not further.
AddedComing ==
  \A x \in added :
    \/ x \in InProgress
    \/ x.reg \in Reached[x.event]
    \/ \E j \in DOMAIN queue : AddOf(queue[j], x.reg, x.event, x.nested)

OwedCalled == owed \subseteq called \cup {r.reg : r \in handle}

(***************************************************************************)
(* DeliveryComplete is not inductive: an emit may be taken from the queue  *)
(* only when what it owes has left the queue, which holds because the two  *)
(* were queued by the same kind of thread, the registration first.         *)
(***************************************************************************)
CenterInv ==
  /\ CenterTypeOK /\ Numbered /\ CallsKnown
  /\ removing = {} => TableOwned /\ OwedComing /\ AddedComing /\ OwedCalled

-----------------------------------------------------------------------------
(* The queue of the notifier thread.                                       *)

\* What is left when the function at place i is taken from the queue.
LEMMA Removed ==
  ASSUME NEW S, NEW s \in Seq(S), NEW i \in 1..Len(s)
  PROVE  /\ RemoveAt(s, i) \in Seq(S)
         /\ Len(RemoveAt(s, i)) = Len(s) - 1
         /\ \A j \in 1..(Len(s) - 1) : RemoveAt(s, i)[j] = IF j < i THEN s[j] ELSE s[j + 1]
<1> DEFINE a == SubSeq(s, 1, i - 1)
           b == SubSeq(s, i + 1, Len(s))
<1>1. Len(s) \in Nat /\ i \in Nat /\ i >= 1 /\ i <= Len(s)
  OBVIOUS
<1>2. /\ a \in Seq(S) /\ Len(a) = i - 1
      /\ \A j \in 1..(i - 1) : a[j] = s[j]
  BY <1>1, SubSeqProperties
<1>3. /\ b \in Seq(S) /\ Len(b) = Len(s) - i
      /\ \A j \in 1..(Len(s) - i) : b[j] = s[i + j]
  BY <1>1, SubSeqProperties
<1> HIDE DEF a, b
<1>4. a \o b \in Seq(S) /\ Len(a \o b) = Len(a) + Len(b)
  BY <1>2, <1>3, ConcatProperties
<1>5. Len(a \o b) = Len(s) - 1
  BY <1>1, <1>2, <1>3, <1>4
<1>6. ASSUME NEW j \in 1..(Len(s) - 1) PROVE (a \o b)[j] = IF j < i THEN s[j] ELSE s[j + 1]
  <2>1. (a \o b)[j] = IF j <= Len(a) THEN a[j] ELSE b[j - Len(a)]
    <3>1. j \in 1..(Len(a) + Len(b))
      BY <1>4, <1>5
    <3> QED BY <1>2, <1>3, <3>1, ConcatProperties
  <2>2. CASE j < i
    BY <1>1, <1>2, <2>1, <2>2
  <2>3. CASE ~(j < i)
    <3>1. j - (i - 1) \in 1..(Len(s) - i) /\ i + (j - (i - 1)) = j + 1 /\ ~(j <= i - 1)
      BY <1>1, <2>3
    <3>2. b[j - (i - 1)] = s[j + 1]
      BY <1>3, <3>1
    <3> QED BY <1>2, <2>1, <2>3, <3>1, <3>2
  <2> QED BY <2>2, <2>3
<1> QED BY <1>4, <1>5, <1>6 DEF RemoveAt, a, b

\* A function behind the others.
LEMMA AppendKeeps ==
  ASSUME NEW q \in Seq(Task), NEW t \in Task
  PROVE  /\ Append(q, t) \in Seq(Task)
         /\ DOMAIN Append(q, t) = DOMAIN q \cup {Len(q) + 1}
         /\ \A i \in DOMAIN q : i \in Nat /\ i < Len(q) + 1 /\ Append(q, t)[i] = q[i]
         /\ Append(q, t)[Len(q) + 1] = t
<1>1. /\ Append(q, t) \in Seq(Task) /\ Len(Append(q, t)) = Len(q) + 1
      /\ \A i \in 1..Len(q) : Append(q, t)[i] = q[i]
      /\ Append(q, t)[Len(q) + 1] = t
  BY AppendProperties
<1>2. /\ DOMAIN q = 1..Len(q) /\ Len(q) \in Nat
      /\ DOMAIN Append(q, t) = 1..Len(Append(q, t))
  BY <1>1, LenProperties
<1> QED BY <1>1, <1>2

-----------------------------------------------------------------------------
(* What the changes of pc and call say.                                    *)

LEMMA GotoSets ==
  ASSUME DOMAIN pc = Thread, NEW t \in Thread, NEW from, NEW to, Goto(t, from, to)
  PROVE  /\ DOMAIN pc' = Thread /\ pc[t] = from /\ pc'[t] = to
         /\ \A u \in Thread : u # t => pc'[u] = pc[u]
BY DEF Goto

LEMMA CallSets ==
  ASSUME DOMAIN call = Thread, NEW t \in Thread, NEW v, call' = [call EXCEPT ![t] = v]
  PROVE  /\ DOMAIN call' = Thread /\ call'[t] = v
         /\ \A u \in Thread : u # t => call'[u] = call[u]
OBVIOUS

\* What has reached the table or is about to stays so, unless the table changes
\* or an insertion ends.
LEMMA ReachedSame ==
  ASSUME UNCHANGED listenersList,
         pc[Notifier] = "insert" => pc'[Notifier] = "insert" /\ UNCHANGED (call[Notifier])
  PROVE  \A e \in Event : Reached[e] \subseteq Reached'[e]
BY DEF Reached

LEMMA OwedStays ==
  ASSUME OwedComing, queue \in Seq(Task), UNCHANGED queue,
         \A e \in Event : Reached[e] \subseteq Reached'[e]
  PROVE  OwedComing'
<1> SUFFICES ASSUME NEW i \in DOMAIN queue', queue'[i].op = "emit", NEW x \in queue'[i].owed
             PROVE  (\/ x \in Reached[queue[i].event]
                     \/ \E j \in DOMAIN queue :
                          j < i /\ AddOf(queue[j], x, queue[i].event, queue[i].nested))'
  BY DEF OwedComing
<1>1. queue[i].event \in Event
  <2>1. queue[i] \in Task
    OBVIOUS
  <2> QED BY <2>1 DEF Task, AddTask, EmitTask
<1> QED BY <1>1 DEF OwedComing

LEMMA AddedStays ==
  ASSUME AddedComing, added \subseteq Registration, UNCHANGED <<queue, added>>,
         InProgress \subseteq InProgress',
         \A e \in Event : Reached[e] \subseteq Reached'[e]
  PROVE  AddedComing'
<1> SUFFICES ASSUME NEW x \in added
             PROVE  (\/ x \in InProgress
                     \/ x.reg \in Reached[x.event]
                     \/ \E j \in DOMAIN queue : AddOf(queue[j], x.reg, x.event, x.nested))'
  BY DEF AddedComing
<1>1. x.event \in Event
  BY DEF Registration
<1> QED BY <1>1 DEF AddedComing

\* One thread goes on.
LEMMA CallsStay ==
  ASSUME CallsKnown, NEW t \in Thread,
         \A u \in Thread : u # t => pc'[u] = pc[u] /\ call'[u] = call[u],
         added \subseteq added', removing # {} => removing' # {},
         pc'[t] = "addLock" => call'[t] \in added',
         pc'[t] = "addQueue" =>
           /\ call'[t] \in AddTask
           /\ \E x \in added' : AddOf(call'[t], x.reg, x.event, x.nested),
         pc'[t] \in {"removeLock", "removeErase"} => removing' # {},
         t = Notifier /\ pc'[t] = "insert" => call'[t].task \in AddTask
  PROVE  CallsKnown'
<1>1. \A u \in Thread : pc'[u] = "addLock" => call'[u] \in added'
  BY DEF CallsKnown
<1>2. ASSUME NEW u \in Thread, pc'[u] = "addQueue"
      PROVE  /\ call'[u] \in AddTask
             /\ \E x \in added' : AddOf(call'[u], x.reg, x.event, x.nested)
  <2>1. CASE u = t
    BY <1>2, <2>1
  <2>2. CASE u # t
    <3>1. pc[u] = "addQueue" /\ call'[u] = call[u]
      BY <1>2, <2>2
    <3> QED BY <3>1 DEF CallsKnown
  <2> QED BY <2>1, <2>2
<1>3. \A u \in Thread : pc'[u] \in {"removeLock", "removeErase"} => removing' # {}
  BY DEF CallsKnown
<1>4. pc'[Notifier] = "insert" => call'[Notifier].task \in AddTask
  BY DEF CallsKnown, Thread
<1> QED BY <1>1, <1>2, <1>3, <1>4 DEF CallsKnown

-----------------------------------------------------------------------------
(* addListener.                                                            *)

LEMMA AddListenerKeeps ==
  ASSUME CenterInv, NEW t \in Thread, NEW e \in Event, AddListener(t, e)
  PROVE  CenterInv'
PROOF
<1> DEFINE new == [op |-> "add", reg |-> Cardinality(added) + 1, event |-> e,
                   nested |-> t = Notifier]
<1>0. /\ CenterTypeOK /\ Numbered /\ CallsKnown
      /\ Goto(t, Outside(t), "addLock") /\ call' = [call EXCEPT ![t] = new]
      /\ UNCHANGED <<lastListener, listenersList, queue, handle, called, owed, removing>>
  BY DEF CenterInv, AddListener, centerVars, emitVars
<1>1. added' = added \cup {call'[t]}
  BY DEF AddListener
<1>2. /\ DOMAIN pc' = Thread /\ pc[t] = Outside(t) /\ pc'[t] = "addLock"
      /\ \A u \in Thread : u # t => pc'[u] = pc[u]
  BY <1>0, GotoSets DEF CenterTypeOK
<1>3. /\ DOMAIN call' = Thread /\ call'[t] = new
      /\ \A u \in Thread : u # t => call'[u] = call[u]
  BY <1>0, CallSets DEF CenterTypeOK
<1>4. Cardinality(added) \in Nat /\ IsFiniteSet(added)
  BY <1>0, FS_CardinalityType DEF CenterTypeOK
<1>5. new \in Registration /\ new.reg = Cardinality(added) + 1
  BY <1>4 DEF Registration
<1> HIDE DEF new
<1>6. /\ IsFiniteSet(added') /\ Cardinality(added') = Cardinality(added) + 1
      /\ added' = added \cup {new} /\ \A x \in added : x.reg # new.reg
  <2>1. \A x \in added : x.reg \in Nat /\ x.reg <= Cardinality(added)
    BY <1>0 DEF CenterTypeOK, Numbered, Registration
  <2>2. \A x \in added : x.reg # new.reg
    BY <1>4, <1>5, <2>1
  <2>3. new \notin added
    BY <2>2
  <2> QED BY <1>1, <1>3, <1>4, <2>2, <2>3, FS_AddElement
<1>7. CenterTypeOK'
  BY <1>0, <1>2, <1>3, <1>5, <1>6 DEF CenterTypeOK
<1>8. Numbered'
  <2>1. \A x \in added' : x.reg <= Cardinality(added')
    <3>1. \A x \in added : x.reg \in Nat /\ x.reg <= Cardinality(added)
      BY <1>0 DEF CenterTypeOK, Numbered, Registration
    <3> QED BY <1>4, <1>5, <1>6, <3>1
  <2>2. \A x, y \in added' : x.reg = y.reg => x = y
    BY <1>0, <1>6 DEF Numbered
  <2> QED BY <2>1, <2>2 DEF Numbered
<1>9. CallsKnown'
  <2>1. Notifier \in Thread /\ pc'[Notifier] = "insert" => Notifier # t
    BY <1>2 DEF Thread
  <2>2. Notifier \in Thread
    BY DEF Thread
  <2>3. \A u \in Thread : pc'[u] = "addLock" => call'[u] \in added'
    BY <1>0, <1>2, <1>3, <1>6 DEF CallsKnown
  <2>4. \A u \in Thread : pc'[u] = "addQueue" =>
          /\ call'[u] \in AddTask
          /\ \E x \in added' : AddOf(call'[u], x.reg, x.event, x.nested)
    <3> SUFFICES ASSUME NEW u \in Thread, pc'[u] = "addQueue"
                 PROVE  /\ call'[u] \in AddTask
                        /\ \E x \in added' : AddOf(call'[u], x.reg, x.event, x.nested)
      OBVIOUS
    <3>1. u # t
      BY <1>2
    <3>2. pc[u] = "addQueue" /\ call'[u] = call[u]
      BY <1>2, <1>3, <3>1
    <3> QED BY <1>0, <1>6, <3>2 DEF CallsKnown
  <2>5. \A u \in Thread : pc'[u] \in {"removeLock", "removeErase"} => removing' # {}
    BY <1>0, <1>2 DEF CallsKnown
  <2>6. pc'[Notifier] = "insert" => call'[Notifier].task \in AddTask
    BY <1>0, <1>2, <1>3, <2>1, <2>2 DEF CallsKnown
  <2> QED BY <2>3, <2>4, <2>5, <2>6 DEF CallsKnown
<1>10. ASSUME removing = {} PROVE TableOwned' /\ OwedComing' /\ AddedComing' /\ OwedCalled'
  <2>0. TableOwned /\ OwedComing /\ AddedComing /\ OwedCalled
    BY <1>10 DEF CenterInv
  <2>1. Notifier \in Thread /\ (t = Notifier => pc[t] = "calling")
    BY <1>2 DEF Thread, Outside
  <2>2. /\ pc[Notifier] = "insert" => pc'[Notifier] = "insert" /\ call'[Notifier] = call[Notifier]
        /\ pc'[Notifier] = "insert" => pc[Notifier] = "insert" /\ call'[Notifier] = call[Notifier]
    BY <1>2, <1>3, <2>1
  <2>3. \A f \in Event : Reached[f] \subseteq Reached'[f]
    BY <1>0, <2>2, ReachedSame
  <2>4. TableOwned'
    BY <1>0, <2>0, <2>2 DEF TableOwned
  <2>5. OwedComing'
    BY <1>0, <2>0, <2>3, OwedStays DEF CenterTypeOK
  <2>6. AddedComing'
    <3> SUFFICES ASSUME NEW x \in added'
                 PROVE  (\/ x \in InProgress
                         \/ x.reg \in Reached[x.event]
                         \/ \E j \in DOMAIN queue : AddOf(queue[j], x.reg, x.event, x.nested))'
      BY DEF AddedComing
    <3>1. CASE x = new
      BY <1>2, <1>3, <1>6, <3>1 DEF InProgress
    <3>2. CASE x \in added
      <4>1. x \in InProgress => x \in InProgress'
        <5>1. pc[t] \notin {"addLock", "addQueue"}
          BY <1>2 DEF Outside
        <5> QED BY <1>2, <1>3, <1>6, <5>1 DEF InProgress
      <4>2. x.event \in Event
        BY <1>0, <3>2 DEF CenterTypeOK, Registration
      <4> QED BY <1>0, <2>0, <2>3, <3>2, <4>1, <4>2 DEF AddedComing
    <3> QED BY <1>6, <3>1, <3>2
  <2>7. OwedCalled'
    BY <1>0, <2>0 DEF OwedCalled
  <2> QED BY <2>4, <2>5, <2>6, <2>7
<1> QED BY <1>0, <1>7, <1>8, <1>9, <1>10 DEF CenterInv

LEMMA AddLockKeeps == ASSUME CenterInv, NEW t \in Thread, AddLock(t) PROVE CenterInv'
PROOF
<1> DEFINE task == [op |-> "add", reg |-> call[t].reg, event |-> call[t].event,
                    nested |-> call[t].nested, id |-> lastListener + 1]
<1>0. /\ CenterTypeOK /\ Numbered /\ CallsKnown
      /\ Goto(t, "addLock", "addQueue") /\ call' = [call EXCEPT ![t] = task]
      /\ UNCHANGED <<lastListener, listenersList, queue, handle, called, owed, removing, added>>
  BY DEF CenterInv, AddLock, emitVars, auxVars
<1>1. /\ DOMAIN pc' = Thread /\ pc[t] = "addLock" /\ pc'[t] = "addQueue"
      /\ \A u \in Thread : u # t => pc'[u] = pc[u]
  BY <1>0, GotoSets DEF CenterTypeOK
<1>2. /\ DOMAIN call' = Thread /\ call'[t] = task
      /\ \A u \in Thread : u # t => call'[u] = call[u]
  BY <1>0, CallSets DEF CenterTypeOK
<1>3. /\ call[t] \in added /\ call[t] \in Registration
      /\ task.reg = call[t].reg /\ task.event = call[t].event /\ task.nested = call[t].nested
      /\ task \in AddTask /\ task.op = "add"
  <2>1. call[t] \in added /\ call[t] \in Registration
    BY <1>0, <1>1 DEF CallsKnown, CenterTypeOK
  <2>2. lastListener + 1 \in Nat
    BY <1>0 DEF CenterTypeOK
  <2> QED BY <2>1, <2>2 DEF Registration, AddTask
<1> HIDE DEF task
<1>4. CenterTypeOK' /\ Numbered'
  BY <1>0, <1>1, <1>2 DEF CenterTypeOK, Numbered
<1>5. CallsKnown'
  <2>1. \E x \in added' : AddOf(call'[t], x.reg, x.event, x.nested)
    BY <1>0, <1>2, <1>3 DEF AddOf
  <2> QED BY <1>0, <1>1, <1>2, <1>3, <2>1, CallsStay
<1>6. ASSUME removing = {} PROVE TableOwned' /\ OwedComing' /\ AddedComing' /\ OwedCalled'
  <2>0. TableOwned /\ OwedComing /\ AddedComing /\ OwedCalled
    BY <1>6 DEF CenterInv
  <2>1. Notifier \in Thread
    BY DEF Thread
  <2>2. /\ pc[Notifier] = "insert" => pc'[Notifier] = "insert" /\ call'[Notifier] = call[Notifier]
        /\ pc'[Notifier] = "insert" => pc[Notifier] = "insert" /\ call'[Notifier] = call[Notifier]
    BY <1>1, <1>2, <2>1
  <2>3. \A f \in Event : Reached[f] \subseteq Reached'[f]
    BY <1>0, <2>2, ReachedSame
  <2>4. TableOwned'
    BY <1>0, <2>0, <2>2 DEF TableOwned
  <2>5. OwedComing'
    BY <1>0, <2>0, <2>3, OwedStays DEF CenterTypeOK
  <2>6. InProgress \subseteq InProgress'
    BY <1>0, <1>1, <1>2, <1>3 DEF InProgress
  <2>7. AddedComing'
    BY <1>0, <2>0, <2>3, <2>6, AddedStays DEF CenterTypeOK
  <2>8. OwedCalled'
    BY <1>0, <2>0 DEF OwedCalled
  <2> QED BY <2>4, <2>5, <2>7, <2>8
<1> QED BY <1>0, <1>4, <1>5, <1>6 DEF CenterInv

\* A queue that grows behind keeps what comes in front.
LEMMA OwedAppended ==
  ASSUME OwedComing, queue \in Seq(Task), NEW f \in Task, queue' = Append(queue, f),
         \A e \in Event : Reached[e] \subseteq Reached'[e],
         f.op = "emit" =>
           \A x \in f.owed : \/ x \in Reached'[f.event]
                             \/ \E j \in DOMAIN queue : AddOf(queue[j], x, f.event, f.nested)
  PROVE  OwedComing'
<1>1. /\ DOMAIN queue' = DOMAIN queue \cup {Len(queue) + 1}
      /\ \A i \in DOMAIN queue : i \in Nat /\ i < Len(queue) + 1 /\ queue'[i] = queue[i]
      /\ queue'[Len(queue) + 1] = f
  BY AppendKeeps
<1> SUFFICES ASSUME NEW i \in DOMAIN queue', queue'[i].op = "emit", NEW x \in queue'[i].owed
             PROVE  (\/ x \in Reached[queue[i].event]
                     \/ \E j \in DOMAIN queue :
                          j < i /\ AddOf(queue[j], x, queue[i].event, queue[i].nested))'
  BY DEF OwedComing
<1>2. CASE i \in DOMAIN queue
  <2>1. queue[i].event \in Event
    <3>1. queue[i] \in Task
      BY <1>2
    <3> QED BY <3>1 DEF Task, AddTask, EmitTask
  <2>2. \/ x \in Reached[queue[i].event]
        \/ \E j \in DOMAIN queue : j < i /\ AddOf(queue[j], x, queue[i].event, queue[i].nested)
    BY <1>1, <1>2 DEF OwedComing
  <2> QED BY <1>1, <1>2, <2>1, <2>2
<1>3. CASE i = Len(queue) + 1
  BY <1>1, <1>3
<1> QED BY <1>1, <1>2, <1>3

LEMMA AddQueueKeeps == ASSUME CenterInv, NEW t \in Thread, AddQueue(t) PROVE CenterInv'
PROOF
<1>0. /\ CenterTypeOK /\ Numbered /\ CallsKnown
      /\ Goto(t, "addQueue", Outside(t)) /\ queue' = Append(queue, call[t])
      /\ lastListener' = call[t].id
      /\ UNCHANGED <<listenersList, call, handle, called, owed, removing, added>>
  BY DEF CenterInv, AddQueue, emitVars, auxVars
<1>1. /\ DOMAIN pc' = Thread /\ pc[t] = "addQueue" /\ pc'[t] = Outside(t)
      /\ \A u \in Thread : u # t => pc'[u] = pc[u]
  BY <1>0, GotoSets DEF CenterTypeOK
<1>2. call[t] \in AddTask /\ \E x \in added : AddOf(call[t], x.reg, x.event, x.nested)
  BY <1>0, <1>1 DEF CallsKnown
<1>3. /\ queue' \in Seq(Task) /\ DOMAIN queue' = DOMAIN queue \cup {Len(queue) + 1}
      /\ \A i \in DOMAIN queue : queue'[i] = queue[i]
      /\ queue'[Len(queue) + 1] = call[t]
  BY <1>0, <1>2, AppendKeeps DEF CenterTypeOK, Task
<1>4. CenterTypeOK' /\ Numbered'
  <2>1. lastListener' \in Nat
    BY <1>0, <1>2 DEF AddTask
  <2> QED BY <1>0, <1>1, <1>3, <2>1 DEF CenterTypeOK, Numbered
<1>5. CallsKnown'
  <2>1. pc'[t] \in {"idle", "calling"}
    BY <1>1 DEF Outside
  <2> QED BY <1>0, <1>1, <2>1, CallsStay
<1>6. ASSUME removing = {} PROVE TableOwned' /\ OwedComing' /\ AddedComing' /\ OwedCalled'
  <2>0. TableOwned /\ OwedComing /\ AddedComing /\ OwedCalled
    BY <1>6 DEF CenterInv
  <2>1. Notifier \in Thread /\ pc'[t] # "insert"
    BY <1>1 DEF Thread, Outside
  <2>2. /\ pc[Notifier] = "insert" => pc'[Notifier] = "insert" /\ call'[Notifier] = call[Notifier]
        /\ pc'[Notifier] = "insert" => pc[Notifier] = "insert" /\ call'[Notifier] = call[Notifier]
    BY <1>0, <1>1, <2>1
  <2>3. \A f \in Event : Reached[f] \subseteq Reached'[f]
    BY <1>0, <2>2, ReachedSame
  <2>4. TableOwned'
    BY <1>0, <2>0, <2>2 DEF TableOwned
  <2>5. OwedComing'
    <3>1. call[t] \in Task /\ call[t].op # "emit"
      BY <1>2 DEF Task, AddTask
    <3> QED BY <1>0, <2>0, <2>3, <3>1, OwedAppended DEF CenterTypeOK
  <2>6. AddedComing'
    <3> SUFFICES ASSUME NEW x \in added
                 PROVE  (\/ x \in InProgress
                         \/ x.reg \in Reached[x.event]
                         \/ \E j \in DOMAIN queue : AddOf(queue[j], x.reg, x.event, x.nested))'
      BY <1>0 DEF AddedComing
    <3>1. CASE x.reg = call[t].reg
      <4>1. AddOf(call[t], x.reg, x.event, x.nested)
        BY <1>0, <1>2, <3>1 DEF Numbered, AddOf
      <4> QED BY <1>3, <4>1
    <3>2. CASE x.reg # call[t].reg
      <4>1. x \in InProgress => x \in InProgress'
        BY <1>0, <1>1, <3>2 DEF InProgress
      <4>2. x.event \in Event
        BY <1>0 DEF CenterTypeOK, Registration
      <4> QED BY <1>3, <2>0, <2>3, <4>1, <4>2 DEF AddedComing
    <3> QED BY <3>1, <3>2
  <2>7. OwedCalled'
    BY <1>0, <2>0 DEF OwedCalled
  <2> QED BY <2>4, <2>5, <2>6, <2>7
<1> QED BY <1>0, <1>4, <1>5, <1>6 DEF CenterInv

-----------------------------------------------------------------------------
(* removeListener: nothing is said of the table any more.                  *)

LEMMA RemoveKeeps ==
  ASSUME CenterInv, NEW t \in Thread,
         RemoveLock(t) \/ RemoveErase(t) \/ \E id \in 1..lastListener : RemoveListener(t, id)
  PROVE  CenterInv'
PROOF
<1>0. /\ CenterTypeOK /\ Numbered /\ CallsKnown
      /\ UNCHANGED <<lastListener, queue, added>>
  BY DEF CenterInv, RemoveLock, RemoveErase, RemoveListener, centerVars, emitVars, auxVars
<1>1. /\ DOMAIN pc' = Thread /\ DOMAIN call' = Thread
      /\ \A u \in Thread : u # t => pc'[u] = pc[u] /\ call'[u] = call[u]
      /\ pc'[t] \in {"removeLock", "removeErase", "idle", "calling"}
      /\ removing' # {}
  <2>1. CASE \E id \in 1..lastListener : RemoveListener(t, id)
    <3>1. PICK id : /\ removing' = removing \cup {id} /\ Goto(t, Outside(t), "removeLock")
                    /\ call' = [call EXCEPT ![t] = [op |-> "remove", id |-> id]]
      BY <2>1 DEF RemoveListener
    <3> QED BY <1>0, <3>1, GotoSets, CallSets DEF CenterTypeOK
  <2>2. CASE RemoveLock(t)
    <3>1. /\ Goto(t, "removeLock", "removeErase") /\ UNCHANGED removing
          /\ call' = [call EXCEPT ![t] = [op |-> "remove", id |-> call[t].id,
                                          list |-> listenersList]]
      BY <2>2 DEF RemoveLock, auxVars
    <3>2. removing # {}
      BY <1>0, <3>1, GotoSets DEF CenterTypeOK, CallsKnown
    <3> QED BY <1>0, <3>1, <3>2, GotoSets, CallSets DEF CenterTypeOK
  <2>3. CASE RemoveErase(t)
    <3>1. Goto(t, "removeErase", Outside(t)) /\ UNCHANGED <<removing, call>>
      BY <2>3 DEF RemoveErase
    <3>2. removing # {}
      BY <1>0, <3>1, GotoSets DEF CenterTypeOK, CallsKnown
    <3>3. Outside(t) \in {"idle", "calling"}
      BY DEF Outside
    <3> QED BY <1>0, <3>1, <3>2, <3>3, GotoSets DEF CenterTypeOK
  <2> QED BY <2>1, <2>2, <2>3
<1>2. CenterTypeOK' /\ Numbered'
  BY <1>0, <1>1 DEF CenterTypeOK, Numbered
<1>3. CallsKnown'
  BY <1>0, <1>1, CallsStay
<1> QED BY <1>1, <1>2, <1>3 DEF CenterInv

-----------------------------------------------------------------------------
(* emit.                                                                   *)

LEMMA EmitKeeps ==
  ASSUME CenterInv, NEW t \in Thread, NEW e \in Event, Emit(t, e) PROVE CenterInv'
PROOF
<1> DEFINE regs == Registered(e, t = Notifier)
           task == [op |-> "emit", event |-> e, nested |-> t = Notifier, owed |-> regs]
<1>0. /\ CenterTypeOK /\ Numbered /\ CallsKnown
      /\ queue' = Append(queue, task)
      /\ UNCHANGED <<lastListener, listenersList, pc, call, handle, called, owed, removing, added>>
  BY DEF CenterInv, Emit, QueueEmit, emitVars
<1>1. regs \in SUBSET Nat
  BY <1>0 DEF Registered, CenterTypeOK, Registration
<1>2. /\ task \in EmitTask /\ task.event = e /\ task.owed = regs
      /\ task.nested = (t = Notifier)
  BY <1>1 DEF EmitTask
<1>3. ASSUME NEW x \in regs
      PROVE  \E a \in added : /\ a.reg = x /\ a.event = e /\ a.nested = (t = Notifier)
                              /\ a \notin InProgress
  BY DEF Registered, InProgress
<1> HIDE DEF task, regs
<1>4. /\ queue' \in Seq(Task) /\ DOMAIN queue' = DOMAIN queue \cup {Len(queue) + 1}
      /\ \A i \in DOMAIN queue : queue'[i] = queue[i]
  BY <1>0, <1>2, AppendKeeps DEF CenterTypeOK, Task
<1>5. CenterTypeOK' /\ Numbered' /\ CallsKnown'
  BY <1>0, <1>4 DEF CenterTypeOK, Numbered, CallsKnown
<1>6. ASSUME removing = {} PROVE TableOwned' /\ OwedComing' /\ AddedComing' /\ OwedCalled'
  <2>0. TableOwned /\ OwedComing /\ AddedComing /\ OwedCalled
    BY <1>6 DEF CenterInv
  <2>1. Reached' = Reached /\ InProgress' = InProgress
    BY <1>0 DEF Reached, InProgress
  <2>2. OwedComing'
    <3>1. ASSUME NEW x \in task.owed
          PROVE  \/ x \in Reached'[task.event]
                 \/ \E j \in DOMAIN queue : AddOf(queue[j], x, task.event, task.nested)
      <4>1. PICK a \in added : /\ a.reg = x /\ a.event = e /\ a.nested = (t = Notifier)
                               /\ a \notin InProgress
        BY <1>2, <1>3
      <4>2. \/ a.reg \in Reached[a.event]
            \/ \E j \in DOMAIN queue : AddOf(queue[j], a.reg, a.event, a.nested)
        BY <2>0, <4>1 DEF AddedComing
      <4> QED BY <1>2, <2>1, <4>1, <4>2
    <3> QED BY <1>0, <1>2, <2>0, <2>1, <3>1, OwedAppended DEF CenterTypeOK, Task
  <2>3. AddedComing'
    BY <1>0, <1>4, <2>0, <2>1 DEF AddedComing
  <2>4. TableOwned' /\ OwedCalled'
    BY <1>0, <2>0 DEF TableOwned, OwedCalled
  <2> QED BY <2>2, <2>3, <2>4
<1> QED BY <1>0, <1>5, <1>6 DEF CenterInv

-----------------------------------------------------------------------------
(* The notifier thread takes a function.                                   *)

\* Places before and after.
LEMMA TakePlaces ==
  ASSUME queue \in Seq(Task), NEW i \in DOMAIN queue, NEW op, TakeFunction(i, op)
  PROVE  /\ queue' \in Seq(Task) /\ queue[i].op = op /\ queue[i] \in Task
         /\ \A j \in DOMAIN queue : j < i => queue[j].nested # queue[i].nested
         /\ \A j \in DOMAIN queue : j # i =>
              \E m \in DOMAIN queue' : queue'[m] = queue[j] /\ m = IF j < i THEN j ELSE j - 1
         /\ \A m \in DOMAIN queue' :
              \E j \in DOMAIN queue : queue'[m] = queue[j] /\ j = IF m < i THEN m ELSE m + 1
         /\ DOMAIN queue \subseteq Nat /\ DOMAIN queue' \subseteq Nat
PROOF
<1>1. /\ queue[i].op = op /\ queue' = RemoveAt(queue, i)
      /\ \A j \in 1..(i - 1) : queue[j].nested # queue[i].nested
  BY DEF TakeFunction
<1>2. DOMAIN queue = 1..Len(queue) /\ Len(queue) \in Nat
  BY LenProperties
<1>3. /\ queue' \in Seq(Task) /\ DOMAIN queue' = 1..(Len(queue) - 1)
      /\ \A j \in 1..(Len(queue) - 1) : queue'[j] = IF j < i THEN queue[j] ELSE queue[j + 1]
  <2>1. /\ queue' \in Seq(Task) /\ Len(queue') = Len(queue) - 1
        /\ \A j \in 1..(Len(queue) - 1) : queue'[j] = IF j < i THEN queue[j] ELSE queue[j + 1]
    BY <1>1, <1>2, Removed
  <2> QED BY <2>1, LenProperties
<1>4. ASSUME NEW j \in DOMAIN queue, j # i
      PROVE  \E m \in DOMAIN queue' : queue'[m] = queue[j] /\ m = IF j < i THEN j ELSE j - 1
  <2>1. CASE j < i
    BY <1>2, <1>3, <2>1
  <2>2. CASE ~(j < i)
    <3>1. j - 1 \in 1..(Len(queue) - 1) /\ ~(j - 1 < i) /\ (j - 1) + 1 = j
      BY <1>2, <1>4, <2>2
    <3> QED BY <1>3, <2>2, <3>1
  <2> QED BY <2>1, <2>2
<1>5. ASSUME NEW m \in DOMAIN queue'
      PROVE  \E j \in DOMAIN queue : queue'[m] = queue[j] /\ j = IF m < i THEN m ELSE m + 1
  BY <1>2, <1>3
<1>6. \A j \in DOMAIN queue : j < i => queue[j].nested # queue[i].nested
  BY <1>1, <1>2
<1>7. queue[i] \in Task /\ DOMAIN queue \subseteq Nat /\ DOMAIN queue' \subseteq Nat
  BY <1>2, <1>3
<1> QED BY <1>1, <1>3, <1>4, <1>5, <1>6, <1>7

\* A registration that is taken must have reached the table, or be about to.
LEMMA OwedTaken ==
  ASSUME OwedComing, queue \in Seq(Task), NEW i \in DOMAIN queue, NEW op, TakeFunction(i, op),
         \A e \in Event : Reached[e] \subseteq Reached'[e],
         op = "add" => queue[i].reg \in Reached'[queue[i].event]
  PROVE  OwedComing'
PROOF
<1>1. /\ queue[i].op = op /\ queue \in Seq(Task)
      /\ \A j \in DOMAIN queue : j # i =>
           \E m \in DOMAIN queue' : queue'[m] = queue[j] /\ m = IF j < i THEN j ELSE j - 1
      /\ \A m \in DOMAIN queue' :
           \E j \in DOMAIN queue : queue'[m] = queue[j] /\ j = IF m < i THEN m ELSE m + 1
      /\ DOMAIN queue \subseteq Nat /\ DOMAIN queue' \subseteq Nat
  BY TakePlaces
<1> SUFFICES ASSUME NEW m \in DOMAIN queue', queue'[m].op = "emit", NEW x \in queue'[m].owed
             PROVE  (\/ x \in Reached[queue[m].event]
                     \/ \E j \in DOMAIN queue :
                          j < m /\ AddOf(queue[j], x, queue[m].event, queue[m].nested))'
  BY DEF OwedComing
<1>2. PICK k \in DOMAIN queue : queue'[m] = queue[k] /\ k = IF m < i THEN m ELSE m + 1
  BY <1>1
<1>3. queue[k].event \in Event
  <2>1. queue[k] \in Task
    BY <1>1
  <2> QED BY <2>1 DEF Task, AddTask, EmitTask
<1>4. CASE x \in Reached[queue[k].event]
  BY <1>2, <1>3, <1>4
<1>5. ASSUME NEW j \in DOMAIN queue, j < k, AddOf(queue[j], x, queue[k].event, queue[k].nested)
      PROVE  (\/ x \in Reached[queue[m].event]
              \/ \E n \in DOMAIN queue :
                   n < m /\ AddOf(queue[n], x, queue[m].event, queue[m].nested))'
  <2>1. CASE j = i
    BY <1>1, <1>2, <1>5, <2>1 DEF AddOf
  <2>2. CASE j # i
    <3>1. PICK n \in DOMAIN queue' : queue'[n] = queue[j] /\ n = IF j < i THEN j ELSE j - 1
      BY <1>1, <2>2
    <3>2. n < m
      BY <1>1, <1>2, <1>5, <2>2, <3>1
    <3> QED BY <1>2, <1>5, <3>1, <3>2
  <2> QED BY <2>1, <2>2
<1>6. \/ x \in Reached[queue[k].event]
      \/ \E j \in DOMAIN queue : j < k /\ AddOf(queue[j], x, queue[k].event, queue[k].nested)
  BY <1>2 DEF OwedComing
<1> QED BY <1>4, <1>5, <1>6

LEMMA InsertLockKeeps == CenterInv /\ InsertLock => CenterInv'
PROOF
<1> SUFFICES ASSUME CenterInv, InsertLock PROVE CenterInv'
  OBVIOUS
<1>0. /\ CenterTypeOK /\ Numbered /\ CallsKnown /\ Notifier \in Thread
      /\ UNCHANGED <<lastListener, listenersList, handle, called, owed, removing, added>>
  BY DEF CenterInv, InsertLock, emitVars, auxVars, Thread
<1>1. PICK i \in DOMAIN queue :
             /\ TakeFunction(i, "add") /\ Goto(Notifier, "idle", "insert")
             /\ call' = [call EXCEPT ![Notifier] =
                           [op |-> "insert", task |-> queue[i], list |-> listenersList]]
  BY DEF InsertLock
<1>2. /\ DOMAIN pc' = Thread /\ pc[Notifier] = "idle" /\ pc'[Notifier] = "insert"
      /\ \A u \in Thread : u # Notifier => pc'[u] = pc[u]
  BY <1>0, <1>1, GotoSets DEF CenterTypeOK
<1>3. /\ DOMAIN call' = Thread
      /\ call'[Notifier].task = queue[i] /\ call'[Notifier].list = listenersList
      /\ \A u \in Thread : u # Notifier => call'[u] = call[u]
  BY <1>0, <1>1, CallSets DEF CenterTypeOK
<1>4. /\ queue' \in Seq(Task) /\ queue[i].op = "add" /\ queue[i] \in Task
      /\ \A j \in DOMAIN queue : j # i => \E m \in DOMAIN queue' : queue'[m] = queue[j]
  BY <1>0, <1>1, TakePlaces DEF CenterTypeOK
<1>5. queue[i] \in AddTask
  BY <1>4 DEF Task, AddTask, EmitTask
<1>6. CenterTypeOK' /\ Numbered'
  BY <1>0, <1>2, <1>3, <1>4 DEF CenterTypeOK, Numbered
<1>7. CallsKnown'
  BY <1>0, <1>2, <1>3, <1>5, CallsStay
<1>8. ASSUME removing = {} PROVE TableOwned' /\ OwedComing' /\ AddedComing' /\ OwedCalled'
  <2>0. TableOwned /\ OwedComing /\ AddedComing /\ OwedCalled
    BY <1>8 DEF CenterInv
  <2>1. \A f \in Event : Reached[f] \subseteq Reached'[f]
    BY <1>0, <1>2, ReachedSame
  <2>2. queue[i].event \in Event /\ queue[i].reg \in Reached'[queue[i].event]
    BY <1>2, <1>3, <1>5 DEF Reached, AddTask, AddOf
  <2>3. TableOwned'
    BY <1>0, <1>3, <2>0 DEF TableOwned
  <2>4. OwedComing'
    BY <1>0, <1>1, <2>0, <2>1, <2>2, OwedTaken DEF CenterTypeOK
  <2>5. InProgress \subseteq InProgress'
    BY <1>0, <1>2, <1>3 DEF InProgress
  <2>6. AddedComing'
    <3> SUFFICES ASSUME NEW x \in added
                 PROVE  (\/ x \in InProgress
                         \/ x.reg \in Reached[x.event]
                         \/ \E j \in DOMAIN queue : AddOf(queue[j], x.reg, x.event, x.nested))'
      BY <1>0 DEF AddedComing
    <3>1. x.event \in Event
      BY <1>0 DEF CenterTypeOK, Registration
    <3>2. CASE x \in InProgress \/ x.reg \in Reached[x.event]
      BY <2>1, <2>5, <3>1, <3>2
    <3>3. ASSUME NEW j \in DOMAIN queue, AddOf(queue[j], x.reg, x.event, x.nested)
          PROVE  \/ x.reg \in Reached'[x.event]
                 \/ \E m \in DOMAIN queue' : AddOf(queue'[m], x.reg, x.event, x.nested)
      <4>1. CASE j = i
        BY <2>2, <3>3, <4>1 DEF AddOf
      <4>2. CASE j # i
        BY <1>4, <3>3, <4>2
      <4> QED BY <4>1, <4>2
    <3> QED BY <2>0, <3>2, <3>3 DEF AddedComing
  <2>7. OwedCalled'
    BY <1>0, <2>0 DEF OwedCalled
  <2> QED BY <2>3, <2>4, <2>6, <2>7
<1> QED BY <1>0, <1>6, <1>7, <1>8 DEF CenterInv

LEMMA InsertKeeps == CenterInv /\ Insert => CenterInv'
PROOF
<1> SUFFICES ASSUME CenterInv, Insert PROVE CenterInv'
  OBVIOUS
<1> DEFINE task == call[Notifier].task
           new == [reg |-> task.reg, event |-> task.event, id |-> task.id]
<1>0. /\ CenterTypeOK /\ Numbered /\ CallsKnown /\ Notifier \in Thread
      /\ Goto(Notifier, "insert", "idle")
      /\ UNCHANGED <<lastListener, queue, call, handle, called, owed, removing, added>>
  BY DEF CenterInv, Insert, emitVars, auxVars, Thread
<1>1. listenersList' = [call[Notifier].list EXCEPT ![task.event] = @ \cup {new}]
  BY DEF Insert
<1>2. /\ DOMAIN pc' = Thread /\ pc[Notifier] = "insert" /\ pc'[Notifier] = "idle"
      /\ \A u \in Thread : u # Notifier => pc'[u] = pc[u]
  BY <1>0, GotoSets DEF CenterTypeOK
<1>3. CenterTypeOK' /\ Numbered'
  BY <1>0, <1>2 DEF CenterTypeOK, Numbered
<1>4. CallsKnown'
  BY <1>0, <1>2, CallsStay
<1>5. ASSUME removing = {} PROVE TableOwned' /\ OwedComing' /\ AddedComing' /\ OwedCalled'
  <2>0. TableOwned /\ OwedComing /\ AddedComing /\ OwedCalled
    BY <1>5 DEF CenterInv
  <2>1. task.event \in Event /\ new.reg = task.reg
    BY <1>0, <1>2 DEF CallsKnown, AddTask
  <2> HIDE DEF new
  <2>2. listenersList' = [listenersList EXCEPT ![task.event] = @ \cup {new}]
    BY <1>1, <1>2, <2>0 DEF TableOwned
  <2>3. /\ DOMAIN listenersList' = Event
        /\ listenersList'[task.event] = listenersList[task.event] \cup {new}
        /\ \A f \in Event : listenersList[f] \subseteq listenersList'[f]
    BY <2>0, <2>1, <2>2 DEF TableOwned
  <2>4. \A f \in Event : Reached[f] \subseteq Reached'[f]
    <3> SUFFICES ASSUME NEW f \in Event, NEW x \in Reached[f] PROVE x \in Reached'[f]
      OBVIOUS
    <3>1. x \in Nat
      BY DEF Reached
    <3>2. \/ \E r \in listenersList[f] : r.reg = x
          \/ task.event = f /\ task.reg = x
      BY DEF Reached, AddOf
    <3>3. \E r \in listenersList'[f] : r.reg = x
      BY <2>1, <2>3, <3>2
    <3> QED BY <3>1, <3>3 DEF Reached
  <2>5. TableOwned'
    BY <1>2, <2>3 DEF TableOwned
  <2>6. OwedComing'
    BY <1>0, <2>0, <2>4, OwedStays DEF CenterTypeOK
  <2>7. InProgress \subseteq InProgress'
    BY <1>0, <1>2 DEF InProgress
  <2>8. AddedComing'
    BY <1>0, <2>0, <2>4, <2>7, AddedStays DEF CenterTypeOK
  <2>9. OwedCalled'
    BY <1>0, <2>0 DEF OwedCalled
  <2> QED BY <2>5, <2>6, <2>8, <2>9
<1> QED BY <1>0, <1>3, <1>4, <1>5 DEF CenterInv

LEMMA EmitCopyKeeps == CenterInv /\ EmitCopy => CenterInv'
PROOF
<1> SUFFICES ASSUME CenterInv, EmitCopy PROVE CenterInv'
  OBVIOUS
<1>0. /\ CenterTypeOK /\ Numbered /\ CallsKnown /\ Notifier \in Thread
      /\ UNCHANGED <<lastListener, listenersList, call, removing, added>>
  BY DEF CenterInv, EmitCopy, auxVars, Thread
<1>1. PICK i \in DOMAIN queue :
             /\ TakeFunction(i, "emit") /\ called' = {}
             /\ handle' = listenersList[queue[i].event] /\ owed' = queue[i].owed
             /\ Goto(Notifier, "idle", IF handle' = {} THEN "idle" ELSE "calling")
  BY DEF EmitCopy
<1>2. /\ DOMAIN pc' = Thread /\ pc[Notifier] = "idle" /\ pc'[Notifier] \in {"idle", "calling"}
      /\ \A u \in Thread : u # Notifier => pc'[u] = pc[u]
  BY <1>0, <1>1, GotoSets DEF CenterTypeOK
<1>3. /\ queue' \in Seq(Task) /\ queue[i].op = "emit" /\ queue[i] \in Task
      /\ \A j \in DOMAIN queue : j < i => queue[j].nested # queue[i].nested
      /\ \A j \in DOMAIN queue : j # i => \E m \in DOMAIN queue' : queue'[m] = queue[j]
  BY <1>0, <1>1, TakePlaces DEF CenterTypeOK
<1>4. CenterTypeOK' /\ Numbered'
  BY <1>0, <1>2, <1>3 DEF CenterTypeOK, Numbered
<1>5. CallsKnown'
  BY <1>0, <1>2, CallsStay
<1>6. ASSUME removing = {} PROVE TableOwned' /\ OwedComing' /\ AddedComing' /\ OwedCalled'
  <2>0. TableOwned /\ OwedComing /\ AddedComing /\ OwedCalled
    BY <1>6 DEF CenterInv
  <2>1. \A f \in Event : Reached[f] \subseteq Reached'[f]
    BY <1>0, <1>2, ReachedSame
  <2>2. TableOwned'
    BY <1>0, <1>2, <2>0 DEF TableOwned
  <2>3. OwedComing'
    BY <1>0, <1>1, <2>0, <2>1, OwedTaken DEF CenterTypeOK
  <2>4. InProgress \subseteq InProgress'
    BY <1>0, <1>2 DEF InProgress
  <2>5. AddedComing'
    <3> SUFFICES ASSUME NEW x \in added
                 PROVE  (\/ x \in InProgress
                         \/ x.reg \in Reached[x.event]
                         \/ \E j \in DOMAIN queue : AddOf(queue[j], x.reg, x.event, x.nested))'
      BY <1>0 DEF AddedComing
    <3>1. x.event \in Event
      BY <1>0 DEF CenterTypeOK, Registration
    <3>2. ASSUME NEW j \in DOMAIN queue, AddOf(queue[j], x.reg, x.event, x.nested)
          PROVE  \E m \in DOMAIN queue' : AddOf(queue'[m], x.reg, x.event, x.nested)
      <4>1. j # i
        BY <1>3, <3>2 DEF AddOf
      <4> QED BY <1>3, <3>2, <4>1
    <3> QED BY <2>0, <2>1, <2>4, <3>1, <3>2 DEF AddedComing
  <2>6. OwedCalled'
    <3> SUFFICES ASSUME NEW x \in queue[i].owed PROVE \E r \in handle' : r.reg = x
      BY <1>1 DEF OwedCalled
    <3>1. queue[i].event \in Event
      BY <1>3 DEF Task, AddTask, EmitTask
    <3>2. x \in Reached[queue[i].event]
      <4>1. \A j \in DOMAIN queue :
              ~(j < i /\ AddOf(queue[j], x, queue[i].event, queue[i].nested))
        BY <1>3 DEF AddOf
      <4> QED BY <1>3, <2>0, <4>1 DEF OwedComing
    <3> QED BY <1>1, <1>2, <3>1, <3>2 DEF Reached
  <2> QED BY <2>2, <2>3, <2>5, <2>6
<1> QED BY <1>0, <1>4, <1>5, <1>6 DEF CenterInv

\* The calls of an emit, and its end.
LEMMA EmitCallKeeps == CenterInv /\ (EmitCall \/ EmitReturn) => CenterInv'
PROOF
<1> SUFFICES ASSUME CenterInv, EmitCall \/ EmitReturn PROVE CenterInv'
  OBVIOUS
<1>0. /\ CenterTypeOK /\ Numbered /\ CallsKnown /\ Notifier \in Thread
      /\ UNCHANGED <<lastListener, listenersList, queue, call, owed, removing, added>>
  BY DEF CenterInv, EmitCall, EmitReturn, centerVars, emitVars, auxVars, Thread
<1>1. /\ DOMAIN pc' = Thread /\ pc[Notifier] = "calling" /\ pc'[Notifier] \in {"idle", "calling"}
      /\ \A u \in Thread : u # Notifier => pc'[u] = pc[u]
  <2>1. CASE EmitCall
    BY <1>0, <2>1 DEF EmitCall, CenterTypeOK
  <2>2. CASE EmitReturn
    BY <1>0, <2>2, GotoSets DEF EmitReturn, CenterTypeOK
  <2> QED BY <2>1, <2>2
<1>2. CenterTypeOK' /\ Numbered'
  BY <1>0, <1>1 DEF CenterTypeOK, Numbered
<1>3. CallsKnown'
  BY <1>0, <1>1, CallsStay
<1>4. ASSUME removing = {} PROVE TableOwned' /\ OwedComing' /\ AddedComing' /\ OwedCalled'
  <2>0. TableOwned /\ OwedComing /\ AddedComing /\ OwedCalled
    BY <1>4 DEF CenterInv
  <2>1. \A f \in Event : Reached[f] \subseteq Reached'[f]
    BY <1>0, <1>1, ReachedSame
  <2>2. TableOwned' /\ OwedComing'
    BY <1>0, <1>1, <2>0, <2>1, OwedStays DEF TableOwned, CenterTypeOK
  <2>3. InProgress \subseteq InProgress'
    BY <1>0, <1>1 DEF InProgress
  <2>4. AddedComing'
    BY <1>0, <2>0, <2>1, <2>3, AddedStays DEF CenterTypeOK
  <2>5. OwedCalled'
    <3>1. CASE EmitCall
      BY <1>0, <2>0, <3>1 DEF EmitCall, OwedCalled
    <3>2. CASE EmitReturn
      BY <1>0, <2>0, <3>2 DEF EmitReturn, OwedCalled, emitVars
    <3> QED BY <3>1, <3>2
  <2> QED BY <2>2, <2>4, <2>5
<1> QED BY <1>0, <1>2, <1>3, <1>4 DEF CenterInv

-----------------------------------------------------------------------------

LEMMA CenterInit == Init => CenterInv
<1> SUFFICES ASSUME Init PROVE CenterInv
  OBVIOUS
<1>1. /\ lastListener = 0 /\ listenersList = [e \in Event |-> {}] /\ queue = <<>>
      /\ pc = [t \in Thread |-> "idle"] /\ call = [t \in Thread |-> <<>>]
      /\ owed = {} /\ added = {} /\ Notifier \in Thread
  BY DEF Init, Thread
<1>2. CenterTypeOK
  <2>1. queue \in Seq(Task) /\ IsFiniteSet(added)
    BY <1>1, FS_EmptySet
  <2> QED BY <1>1, <2>1 DEF CenterTypeOK
<1>3. Numbered /\ CallsKnown
  BY <1>1 DEF Numbered, CallsKnown
<1>4. TableOwned /\ OwedComing /\ AddedComing /\ OwedCalled
  BY <1>1 DEF TableOwned, OwedComing, AddedComing, OwedCalled
<1> QED BY <1>2, <1>3, <1>4 DEF CenterInv

LEMMA CenterStep == CenterInv /\ [Next]_vars => CenterInv'
<1> SUFFICES ASSUME CenterInv, [Next]_vars PROVE CenterInv'
  OBVIOUS
<1>0. Notifier \in Thread /\ Client \subseteq Thread
  BY DEF Thread
<1>1. CASE \E t \in Thread : Request(t)
  BY <1>1, AddListenerKeeps, EmitKeeps, RemoveKeeps DEF Request
<1>2. ASSUME NEW t \in Thread, CallStep(t) PROVE CenterInv'
  BY <1>2, AddLockKeeps, AddQueueKeeps, RemoveKeeps DEF CallStep
<1>3. CASE NotifierStep
  BY <1>0, <1>2, <1>3, InsertLockKeeps, InsertKeeps, EmitCopyKeeps, EmitCallKeeps
  DEF NotifierStep
<1>4. CASE UNCHANGED vars
  <2>1. UNCHANGED <<lastListener, listenersList, queue, pc, call, handle, called, owed,
                    removing, added>>
    BY <1>4 DEF vars, centerVars, emitVars, auxVars
  <2>2. CenterTypeOK' /\ Numbered' /\ CallsKnown'
    BY <2>1 DEF CenterInv, CenterTypeOK, Numbered, CallsKnown
  <2>3. Reached' = Reached /\ InProgress' = InProgress
    BY <2>1 DEF Reached, InProgress
  <2>4. removing = {} => TableOwned' /\ OwedComing' /\ AddedComing' /\ OwedCalled'
    BY <2>1, <2>3 DEF CenterInv, TableOwned, OwedComing, AddedComing, OwedCalled
  <2> QED BY <2>1, <2>2, <2>4 DEF CenterInv
<1> QED BY <1>0, <1>1, <1>2, <1>3, <1>4 DEF Next

LEMMA CenterInvariant == Spec => []CenterInv
<1> QED BY CenterInit, CenterStep, PTL DEF Spec

(***************************************************************************)
(* Whatever threads add and emit at the same time, inside callbacks or     *)
(* outside: until the first removal, an emit calls every listener whose    *)
(* addListener had returned before, inside or outside as well              *)
(* (addlistenerHandler and dispatchHandler, NotificationCenter.h:108-121   *)
(* and 133-150).                                                           *)
(***************************************************************************)
THEOREM DeliveryHolds == Spec => []DeliveryComplete
<1>1. CenterInv => DeliveryComplete
  BY DEF CenterInv, OwedCalled, DeliveryComplete
<1> QED BY <1>1, CenterInvariant, PTL

=============================================================================
