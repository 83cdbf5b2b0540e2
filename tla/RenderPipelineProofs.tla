------------------------ MODULE RenderPipelineProofs ------------------------
(***************************************************************************)
(* Proofs about RenderPipeline, for any set of layers, any set of worker   *)
(* threads and any bounds.                                                 *)
(***************************************************************************)
EXTENDS RenderPipeline, TLAPS

-----------------------------------------------------------------------------
(* Type correctness.                                                       *)

LEMMA InitType == Init => TypeOK
PROOF
<1> SUFFICES ASSUME Init PROVE TypeOK
  OBVIOUS
<1>1. pc = [t \in Thread |-> "idle"]
  BY DEF Init, MountingInit
<1>2. /\ pc \in [Thread -> MainPc \cup JSPc \cup EventsPc]
      /\ pc[Main] \in MainPc /\ pc[JS] \in JSPc /\ pc[Events] \in EventsPc
      /\ \A w \in Worker : pc[w] \in WorkerPc
  BY <1>1, ThreadAssumption DEF MainPc, JSPc, EventsPc, WorkerPc
<1>3. tasks \in Seq(Task) /\ lost \subseteq Task
  BY DEF Init
<1>4. /\ running \in BOOLEAN /\ needsResize \in BOOLEAN /\ windowContext \in BOOLEAN
      /\ transactionInFlight \in BOOLEAN /\ followUpTransactionRequired \in BOOLEAN
  BY BoundAssumption DEF Init, CompositorInit, MountingInit
<1>5. /\ committed \in 0..MaxCommits /\ pulled \in 0..committed
      /\ commands \in 0..MaxCommands
      /\ updates \in 0..MaxUpdates /\ resizes \in 0..MaxResizes
  BY BoundAssumption DEF Init, MountingInit
<1>6. /\ isMutating \in Thread \cup {NoThread}
      /\ update \in {"Idle", "Scheduled"}
      /\ invalid \subseteq Layer /\ surfaceDamage \subseteq Layer /\ stale \subseteq Layer
      /\ mutations \subseteq Layer
  BY DEF Init, CompositorInit, MountingInit
<1> QED
  BY <1>2, <1>3, <1>4, <1>5, <1>6 DEF TypeOK

\* What dispatch() does to the queue.
LEMMA DispatchType ==
  ASSUME tasks \in Seq(Task), lost \subseteq Task, NEW task \in Task, Dispatch(task)
  PROVE  tasks' \in Seq(Task) /\ lost' \subseteq Task
PROOF
<1>1. CASE running
  BY <1>1 DEF Dispatch
<1>2. CASE ~running
  BY <1>2 DEF Dispatch
<1> QED BY <1>1, <1>2

LEMMA NextType == TypeOK /\ [Next]_vars => TypeOK'
PROOF
<1> SUFFICES ASSUME TypeOK, [Next]_vars PROVE TypeOK'
  OBVIOUS
<1> USE ThreadAssumption, BoundAssumption
    DEF TypeOK, MainPc, JSPc, EventsPc, WorkerPc, PerformPc, RenderPc, ClientPc, Task
<1> USE DEF Goto, taskLoopVars, compositorVars, treeVars, mountingVars, flagVars
<1>1. CASE Request
  <2>1. CASE CommitRevision /\ UNCHANGED <<updates, resizes>>
    BY <2>1 DEF CommitRevision
  <2>2. CASE SchedulerDidDispatchCommand /\ UNCHANGED <<updates, resizes>>
    BY <2>2, DispatchType DEF SchedulerDidDispatchCommand
  <2>3. ASSUME NEW w \in Worker, WorkerUpdate(w) PROVE TypeOK'
    BY <2>3 DEF WorkerUpdate, ClientBegin, Begin
  <2> QED BY <1>1, <2>1, <2>2, <2>3 DEF Request
<1>2. CASE JSStep
  <2>1. CASE CheckInFlight /\ UNCHANGED <<updates, resizes>>
    BY <2>1 DEF CheckInFlight
  <2>2. CASE SetFollowUp /\ UNCHANGED <<updates, resizes>>
    BY <2>2 DEF SetFollowUp
  <2>3. CASE SetInFlight /\ UNCHANGED <<updates, resizes>>
    BY <2>3 DEF SetInFlight
  <2>4. CASE DispatchPerform /\ UNCHANGED <<updates, resizes>>
    BY <2>4, DispatchType DEF DispatchPerform
  <2> QED BY <1>2, <2>1, <2>2, <2>3, <2>4 DEF JSStep
<1>3. CASE PerformTransaction /\ UNCHANGED <<updates, resizes>>
  <2>1. CASE StartPerform
    BY <1>3, <2>1 DEF StartPerform, TakeTask
  <2>2. CASE ResetFollowUp
    BY <1>3, <2>2 DEF ResetFollowUp
  <2>3. CASE RaiseInFlight
    BY <1>3, <2>3 DEF RaiseInFlight
  <2>4. CASE PullTransaction
    BY <1>3, <2>4 DEF PullTransaction
  <2>5. CASE BeginTransaction
    BY <1>3, <2>5 DEF BeginTransaction, Begin
  <2>6. CASE ProcessMutation
    BY <1>3, <2>6 DEF ProcessMutation, ChangeLayer
  <2>7. CASE CommitTransaction
    BY <1>3, <2>7 DEF CommitTransaction, CommitPrePaint, PrePaint
  <2>8. CASE PaintTransaction
    BY <1>3, <2>8 DEF PaintTransaction, CommitPaint, Paint, Unlock
  <2>9. CASE ClearInFlight
    BY <1>3, <2>9 DEF ClearInFlight
  <2>10. CASE CheckFollowUp
    BY <1>3, <2>10 DEF CheckFollowUp
  <2> QED BY <1>3, <2>1, <2>2, <2>3, <2>4, <2>5, <2>6, <2>7, <2>8, <2>9, <2>10 DEF PerformTransaction
<1>4. CASE MainTasks
  <2>1. CASE StartCommand
    BY <2>1 DEF StartCommand, TakeTask
  <2>2. CASE BeginCommand
    BY <2>2 DEF BeginCommand, ClientBegin, Begin
  <2>3. CASE StartRender
    BY <2>3 DEF StartRender, TakeTask
  <2>4. CASE LockScheduledRender
    BY <2>4 DEF LockScheduledRender, RenderLock
  <2>5. CASE PrePaintScheduledRender
    BY <2>5 DEF PrePaintScheduledRender, RenderPrePaint, PrePaint
  <2>6. CASE PaintScheduledRender
    BY <2>6 DEF PaintScheduledRender, RenderPaint, Paint
  <2>7. CASE FinishScheduledRender
    BY <2>7 DEF FinishScheduledRender, RenderDone, Unlock
  <2> QED BY <1>4, <2>1, <2>2, <2>3, <2>4, <2>5, <2>6, <2>7 DEF MainTasks
<1>5. ASSUME NEW t \in Worker \cup {Main}, ClientSteps(t) PROVE TypeOK'
  <2>1. CASE ClientChange(t)
    BY <1>5, <2>1 DEF ClientChange, ChangeLayer
  <2>2. CASE ClientFlush(t)
    BY <1>5, <2>2 DEF ClientFlush, CommitScheduled, NeedsDispatch, Unlock
  <2>3. CASE ClientDispatch(t)
    BY <1>5, <2>3, DispatchType DEF ClientDispatch
  <2> QED BY <1>5, <2>1, <2>2, <2>3 DEF ClientSteps
<1>6. CASE EnterLoop
  BY <1>6 DEF EnterLoop, Run
<1>7. CASE UNCHANGED vars
  BY <1>7 DEF vars
<1> QED BY <1>1, <1>2, <1>3, <1>4, <1>5, <1>6, <1>7 DEF Next, MainStep

\* The program counters, the queue and every other variable keep their type,
\* in particular the update state, which is never InProgress.
THEOREM TypeCorrect == Spec => []TypeOK
PROOF
<1>1. Init => TypeOK
  BY InitType
<1>2. TypeOK /\ [Next]_vars => TypeOK'
  BY NextType
<1> QED BY <1>1, <1>2, PTL DEF Spec

-----------------------------------------------------------------------------
(* Mutual exclusion, and what it buys: no damage is lost.                  *)

\* The inductive form of mutual exclusion: a thread in a critical section is
\* the one that locked the mutex last.
LockHeld == \A t \in Thread : pc[t] \in CriticalPc => isMutating = t

LEMMA NextLock == TypeOK /\ LockHeld /\ [Next]_vars => LockHeld'
PROOF
<1> SUFFICES ASSUME TypeOK, LockHeld, [Next]_vars PROVE LockHeld'
  OBVIOUS
<1> USE ThreadAssumption
    DEF TypeOK, LockHeld, CriticalPc, MainPc, JSPc, EventsPc, WorkerPc, PerformPc, RenderPc, ClientPc
<1> USE DEF Goto, taskLoopVars, compositorVars, treeVars, mountingVars, flagVars
<1>1. CASE Request
  <2>1. CASE CommitRevision /\ UNCHANGED <<updates, resizes>>
    BY <2>1 DEF CommitRevision
  <2>2. CASE SchedulerDidDispatchCommand /\ UNCHANGED <<updates, resizes>>
    BY <2>2 DEF SchedulerDidDispatchCommand, Dispatch
  <2>3. ASSUME NEW w \in Worker, WorkerUpdate(w) PROVE LockHeld'
    BY <2>3 DEF WorkerUpdate, ClientBegin, Begin
  <2> QED BY <1>1, <2>1, <2>2, <2>3 DEF Request
<1>2. CASE JSStep
  <2>1. CASE CheckInFlight /\ UNCHANGED <<updates, resizes>>
    BY <2>1 DEF CheckInFlight
  <2>2. CASE SetFollowUp /\ UNCHANGED <<updates, resizes>>
    BY <2>2 DEF SetFollowUp
  <2>3. CASE SetInFlight /\ UNCHANGED <<updates, resizes>>
    BY <2>3 DEF SetInFlight
  <2>4. CASE DispatchPerform /\ UNCHANGED <<updates, resizes>>
    BY <2>4 DEF DispatchPerform, Dispatch
  <2> QED BY <1>2, <2>1, <2>2, <2>3, <2>4 DEF JSStep
<1>3. CASE PerformTransaction /\ UNCHANGED <<updates, resizes>>
  <2>1. CASE StartPerform
    BY <1>3, <2>1 DEF StartPerform, TakeTask
  <2>2. CASE ResetFollowUp
    BY <1>3, <2>2 DEF ResetFollowUp
  <2>3. CASE RaiseInFlight
    BY <1>3, <2>3 DEF RaiseInFlight
  <2>4. CASE PullTransaction
    BY <1>3, <2>4 DEF PullTransaction
  <2>5. CASE BeginTransaction
    BY <1>3, <2>5 DEF BeginTransaction, Begin
  <2>6. CASE ProcessMutation
    BY <1>3, <2>6 DEF ProcessMutation, ChangeLayer
  <2>7. CASE CommitTransaction
    BY <1>3, <2>7 DEF CommitTransaction, CommitPrePaint, PrePaint
  <2>8. CASE PaintTransaction
    BY <1>3, <2>8 DEF PaintTransaction, CommitPaint, Paint, Unlock
  <2>9. CASE ClearInFlight
    BY <1>3, <2>9 DEF ClearInFlight
  <2>10. CASE CheckFollowUp
    BY <1>3, <2>10 DEF CheckFollowUp
  <2> QED BY <1>3, <2>1, <2>2, <2>3, <2>4, <2>5, <2>6, <2>7, <2>8, <2>9, <2>10 DEF PerformTransaction
<1>4. CASE MainTasks
  <2>1. CASE StartCommand
    BY <2>1 DEF StartCommand, TakeTask
  <2>2. CASE BeginCommand
    BY <2>2 DEF BeginCommand, ClientBegin, Begin
  <2>3. CASE StartRender
    BY <2>3 DEF StartRender, TakeTask
  <2>4. CASE LockScheduledRender
    BY <2>4 DEF LockScheduledRender, RenderLock
  <2>5. CASE PrePaintScheduledRender
    BY <2>5 DEF PrePaintScheduledRender, RenderPrePaint, PrePaint
  <2>6. CASE PaintScheduledRender
    BY <2>6 DEF PaintScheduledRender, RenderPaint, Paint
  <2>7. CASE FinishScheduledRender
    BY <2>7 DEF FinishScheduledRender, RenderDone, Unlock
  <2> QED BY <1>4, <2>1, <2>2, <2>3, <2>4, <2>5, <2>6, <2>7 DEF MainTasks
<1>5. ASSUME NEW t \in Worker \cup {Main}, ClientSteps(t) PROVE LockHeld'
  <2>1. CASE ClientChange(t)
    BY <1>5, <2>1 DEF ClientChange, ChangeLayer
  <2>2. CASE ClientFlush(t)
    BY <1>5, <2>2 DEF ClientFlush, CommitScheduled, NeedsDispatch, Unlock
  <2>3. CASE ClientDispatch(t)
    BY <1>5, <2>3 DEF ClientDispatch, Dispatch
  <2> QED BY <1>5, <2>1, <2>2, <2>3 DEF ClientSteps
<1>6. CASE EnterLoop
  BY <1>6 DEF EnterLoop, Run
<1>7. CASE UNCHANGED vars
  BY <1>7 DEF vars
<1> QED BY <1>1, <1>2, <1>3, <1>4, <1>5, <1>6, <1>7 DEF Next, MainStep

LEMMA NextDamage == TypeOK /\ LockHeld /\ DamageKept /\ [Next]_vars => DamageKept'
PROOF
<1> SUFFICES ASSUME TypeOK, LockHeld, DamageKept, [Next]_vars PROVE DamageKept'
  OBVIOUS
<1> USE ThreadAssumption
    DEF TypeOK, LockHeld, DamageKept, CriticalPc, JSPc, WorkerPc, ClientPc
<1> USE DEF Goto, taskLoopVars, compositorVars, treeVars, mountingVars, flagVars
<1>1. CASE Request
  <2>1. CASE CommitRevision /\ UNCHANGED <<updates, resizes>>
    BY <2>1 DEF CommitRevision
  <2>2. CASE SchedulerDidDispatchCommand /\ UNCHANGED <<updates, resizes>>
    BY <2>2 DEF SchedulerDidDispatchCommand, Dispatch
  <2>3. ASSUME NEW w \in Worker, WorkerUpdate(w) PROVE DamageKept'
    BY <2>3 DEF WorkerUpdate, ClientBegin, Begin
  <2> QED BY <1>1, <2>1, <2>2, <2>3 DEF Request
<1>2. CASE JSStep
  <2>1. CASE CheckInFlight /\ UNCHANGED <<updates, resizes>>
    BY <2>1 DEF CheckInFlight
  <2>2. CASE SetFollowUp /\ UNCHANGED <<updates, resizes>>
    BY <2>2 DEF SetFollowUp
  <2>3. CASE SetInFlight /\ UNCHANGED <<updates, resizes>>
    BY <2>3 DEF SetInFlight
  <2>4. CASE DispatchPerform /\ UNCHANGED <<updates, resizes>>
    BY <2>4 DEF DispatchPerform, Dispatch
  <2> QED BY <1>2, <2>1, <2>2, <2>3, <2>4 DEF JSStep
<1>3. CASE PerformTransaction /\ UNCHANGED <<updates, resizes>>
  <2>1. CASE StartPerform
    BY <1>3, <2>1 DEF StartPerform, TakeTask
  <2>2. CASE ResetFollowUp
    BY <1>3, <2>2 DEF ResetFollowUp
  <2>3. CASE RaiseInFlight
    BY <1>3, <2>3 DEF RaiseInFlight
  <2>4. CASE PullTransaction
    BY <1>3, <2>4 DEF PullTransaction
  <2>5. CASE BeginTransaction
    BY <1>3, <2>5 DEF BeginTransaction, Begin
  <2>6. CASE ProcessMutation
    BY <1>3, <2>6 DEF ProcessMutation, ChangeLayer
  <2>7. CASE CommitTransaction
    BY <1>3, <2>7 DEF CommitTransaction, CommitPrePaint, PrePaint
  <2>8. CASE PaintTransaction
    BY <1>3, <2>8 DEF PaintTransaction, CommitPaint, Paint, Unlock
  <2>9. CASE ClearInFlight
    BY <1>3, <2>9 DEF ClearInFlight
  <2>10. CASE CheckFollowUp
    BY <1>3, <2>10 DEF CheckFollowUp
  <2> QED BY <1>3, <2>1, <2>2, <2>3, <2>4, <2>5, <2>6, <2>7, <2>8, <2>9, <2>10 DEF PerformTransaction
<1>4. CASE MainTasks
  <2>1. CASE StartCommand
    BY <2>1 DEF StartCommand, TakeTask
  <2>2. CASE BeginCommand
    BY <2>2 DEF BeginCommand, ClientBegin, Begin
  <2>3. CASE StartRender
    BY <2>3 DEF StartRender, TakeTask
  <2>4. CASE LockScheduledRender
    BY <2>4 DEF LockScheduledRender, RenderLock
  <2>5. CASE PrePaintScheduledRender
    BY <2>5 DEF PrePaintScheduledRender, RenderPrePaint, PrePaint
  <2>6. CASE PaintScheduledRender
    BY <2>6 DEF PaintScheduledRender, RenderPaint, Paint
  <2>7. CASE FinishScheduledRender
    BY <2>7 DEF FinishScheduledRender, RenderDone, Unlock
  <2> QED BY <1>4, <2>1, <2>2, <2>3, <2>4, <2>5, <2>6, <2>7 DEF MainTasks
<1>5. ASSUME NEW t \in Worker \cup {Main}, ClientSteps(t) PROVE DamageKept'
  <2>1. CASE ClientChange(t)
    BY <1>5, <2>1 DEF ClientChange, ChangeLayer
  <2>2. CASE ClientFlush(t)
    BY <1>5, <2>2 DEF ClientFlush, CommitScheduled, NeedsDispatch, Unlock
  <2>3. CASE ClientDispatch(t)
    BY <1>5, <2>3 DEF ClientDispatch, Dispatch
  <2> QED BY <1>5, <2>1, <2>2, <2>3 DEF ClientSteps
<1>6. CASE EnterLoop
  BY <1>6 DEF EnterLoop, Run
<1>7. CASE UNCHANGED vars
  BY <1>7 DEF vars
<1> QED BY <1>1, <1>2, <1>3, <1>4, <1>5, <1>6, <1>7 DEF Next, MainStep

\* A thread in a critical section holds the mutex, so no two threads are
\* between begin() and commit() or in a rendering at the same time.
THEOREM MutualExclusion == Spec => []TreeExclusive
PROOF
<1>1. Init => LockHeld
  BY DEF Init, MountingInit, LockHeld, CriticalPc
<1>2. TypeOK /\ LockHeld /\ [Next]_vars => LockHeld'
  BY NextLock
<1>3. LockHeld => TreeExclusive
  BY DEF LockHeld, TreeExclusive
<1> QED BY <1>1, <1>2, <1>3, TypeCorrect, PTL DEF Spec

\* begin() clears the damage list and every rendering clears all the masks,
\* yet a layer that is out of date on the screen stays marked until painted.
THEOREM NoDamageLost == Spec => []DamageKept
PROOF
<1>1. Init => LockHeld /\ DamageKept
  BY DEF Init, MountingInit, CompositorInit, LockHeld, DamageKept, CriticalPc
<1>2. TypeOK /\ LockHeld /\ DamageKept /\ [Next]_vars => LockHeld' /\ DamageKept'
  BY NextLock, NextDamage
<1> QED BY <1>1, <1>2, TypeCorrect, PTL DEF Spec

-----------------------------------------------------------------------------
(* Nothing that is awaited has been forgotten, unless the main loop did    *)
(* not run when it was dispatched.                                         *)

\* A step that leaves the queue alone.
LEMMA QueueKept == tasks' = tasks => \A k \in Task : Queued(k)' <=> Queued(k)
PROOF BY DEF Queued

\* dispatch() queues the task or, before the loop runs, drops it, and it removes
\* none from the queue.
LEMMA QueueDispatched ==
  ASSUME tasks \in Seq(Task), NEW task \in Task, Dispatch(task)
  PROVE  /\ running => Queued(task)' /\ lost' = lost
         /\ ~running => lost' = lost \cup {task}
         /\ \A k \in Task : Queued(k) => Queued(k)'
PROOF
<1>1. CASE running
  <2>1. tasks' = Append(tasks, task) /\ lost' = lost
    BY <1>1 DEF Dispatch
  <2>2. /\ Len(tasks') = Len(tasks) + 1
        /\ tasks'[Len(tasks) + 1] = task
        /\ \A i \in 1..Len(tasks) : tasks'[i] = tasks[i]
    BY <2>1
  <2> QED BY <1>1, <2>1, <2>2 DEF Queued
<1>2. CASE ~running
  BY <1>2 DEF Dispatch, Queued
<1> QED BY <1>1, <1>2

\* Taking a task removes no task of another kind.
LEMMA QueueTaken ==
  ASSUME tasks \in Seq(Task), NEW task \in Task, TakeTask(task)
  PROVE  \A k \in Task \ {task} : Queued(k) => Queued(k)'
PROOF
<1> SUFFICES ASSUME NEW k \in Task \ {task}, Queued(k) PROVE Queued(k)'
  OBVIOUS
<1>1. PICK i \in DOMAIN tasks : tasks[i] = k
  BY DEF Queued
<1>2. tasks' = Tail(tasks) /\ tasks # <<>> /\ tasks[1] = task
  BY DEF TakeTask
<1>3. i \in 2..Len(tasks)
  BY <1>1, <1>2
<1>4. i - 1 \in DOMAIN tasks' /\ tasks'[i - 1] = k
  BY <1>1, <1>2, <1>3
<1> QED BY <1>4 DEF Queued

\* Before the loop runs no transaction has been performed, so that no component
\* is there that could ask for a rendering.
BeforeLoop ==
  ~running => /\ pulled = 0 /\ update = "Idle" /\ pc[Main] = "idle"
              /\ \A w \in Worker : pc[w] = "idle"

\* The inductive invariant of this section.
Backed == BeforeLoop /\ ScheduledBacked /\ InFlightBacked /\ RevisionAccounted

LEMMA NextBacked == TypeOK /\ Backed /\ [Next]_vars => Backed'
PROOF
<1> SUFFICES ASSUME TypeOK, Backed, [Next]_vars PROVE Backed'
  OBVIOUS
<1> USE ThreadAssumption, BoundAssumption
    DEF TypeOK, Backed, BeforeLoop, ScheduledBacked, InFlightBacked, TransactionComing,
        RevisionAccounted, Task,
        MainPc, JSPc, EventsPc, WorkerPc, PerformPc, RenderPc, ClientPc
<1> USE DEF Goto, taskLoopVars, compositorVars, treeVars, mountingVars, flagVars
<1>1. CASE Request
  <2>1. CASE CommitRevision /\ UNCHANGED <<updates, resizes>>
    BY <2>1, QueueKept DEF CommitRevision
  <2>2. CASE SchedulerDidDispatchCommand /\ UNCHANGED <<updates, resizes>>
    BY <2>2, QueueDispatched DEF SchedulerDidDispatchCommand
  <2>3. ASSUME NEW w \in Worker, WorkerUpdate(w) PROVE Backed'
    BY <2>3, QueueKept DEF WorkerUpdate, ClientBegin, Begin
  <2> QED BY <1>1, <2>1, <2>2, <2>3 DEF Request
<1>2. CASE JSStep
  <2>1. CASE CheckInFlight /\ UNCHANGED <<updates, resizes>>
    BY <2>1, QueueKept DEF CheckInFlight
  <2>2. CASE SetFollowUp /\ UNCHANGED <<updates, resizes>>
    BY <2>2, QueueKept DEF SetFollowUp
  <2>3. CASE SetInFlight /\ UNCHANGED <<updates, resizes>>
    BY <2>3, QueueKept DEF SetInFlight
  <2>4. CASE DispatchPerform /\ UNCHANGED <<updates, resizes>>
    BY <2>4, QueueDispatched DEF DispatchPerform
  <2> QED BY <1>2, <2>1, <2>2, <2>3, <2>4 DEF JSStep
<1>3. CASE PerformTransaction /\ UNCHANGED <<updates, resizes>>
  <2>1. CASE StartPerform
    BY <1>3, <2>1, QueueTaken DEF StartPerform, TakeTask
  <2>2. CASE ResetFollowUp
    BY <1>3, <2>2, QueueKept DEF ResetFollowUp
  <2>3. CASE RaiseInFlight
    BY <1>3, <2>3, QueueKept DEF RaiseInFlight
  <2>4. CASE PullTransaction
    BY <1>3, <2>4, QueueKept DEF PullTransaction
  <2>5. CASE BeginTransaction
    BY <1>3, <2>5, QueueKept DEF BeginTransaction, Begin
  <2>6. CASE ProcessMutation
    BY <1>3, <2>6, QueueKept DEF ProcessMutation, ChangeLayer
  <2>7. CASE CommitTransaction
    BY <1>3, <2>7, QueueKept DEF CommitTransaction, CommitPrePaint, PrePaint
  <2>8. CASE PaintTransaction
    BY <1>3, <2>8, QueueKept DEF PaintTransaction, CommitPaint, Paint, Unlock
  <2>9. CASE ClearInFlight
    BY <1>3, <2>9, QueueKept DEF ClearInFlight
  <2>10. CASE CheckFollowUp
    BY <1>3, <2>10, QueueKept DEF CheckFollowUp
  <2> QED BY <1>3, <2>1, <2>2, <2>3, <2>4, <2>5, <2>6, <2>7, <2>8, <2>9, <2>10 DEF PerformTransaction
<1>4. CASE MainTasks
  <2>1. CASE StartCommand
    BY <2>1, QueueTaken DEF StartCommand, TakeTask
  <2>2. CASE BeginCommand
    BY <2>2, QueueKept DEF BeginCommand, ClientBegin, Begin
  <2>3. CASE StartRender
    BY <2>3, QueueTaken DEF StartRender, TakeTask
  <2>4. CASE LockScheduledRender
    BY <2>4, QueueKept DEF LockScheduledRender, RenderLock
  <2>5. CASE PrePaintScheduledRender
    BY <2>5, QueueKept DEF PrePaintScheduledRender, RenderPrePaint, PrePaint
  <2>6. CASE PaintScheduledRender
    BY <2>6, QueueKept DEF PaintScheduledRender, RenderPaint, Paint
  <2>7. CASE FinishScheduledRender
    BY <2>7, QueueKept DEF FinishScheduledRender, RenderDone, Unlock
  <2> QED BY <1>4, <2>1, <2>2, <2>3, <2>4, <2>5, <2>6, <2>7 DEF MainTasks
<1>5. ASSUME NEW t \in Worker \cup {Main}, ClientSteps(t) PROVE Backed'
  <2>1. CASE ClientChange(t)
    BY <1>5, <2>1, QueueKept DEF ClientChange, ChangeLayer
  <2>2. CASE ClientFlush(t)
    BY <1>5, <2>2, QueueKept DEF ClientFlush, CommitScheduled, NeedsDispatch, Unlock
  <2>3. CASE ClientDispatch(t)
    BY <1>5, <2>3, QueueDispatched DEF ClientDispatch
  <2> QED BY <1>5, <2>1, <2>2, <2>3 DEF ClientSteps
<1>6. CASE EnterLoop
  BY <1>6, QueueKept DEF EnterLoop, Run
<1>7. CASE UNCHANGED vars
  BY <1>7, QueueKept DEF vars
<1> QED BY <1>1, <1>2, <1>3, <1>4, <1>5, <1>6, <1>7 DEF Next, MainStep

\* The invariant holds in every reachable state.
LEMMA BackedHolds == Spec => []Backed
PROOF
<1>1. Init => Backed
  <2> SUFFICES ASSUME Init PROVE Backed
    OBVIOUS
  <2>1. pc[Main] = "idle" /\ \A w \in Worker : pc[w] = "idle"
    BY ThreadAssumption DEF Init, MountingInit
  <2>2. update = "Idle" /\ transactionInFlight = FALSE /\ pulled = 0 /\ committed = 0
    BY DEF Init, CompositorInit, MountingInit
  <2> QED BY <2>1, <2>2 DEF Backed, BeforeLoop, ScheduledBacked, InFlightBacked, RevisionAccounted
<1>2. TypeOK /\ Backed /\ [Next]_vars => Backed'
  BY NextBacked
<1> QED BY <1>1, <1>2, TypeCorrect, PTL DEF Spec

\* The state Scheduled means that a rendering will come, also when JavaScript
\* runs before the loop does: commit(false) may rely on it.
THEOREM ScheduledRenderExists == Spec => []ScheduledBacked
PROOF
<1>1. Backed => ScheduledBacked
  BY DEF Backed
<1> QED BY <1>1, BackedHolds, PTL

\* transactionInFlight_ means that performTransaction will run or is running,
\* and schedulerDidFinishTransaction may rely on it, unless it was dispatched to
\* a loop that main() of shell.cpp had not entered yet.
THEOREM InFlightTransactionExists == Spec => []InFlightBacked
PROOF
<1>1. Backed => InFlightBacked
  BY DEF Backed
<1> QED BY <1>1, BackedHolds, PTL

\* With the same exception every revision that has not been pulled is on its
\* way, or remembered by followUpTransactionRequired_.
THEOREM NoRevisionForgotten == Spec => []RevisionAccounted
PROOF
<1>1. Backed => RevisionAccounted
  BY DEF Backed
<1> QED BY <1>1, BackedHolds, PTL

=============================================================================
