---------------------------- MODULE TimingModule ----------------------------
(***************************************************************************)
(* RSkTimingModule: the timers of JavaScript (setTimeout, setInterval),    *)
(* kept in the table jsTimers_ and served by one Timer that is always set  *)
(* to the next of them.  JavaScript calls createTimer and deleteTimer on   *)
(* its own thread; timerDidFire runs on the timer's thread.                *)
(*                                                                         *)
(* Neither thread is slower than the clock: time passes only when nobody   *)
(* has anything left to do.                                                *)
(***************************************************************************)
EXTENDS FollyTimer, FiniteSets, FiniteSetsExt, Functions

CONSTANTS
  Delay,         \* durations of the timers that do not repeat
  Interval,      \* durations of the timers that do
  Overhead,      \* time a createTimer call may take to reach the module
  MaxTimers,     \* bound: timers created in a behaviour
  MaxDeletes,    \* bound: timers deleted in a behaviour
  LastCreate,    \* bound: no timer is created after this time
  MaxTime        \* bound: the clock stops here

ASSUME TimingAssumption ==
  /\ MsPerSecond \in Nat \ {0} /\ MaxTime \in Nat /\ LastCreate \in 0..MaxTime
  /\ MaxTimers \in Nat /\ MaxDeletes \in Nat
  /\ Delay \subseteq Nat /\ Interval \subseteq Nat /\ Overhead \subseteq Nat

VARIABLES
  jsTimers,   \* jsTimers_: from identifiers to timers
  js,         \* the JavaScript thread: what it has still to do
  fire,       \* the timer thread: where timerDidFire is, and its locals
  created,    \* created[id] : the timer id repeats.  Identifiers are 1, 2, ...
  deleted,    \* the timers JavaScript has deleted
  calls       \* how often each timer has been handed to callTimers

vars == <<now, timer, cb, wheel, base,
          jsTimers, js, fire, created, deleted, calls>>

Id == 1..MaxTimers
Idle == [at |-> "idle"]

\* A thread that has dereferenced a null or a dangling pointer: nothing is said
\* of what it does afterwards.
Undefined == [at |-> "undefined"]

\* Timer::getFutureTime(): later than everything else.
FutureTime == 2 * MaxTime

Init ==
  /\ TimerInit
  /\ jsTimers = <<>>
  /\ js = Idle /\ fire = Idle
  /\ created = <<>> /\ deleted = {}
  /\ calls = [id \in Id |-> 0]

\* callJSFunction("JSTimers", "callTimers", ids)
CallTimers(ids) == calls' = [id \in Id |-> calls[id] + IF id \in ids THEN 1 ELSE 0]

-----------------------------------------------------------------------------
(* The JavaScript thread                                                   *)

MayCreate(repeats) ==
  /\ js = Idle /\ Len(created) < MaxTimers /\ now <= LastCreate
  /\ created' = Append(created, repeats)
  /\ timer' = TRUE

\* createTimer with duration 0, once: the callback is queued at once.
CreateImmediate ==
  /\ 0 \in Delay
  /\ MayCreate(FALSE)
  /\ ScheduleImmediate(Len(created'))
  /\ UNCHANGED <<now, cb, wheel, jsTimers, js, fire, deleted, calls>>

(***************************************************************************)
(* Any other createTimer, up to timer_->reschedule().  The timer enters    *)
(* the table in a later step, jsTimerList_ being free in between.          *)
(***************************************************************************)
CreateTimer(duration, overhead, repeats) ==
  LET targetDuration == Max({duration - overhead, 0})
  IN  /\ duration > 0 \/ repeats
      /\ MayCreate(repeats)
      /\ Reschedule(targetDuration, FALSE)
      /\ js' = [at |-> "insert", id |-> Len(created'),
                entry |-> [target |-> now + targetDuration,
                           duration |-> duration, repeats |-> repeats]]
      /\ UNCHANGED <<now, wheel, jsTimers, fire, deleted, calls>>

InsertTimer ==
  /\ js.at = "insert"
  /\ jsTimers' = [id \in DOMAIN jsTimers \union {js.id} |->
                    IF id = js.id THEN js.entry ELSE jsTimers[id]]
  /\ js' = Idle
  /\ UNCHANGED <<now, timer, cb, wheel, base, fire, created, deleted, calls>>

(***************************************************************************)
(* deleteTimer.  With the last entry of the table the Timer goes too: it   *)
(* is aborted here and destroyed once its thread is joined, in JoinTimer.  *)
(* timer_ is null if it has been destroyed before.                         *)
(***************************************************************************)
DeleteTimer(id) ==
  /\ js = Idle /\ Cardinality(deleted) < MaxDeletes
  /\ id \in DOMAIN created \ deleted
  /\ deleted' = deleted \union {id}
  /\ jsTimers' = Restrict(jsTimers, DOMAIN jsTimers \ {id})
  /\ IF DOMAIN jsTimers' # {} THEN UNCHANGED <<js, cb, base>>
     ELSE IF timer THEN AbortTimer /\ js' = [at |-> "join"]
     ELSE js' = Undefined /\ UNCHANGED <<cb, base>>
  /\ UNCHANGED <<now, timer, wheel, fire, created, calls>>

JoinTimer ==
  /\ js.at = "join" /\ fire = Idle
  /\ Destroy
  /\ CallTimers({base[i].function.id :
                   i \in {j \in DOMAIN base : base[j].function.op = "immediate"}})
  /\ js' = Idle
  /\ UNCHANGED <<now, jsTimers, fire, created, deleted>>

JSStep == InsertTimer \/ JoinTimer

-----------------------------------------------------------------------------
(* The timer thread                                                        *)

HandleSchedule ==
  /\ fire = Idle
  /\ \E i \in DOMAIN base : RunSchedule(i)
  /\ UNCHANGED <<now, jsTimers, js, fire, created, deleted, calls>>

HandleCancel ==
  /\ fire = Idle
  /\ \E i \in DOMAIN base : RunCancel(i)
  /\ UNCHANGED <<now, jsTimers, js, fire, created, deleted, calls>>

ImmediatelyCallTimer ==
  /\ fire = Idle
  /\ \E i \in DOMAIN base :
       /\ TakeFunction(i, "immediate")
       /\ CallTimers({base[i].function.id})
  /\ UNCHANGED <<now, timer, cb, wheel, jsTimers, js, fire, created, deleted>>

HandleFire ==
  /\ fire = Idle
  /\ \E i \in DOMAIN base : RunFire(i)
  /\ fire' = [at |-> "scan"]
  /\ UNCHANGED <<now, jsTimers, js, created, deleted, calls>>

TimeoutExpired ==
  /\ fire = Idle
  /\ WheelExpires
  /\ fire' = IF cb THEN [at |-> "scan"] ELSE Idle
  /\ UNCHANGED <<now, jsTimers, js, created, deleted, calls>>

NextTarget(timers) ==
  Min({timers[id].target : id \in DOMAIN timers} \union {FutureTime})

\* A scan that looks for the next target among the expired timers only.
Mutant_Scan ==
  LET expired == {id \in DOMAIN jsTimers : jsTimers[id].target <= now}
  IN  /\ fire.at = "scan"
      /\ fire' = [at |-> "update", toCall |-> expired, next |-> FutureTime]
      /\ UNCHANGED <<now, timer, cb, wheel, base, jsTimers, js, created, deleted, calls>>

\* timerDidFire, under jsTimerList_: the expired timers and the next target.
Scan ==
  LET expired == {id \in DOMAIN jsTimers : jsTimers[id].target <= now}
  IN  /\ fire.at = "scan"
      /\ fire' = [at |-> "update", toCall |-> expired,
                  next |-> NextTarget(Restrict(jsTimers, DOMAIN jsTimers \ expired))]
      /\ UNCHANGED <<now, timer, cb, wheel, base, jsTimers, js, created, deleted, calls>>

\* An update that leaves expired timers in the table.
Mutant_Update ==
  LET again == [id \in fire.toCall |->
                  [jsTimers[id] EXCEPT !.target = now + jsTimers[id].duration]]
  IN  /\ fire.at = "update" /\ fire.toCall \subseteq DOMAIN jsTimers
      /\ CallTimers(fire.toCall)
      /\ jsTimers' = [id \in DOMAIN jsTimers |->
                        IF id \in DOMAIN again THEN again[id] ELSE jsTimers[id]]
      /\ fire' = [at |-> "resched", next |-> Min({fire.next, NextTarget(again)})]
      /\ UNCHANGED <<now, timer, cb, wheel, base, js, created, deleted>>

(***************************************************************************)
(* The expired timers are called; those that repeat get a new target and   *)
(* the others leave the table.  The pointers were taken by Scan: one whose *)
(* timer JavaScript has deleted since then dangles.                        *)
(***************************************************************************)
Update ==
  LET repeating == {id \in fire.toCall : jsTimers[id].repeats}
      again == [id \in repeating |->
                  [jsTimers[id] EXCEPT !.target = now + jsTimers[id].duration]]
  IN  /\ fire.at = "update" /\ fire.toCall \subseteq DOMAIN jsTimers
      /\ CallTimers(fire.toCall)
      /\ jsTimers' = [id \in (DOMAIN jsTimers \ fire.toCall) \union repeating |->
                        IF id \in repeating THEN again[id] ELSE jsTimers[id]]
      /\ fire' = [at |-> "resched", next |-> Min({fire.next, NextTarget(again)})]
      /\ UNCHANGED <<now, timer, cb, wheel, base, js, created, deleted>>

UpdateDangling ==
  /\ fire.at = "update" /\ ~(fire.toCall \subseteq DOMAIN jsTimers)
  /\ fire' = Undefined
  /\ UNCHANGED <<now, timer, cb, wheel, base, jsTimers, js, created, deleted, calls>>

\* The end of timerDidFire: the timer is set to the next target.
RescheduleNext ==
  /\ fire.at = "resched"
  /\ IF DOMAIN jsTimers # {} THEN Reschedule(Max({fire.next - now, 0}), TRUE)
                             ELSE UNCHANGED <<cb, base>>
  /\ fire' = Idle
  /\ UNCHANGED <<now, timer, wheel, jsTimers, js, created, deleted, calls>>

TimerStep ==
  \/ HandleSchedule \/ HandleCancel \/ ImmediatelyCallTimer \/ HandleFire
  \/ TimeoutExpired \/ Scan \/ Update \/ UpdateDangling \/ RescheduleNext

-----------------------------------------------------------------------------
\* The clock
Tick ==
  /\ js = Idle /\ fire = Idle /\ base = <<>>
  /\ IsScheduled => wheel > now
  /\ now < MaxTime
  /\ now' = now + 1
  /\ UNCHANGED <<timer, cb, wheel, base, jsTimers, js, fire, created, deleted, calls>>

Next ==
  \/ CreateImmediate
  \/ \E duration \in Delay, overhead \in Overhead : CreateTimer(duration, overhead, FALSE)
  \/ \E duration \in Interval, overhead \in Overhead : CreateTimer(duration, overhead, TRUE)
  \/ \E id \in Id : DeleteTimer(id)
  \/ JSStep
  \/ TimerStep
  \/ Tick

Spec == Init /\ [][Next]_vars

\* Both threads and the clock go on; JavaScript need not create or delete.
FairSpec == Spec /\ WF_vars(JSStep) /\ WF_vars(TimerStep) /\ WF_vars(Tick)

-----------------------------------------------------------------------------
(* Properties                                                              *)

(***************************************************************************)
(* The pointers that timerDidFire goes through after it has released       *)
(* jsTimerList_ (RSkTimingModule.cpp:112-130), and timer_ in deleteTimer   *)
(* (176), are valid when they are used.                                    *)
(***************************************************************************)
PointersValid == js # Undefined /\ fire # Undefined

(***************************************************************************)
(* A timer that does not repeat is called at most once, whether it goes    *)
(* through the table or through scheduleImmediate (RSkTimingModule.cpp:61, *)
(* 125-128), and a timer still in the table that does not repeat has not   *)
(* been called at all.                                                     *)
(***************************************************************************)
OneShotCalledOnce ==
  \A id \in DOMAIN created : ~created[id] =>
    /\ calls[id] <= 1
    /\ id \in DOMAIN jsTimers => calls[id] = 0

(***************************************************************************)
(* Once a call of timerDidFire has found a timer in the table, the timer   *)
(* is called in the end, unless it is deleted: the chain of alarms that    *)
(* timerDidFire sets for itself (RSkTimingModule.cpp:90-106, 120-143)      *)
(* never skips a timer it knows of, whatever JavaScript creates and        *)
(* deletes meanwhile.                                                      *)
(***************************************************************************)
ScannedTimersCalled ==
  \A id \in Id : (fire.at = "scan" /\ id \in DOMAIN jsTimers)
                   ~> (calls[id] > 0 \/ id \in deleted \/ ~PointersValid)

(***************************************************************************)
(* Every timer is called in the end, unless it is deleted: createTimer     *)
(* (RSkTimingModule.cpp:80-84) always hands the timer over to some call of *)
(* timerDidFire, which lists the expired timers (91) and sets the alarm    *)
(* for the others (139).                                                   *)
(***************************************************************************)
EveryTimerCalled ==
  \A id \in Id : id \in DOMAIN created ~> (calls[id] > 0 \/ id \in deleted \/ ~PointersValid)

=============================================================================
