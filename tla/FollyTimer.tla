----------------------------- MODULE FollyTimer -----------------------------
(***************************************************************************)
(* rns::sdk::Timer (ReactSkia/sdk/FollyTimer.cpp): one wheel timeout and a *)
(* queue of functions, served by a thread of the timer's own.  Any thread  *)
(* may call reschedule() and abort(); what they want done to the wheel is  *)
(* left to the timer's thread.                                             *)
(*                                                                         *)
(* Time is counted in milliseconds.                                        *)
(***************************************************************************)
EXTENDS Integers, Sequences, SequencesExt

CONSTANTS
  MsPerSecond,   \* the divisor of getTimeRemaining: 1000 in the code
  NoTimeout      \* the wheel holds no timeout

ASSUME TimeoutAssumption == NoTimeout \notin Int

VARIABLES
  now,      \* the clock
  timer,    \* the Timer object exists
  cb,       \* timerCallback_.cb is set
  wheel,    \* when timerCallback_ expires, or NoTimeout
  base      \* functions queued in the timer thread's event base, and whether
            \* the timer's thread queued them itself, oldest first

TimerInit ==
  /\ now = 0
  /\ timer = FALSE
  /\ cb = FALSE
  /\ wheel = NoTimeout
  /\ base = <<>>

IsScheduled == wheel # NoTimeout

\* getTimeRemaining(): the remaining milliseconds, divided by 1000.
GetTimeRemaining == IF IsScheduled THEN (wheel - now) \div MsPerSecond ELSE 0

Queued(own, function) == [own |-> own, function |-> function]
Cancel == [op |-> "cancel"]

(***************************************************************************)
(* reschedule(), by the timer's own thread or not.  A duration below one   *)
(* millisecond aborts the scheduled timeout, which clears the callback,    *)
(* and queues the timeout function itself; any other is left to the lambda *)
(* below.                                                                  *)
(***************************************************************************)
Reschedule(duration, own) ==
  IF duration < 1
    THEN /\ cb' = (cb /\ ~IsScheduled)
         /\ base' = base \o (IF IsScheduled THEN <<Queued(own, Cancel)>> ELSE <<>>)
                         \o <<Queued(own, [op |-> "fire"])>>
    ELSE /\ cb' = TRUE
         /\ base' = Append(base, Queued(own, [op |-> "schedule", duration |-> duration]))

\* scheduleImmediate()
ScheduleImmediate(id) ==
  base' = Append(base, Queued(FALSE, [op |-> "immediate", id |-> id]))

\* abort(): the callback is cleared and the wheel emptied by the timer's thread.
AbortTimer ==
  /\ cb' = FALSE
  /\ base' = IF IsScheduled THEN Append(base, Queued(FALSE, Cancel)) ELSE base

\* ~Timer(), once its thread is joined.  (The join serves what is queued.)
Destroy ==
  /\ timer' = FALSE
  /\ cb' = FALSE
  /\ wheel' = NoTimeout
  /\ base' = <<>>

-----------------------------------------------------------------------------
(* The timer thread                                                        *)

(***************************************************************************)
(* The event base runs the functions queued by other threads in order, and *)
(* those queued by its own thread in order, but it may run either first.   *)
(***************************************************************************)
TakeFunction(i, op) ==
  /\ base[i].function.op = op
  /\ \A j \in 1..(i - 1) : base[j].own # base[i].own
  /\ base' = RemoveAt(base, i)

\* The lambda of reschedule(): only a shorter timeout replaces the scheduled one.
RunSchedule(i) ==
  LET duration == base[i].function.duration
  IN  /\ TakeFunction(i, "schedule")
      /\ wheel' = IF cb /\ (~IsScheduled \/ duration < GetTimeRemaining)
                    THEN now + duration ELSE wheel
      /\ UNCHANGED <<timer, cb>>

\* The lambda of abort()
RunCancel(i) ==
  /\ TakeFunction(i, "cancel")
  /\ wheel' = NoTimeout
  /\ UNCHANGED <<timer, cb>>

\* scheduleTimerTimeout() is called, from the queue or by the wheel.
RunFire(i) ==
  /\ TakeFunction(i, "fire")
  /\ UNCHANGED <<timer, cb, wheel>>

WheelExpires ==
  /\ IsScheduled /\ wheel <= now
  /\ wheel' = NoTimeout
  /\ UNCHANGED <<timer, cb, base>>

=============================================================================
