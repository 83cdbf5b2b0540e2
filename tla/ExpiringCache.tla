--------------------------- MODULE ExpiringCache ---------------------------
(***************************************************************************)
(* ThreadSafeCache (ReactSkia/sdk/ThreadSafeCache.h), the cache of network *)
(* responses: a map from URLs to expiry times that one Timer empties.      *)
(* Every change of the map has to leave the Timer with something to do, or *)
(* what is in the map stays for ever.                                      *)
(*                                                                         *)
(* setCache holds cacheLock_, expiryTimerCallback holds nothing: the       *)
(* network thread can store between the callback's walk over the map and   *)
(* its decision about the next wake-up.                                    *)
(***************************************************************************)
EXTENDS FollyTimer, FiniteSets, FiniteSetsExt

CONSTANTS
  Key,          \* the URLs
  Default,      \* DEFAULT_MAX_CACHE_EXPIRY_TIME: a duration which shouldCacheData
                \* hands out as a time when the response has no max-age
  Ages,         \* the max-age values of responses
  Year,         \* getFutureTime() is a year ahead
  LastStore,    \* bound: nothing is stored later than this
  MaxTime,      \* bound: the clock stops here, after everything has expired
  MaxQueue      \* bound on the functions in the timer thread's event base

ASSUME BoundsAssumption ==
  /\ Default \in Int /\ Default <= 0   \* long past on the clock of the model
  /\ Ages \subseteq Nat /\ LastStore \in Nat /\ MaxTime \in Nat /\ MaxQueue \in Nat
  /\ Year \in Nat \ {0} /\ \A a \in Ages : MsPerSecond * (a + 1) < Year

VARIABLES
  cacheMap,             \* cacheMap_: from the keys in it to their cacheExpiryTime
  scheduleTimeExpiry,   \* scheduleTimeExpiry_
  walk                  \* expiryTimerCallback: NoWalk, or the time it started
                        \* and the earliest expiry its walk has found

expiringVars == <<now, timer, cb, wheel, base, cacheMap, scheduleTimeExpiry, walk>>

NoWalk == [at |-> -1, next |-> -1]

\* The types; and the callback always asks for a later wake-up, it never spins.
TypeOK ==
  /\ now \in 0..MaxTime
  /\ DOMAIN cacheMap \subseteq Key
  /\ walk = NoWalk \/ (walk.at <= now /\ walk.at < walk.next)
  /\ \A i \in DOMAIN base : base[i].function.op \in {"schedule", "cancel", "fire"}

ExpiringInit ==
  /\ TimerInit
  /\ cacheMap = <<>>
  /\ scheduleTimeExpiry = 0
  /\ walk = NoWalk

-----------------------------------------------------------------------------
(* The network thread                                                      *)

\* The map with an entry for k, a new one or in place of the old one.
Stored(k, expiry) ==
  [u \in DOMAIN cacheMap \union {k} |-> IF u = k THEN expiry ELSE cacheMap[u]]

\* setCache() that leaves a timer it already has alone.
Mutant_SetCache(k, expiry) ==
  LET map == Stored(k, expiry)
      first == Cardinality(DOMAIN map) = 1
  IN  /\ cacheMap' = map
      /\ scheduleTimeExpiry' = IF first THEN expiry ELSE scheduleTimeExpiry
      /\ timer' = TRUE
      /\ IF ~timer THEN Reschedule(expiry - now, FALSE) ELSE UNCHANGED <<cb, base>>
      /\ UNCHANGED <<now, wheel, walk>>

(***************************************************************************)
(* setCache(): the entry, and an earlier wake-up if it needs one.  A new   *)
(* Timer that starts at once does what reschedule() does to an idle one.   *)
(***************************************************************************)
SetCache(k, expiry) ==
  LET map == Stored(k, expiry)
      earlier == Cardinality(DOMAIN map) = 1 \/ expiry < scheduleTimeExpiry
  IN  /\ cacheMap' = map
      /\ IF earlier
           THEN /\ scheduleTimeExpiry' = expiry
                /\ timer' = TRUE
                /\ Reschedule(expiry - now, FALSE)
           ELSE UNCHANGED <<scheduleTimeExpiry, timer, cb, base>>
      /\ UNCHANGED <<now, wheel, walk>>

\* shouldCacheData(): the expiry times it hands out.  An age is a duration of
\* at most Default, added to the clock; without one Default is the time.
ExpiryTimes == {Default} \union {now + a : a \in Ages}

\* The network thread stores what isAvailableInCache() does not find.
Store(k) ==
  /\ k \notin DOMAIN cacheMap
  /\ now <= LastStore /\ Len(base) < MaxQueue
  /\ \E expiry \in ExpiryTimes : SetCache(k, expiry)

-----------------------------------------------------------------------------
(* The timer's thread                                                      *)

\* The walk with `<' for `<=': an entry is kept in the millisecond it expires.
Mutant_Expire ==
  LET kept == {k \in DOMAIN cacheMap : cacheMap[k] >= now}
  IN  /\ cacheMap' = [k \in kept |-> cacheMap[k]]
      /\ walk' = [at |-> now,
                 next |-> Min({now + Year} \union {cacheMap[k] : k \in kept})]

\* expiryTimerCallback(), its walk: what has expired is erased.
Expire ==
  LET kept == {k \in DOMAIN cacheMap : cacheMap[k] > now}
  IN  /\ cacheMap' = [k \in kept |-> cacheMap[k]]
      /\ walk' = [at |-> now,
                 next |-> Min({now + Year} \union {cacheMap[k] : k \in kept})]

\* Its end without the reschedule().
Mutant_EndWalk ==
  /\ walk # NoWalk
  /\ walk' = NoWalk
  /\ scheduleTimeExpiry' = IF cacheMap # <<>> THEN walk.next ELSE 0
  /\ UNCHANGED <<now, timer, cb, wheel, base, cacheMap>>

\* expiryTimerCallback(), its end: the next wake-up, if anything is left now.
EndWalk ==
  /\ walk # NoWalk
  /\ walk' = NoWalk
  /\ IF cacheMap # <<>>
       THEN /\ scheduleTimeExpiry' = walk.next
            /\ Reschedule(walk.next - walk.at, TRUE)
       ELSE /\ scheduleTimeExpiry' = 0
            /\ UNCHANGED <<cb, base>>
  /\ UNCHANGED <<now, timer, wheel, cacheMap>>

\* The wheel's timeout, or a function of the event base.
Timeout ==
  /\ walk = NoWalk
  /\ WheelExpires
  /\ IF cb THEN Expire ELSE UNCHANGED <<cacheMap, walk>>
  /\ UNCHANGED <<now, scheduleTimeExpiry>>

RunQueued ==
  /\ walk = NoWalk
  /\ \E i \in DOMAIN base :
       \/ (RunSchedule(i) \/ RunCancel(i)) /\ UNCHANGED <<cacheMap, walk>>
       \/ RunFire(i) /\ Expire
  /\ UNCHANGED <<now, scheduleTimeExpiry>>

TimerStep == EndWalk \/ Timeout \/ RunQueued

\* The clock.  Once nothing more is stored it waits for the timer's thread, so
\* that a bounded clock is enough for everything to expire.
Tick ==
  /\ now < MaxTime
  /\ now <= LastStore \/ ~ENABLED TimerStep
  /\ now' = now + 1
  /\ UNCHANGED <<timer, cb, wheel, base, cacheMap, scheduleTimeExpiry, walk>>

-----------------------------------------------------------------------------

ExpiringNext ==
  \/ \E k \in Key : Store(k)
  \/ TimerStep
  \/ Tick

\* The timer's thread runs what it has to run, and time passes.
ExpiringFairness == WF_expiringVars(TimerStep) /\ WF_expiringVars(Tick)

ExpiringSpec == ExpiringInit /\ [][ExpiringNext]_expiringVars /\ ExpiringFairness

-----------------------------------------------------------------------------
(* Properties                                                              *)

(***************************************************************************)
(* While the map holds anything, the timer has something to do that leads  *)
(* to expiryTimerCallback: a timeout whose callback is not cleared, a      *)
(* queued function which schedules one or calls it, or the end of the      *)
(* callback itself.  (ThreadSafeCache.h:67-72 and :82-94 against           *)
(* Timer::reschedule and Timer::abort.)                                    *)
(***************************************************************************)
WakeUpPending ==
  cacheMap # <<>> =>
    \/ walk # NoWalk
    \/ cb /\ IsScheduled
    \/ \E i \in DOMAIN base : base[i].function.op = "fire"
    \/ cb /\ \E i \in DOMAIN base : base[i].function.op = "schedule"

(***************************************************************************)
(* The cache keeps the promise its users rely on: in particular, whatever  *)
(* the timer's thread and the network thread interleave, every entry       *)
(* leaves the map in the end.                                              *)
(***************************************************************************)
Promise == INSTANCE Cache WITH entries <- DOMAIN cacheMap

ImplementsCache == Promise!Spec

=============================================================================
