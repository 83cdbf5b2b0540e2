------------------------- MODULE TimingModuleProofs -------------------------
(***************************************************************************)
(* Proofs about TimingModule, for any durations, delays and bounds: a      *)
(* timer that does not repeat is called once.                              *)
(***************************************************************************)
EXTENDS TimingModule, SequenceTheorems, WellFoundedInduction, TLAPS

Entry == [target : Nat, duration : Nat, repeats : BOOLEAN]

Function ==
  [op : {"cancel", "fire"}] \cup [op : {"schedule"}, duration : Nat]
    \cup [op : {"immediate"}, id : Nat]

Task == [own : BOOLEAN, function : Function]

Joining == [at |-> "join"]
Scanning == [at |-> "scan"]
Inserting == [at : {"insert"}, id : Id, entry : Entry]

TimingTypeOK ==
  /\ now \in Nat
  /\ created \in Seq(BOOLEAN) /\ Len(created) <= MaxTimers
  /\ calls \in [Id -> Nat]
  /\ DOMAIN jsTimers \subseteq DOMAIN created
  /\ jsTimers \in [DOMAIN jsTimers -> Entry]
  /\ base \in Seq(Task)
  /\ js \in {Idle, Undefined, Joining} \cup Inserting
  /\ js.at = "insert" => js.id \in DOMAIN created
  /\ fire \in {Idle, Undefined, Scanning}
               \cup [at : {"update"}, toCall : SUBSET Id, next : Nat]
               \cup [at : {"resched"}, next : Nat]

\* Timers that do not repeat and have not been called, neither in the table nor
\* on their way there.
Fresh ==
  {id \in DOMAIN created : /\ ~created[id]
                           /\ calls[id] = 0
                           /\ id \notin DOMAIN jsTimers
                           /\ js.at = "insert" => js.id # id}

Immediate(i) == base[i].function.op = "immediate"

TableKept ==
  \A id \in DOMAIN jsTimers :
    /\ jsTimers[id].repeats = created[id]
    /\ ~created[id] => calls[id] = 0

InsertKept ==
  js.at = "insert" =>
    /\ js.id \notin DOMAIN jsTimers
    /\ js.entry.repeats = created[js.id]
    /\ calls[js.id] = 0

QueueFresh == \A i \in DOMAIN base : Immediate(i) => base[i].function.id \in Fresh

QueueDistinct ==
  \A i, j \in DOMAIN base :
    Immediate(i) /\ Immediate(j) /\ i # j => base[i].function.id # base[j].function.id

CalledOnce == \A id \in DOMAIN created : ~created[id] => calls[id] <= 1

Uncalled == \A id \in Id \ DOMAIN created : calls[id] = 0

(***************************************************************************)
(* OneShotCalledOnce is not inductive: a timer that does not repeat must   *)
(* be at one place at most, in the table, on its way to it or once in the  *)
(* queue, and only before its call.                                        *)
(***************************************************************************)
TimingInv ==
  /\ TimingTypeOK
  /\ TableKept /\ InsertKept /\ QueueFresh /\ QueueDistinct /\ CalledOnce /\ Uncalled

-----------------------------------------------------------------------------
(* Least elements, and the queue of the timer's thread.                    *)

\* A set of natural numbers has a least element.
LEMMA MinOfNats ==
  ASSUME NEW S \in SUBSET Nat, S # {}
  PROVE  Min(S) \in S
<1> DEFINE R == {p \in Nat \X Nat : p[1] < p[2]}
<1>1. IsWellFoundedOn(R, Nat)
  BY NatLessThanWellFounded DEF OpToRel
<1>2. \E x \in S : \A y \in S : <<y, x>> \notin R
  BY <1>1, WFMin
<1>3. PICK x \in S : \A y \in S : <<y, x>> \notin R
  BY <1>2
<1>4. \A y \in S : x <= y
  <2> SUFFICES ASSUME NEW y \in S PROVE x <= y
    OBVIOUS
  <2>1. <<y, x>> \notin R /\ x \in Nat /\ y \in Nat
    BY <1>3
  <2>2. ~(y < x)
    BY <2>1
  <2> QED BY <2>1, <2>2
<1> QED BY <1>4 DEF Min

\* The greatest of a number and 0.
LEMMA MaxWithZero == \A n \in Int : Max({n, 0}) = IF n > 0 THEN n ELSE 0
<1> SUFFICES ASSUME NEW n \in Int PROVE Max({n, 0}) = IF n > 0 THEN n ELSE 0
  OBVIOUS
<1>1. \E x \in {n, 0} : \A y \in {n, 0} : x >= y
  OBVIOUS
<1>2. Max({n, 0}) \in {n, 0} /\ \A y \in {n, 0} : Max({n, 0}) >= y
  BY <1>1 DEF Max
<1> QED BY <1>2

\* What is left when the function at place i is taken from the queue.
LEMMA Removed ==
  ASSUME NEW S, NEW s \in Seq(S), NEW i \in 1..Len(s)
  PROVE  /\ RemoveAt(s, i) \in Seq(S)
         /\ Len(RemoveAt(s, i)) = Len(s) - 1
         /\ \A j \in 1..(Len(s) - 1) : RemoveAt(s, i)[j] = IF j < i THEN s[j] ELSE s[j + 1]
<1> DEFINE a == SubSeq(s, 1, i - 1)
           b == SubSeq(s, i + 1, Len(s))
<1>1. Len(s) \in Nat /\ i \in Nat /\ i >= 1 /\ i <= Len(s)
  OBVIOUS
<1>2. /\ a \in Seq(S) /\ Len(a) = i - 1
      /\ \A j \in 1..(i - 1) : a[j] = s[j]
  BY <1>1, SubSeqProperties
<1>3. /\ b \in Seq(S) /\ Len(b) = Len(s) - i
      /\ \A j \in 1..(Len(s) - i) : b[j] = s[i + j]
  BY <1>1, SubSeqProperties
<1> HIDE DEF a, b
<1>4. a \o b \in Seq(S) /\ Len(a \o b) = Len(a) + Len(b)
  BY <1>2, <1>3, ConcatProperties
<1>5. Len(a \o b) = Len(s) - 1
  BY <1>1, <1>2, <1>3, <1>4
<1>6. ASSUME NEW j \in 1..(Len(s) - 1) PROVE (a \o b)[j] = IF j < i THEN s[j] ELSE s[j + 1]
  <2>1. (a \o b)[j] = IF j <= Len(a) THEN a[j] ELSE b[j - Len(a)]
    <3>1. j \in 1..(Len(a) + Len(b))
      BY <1>4, <1>5
    <3> QED BY <1>2, <1>3, <3>1, ConcatProperties
  <2>2. CASE j < i
    BY <1>1, <1>2, <2>1, <2>2
  <2>3. CASE ~(j < i)
    <3>1. j - (i - 1) \in 1..(Len(s) - i) /\ i + (j - (i - 1)) = j + 1 /\ ~(j <= i - 1)
      BY <1>1, <2>3
    <3>2. b[j - (i - 1)] = s[j + 1]
      BY <1>3, <3>1
    <3> QED BY <1>2, <2>1, <2>3, <3>1, <3>2
  <2> QED BY <2>2, <2>3
<1> QED BY <1>4, <1>5, <1>6 DEF RemoveAt, a, b

-----------------------------------------------------------------------------
(* What the queue keeps of the immediate functions.                        *)

\* The immediate functions of queue d are in queue c, each as often at least.
Carries(c, d) ==
  /\ d \in Seq(Task)
  /\ \A i \in DOMAIN d : d[i].function.op = "immediate" =>
       \E k \in DOMAIN c : c[k] = d[i]
  /\ \A i, j \in DOMAIN d :
       d[i].function.op = "immediate" /\ d[j].function.op = "immediate" /\ i # j =>
         \E k, m \in DOMAIN c : k # m /\ c[k] = d[i] /\ c[m] = d[j]

\* Another function may be queued behind.
LEMMA CarriesAppend ==
  ASSUME NEW c, NEW d \in Seq(Task), Carries(c, d),
         NEW t \in Task, t.function.op # "immediate"
  PROVE  Carries(c, Append(d, t))
<1> DEFINE e == Append(d, t)
<1>1. e \in Seq(Task) /\ DOMAIN e = 1..(Len(d) + 1) /\ DOMAIN d = 1..Len(d) /\ Len(d) \in Nat
  BY AppendProperties, LenProperties
<1>2. \A i \in 1..Len(d) : e[i] = d[i]
  BY AppendProperties
<1>3. e[Len(d) + 1] = t
  BY AppendProperties
<1> HIDE DEF e
<1>4. \A i \in DOMAIN e : e[i].function.op = "immediate" => i \in DOMAIN d /\ e[i] = d[i]
  BY <1>1, <1>2, <1>3
<1>5. Carries(c, e)
  BY <1>1, <1>4 DEF Carries
<1> QED BY <1>5 DEF e

\* A function may be taken.
LEMMA CarriesRemoved ==
  ASSUME NEW c \in Seq(Task), NEW i \in DOMAIN c
  PROVE  Carries(c, RemoveAt(c, i))
<1> DEFINE d == RemoveAt(c, i)
<1>1. DOMAIN c = 1..Len(c) /\ Len(c) \in Nat
  BY LenProperties
<1>2. /\ d \in Seq(Task) /\ Len(d) = Len(c) - 1
      /\ \A j \in 1..(Len(c) - 1) : d[j] = IF j < i THEN c[j] ELSE c[j + 1]
  BY <1>1, Removed
<1> HIDE DEF d
<1>3. DOMAIN d = 1..(Len(c) - 1)
  BY <1>2, LenProperties
<1>4. ASSUME NEW j \in DOMAIN d
      PROVE  (IF j < i THEN j ELSE j + 1) \in DOMAIN c
  BY <1>1, <1>3
<1>5. ASSUME NEW j \in DOMAIN d PROVE \E k \in DOMAIN c : c[k] = d[j]
  BY <1>2, <1>3, <1>4
<1>6. ASSUME NEW j \in DOMAIN d, NEW k \in DOMAIN d, j # k
      PROVE  \E m, n \in DOMAIN c : m # n /\ c[m] = d[j] /\ c[n] = d[k]
  <2> DEFINE m == IF j < i THEN j ELSE j + 1
             n == IF k < i THEN k ELSE k + 1
  <2>1. m \in DOMAIN c /\ n \in DOMAIN c
    BY <1>4
  <2>2. c[m] = d[j] /\ c[n] = d[k]
    BY <1>2, <1>3
  <2>3. m # n
    BY <1>1, <1>3, <1>6
  <2> HIDE DEF m, n
  <2> QED BY <2>1, <2>2, <2>3
<1>7. Carries(c, d)
  BY <1>2, <1>5, <1>6 DEF Carries
<1> QED BY <1>7 DEF d

LEMMA CarriesItself == ASSUME NEW c \in Seq(Task) PROVE Carries(c, c)
  BY DEF Carries

\* reschedule() and abort() queue no immediate function.
LEMMA RescheduleCarries ==
  ASSUME base \in Seq(Task), NEW duration \in Nat, NEW own \in BOOLEAN,
         Reschedule(duration, own)
  PROVE  Carries(base, base')
<1> DEFINE cancel == Queued(own, Cancel)
           fired == Queued(own, [op |-> "fire"])
           scheduled == Queued(own, [op |-> "schedule", duration |-> duration])
<1>1. cancel \in Task /\ fired \in Task /\ scheduled \in Task
  BY DEF Task, Function, Queued, Cancel
<1>2. /\ cancel.function.op # "immediate" /\ fired.function.op # "immediate"
      /\ scheduled.function.op # "immediate"
  BY DEF Queued, Cancel
<1>3. \/ base' = Append(base, scheduled)
      \/ base' = base \o <<cancel>> \o <<fired>>
      \/ base' = base \o <<>> \o <<fired>>
  BY DEF Reschedule
<1> HIDE DEF cancel, fired, scheduled
<1>4. Append(base, cancel) \in Seq(Task)
  BY <1>1, AppendProperties
<1>5. /\ base \o <<cancel>> \o <<fired>> = Append(Append(base, cancel), fired)
      /\ base \o <<>> \o <<fired>> = Append(base, fired)
  BY <1>1, <1>4, AppendIsConcat, ConcatEmptySeq
<1>6. Carries(base, base)
  BY CarriesItself
<1>7. Carries(base, Append(base, cancel))
  BY <1>1, <1>2, <1>6, CarriesAppend
<1>8. Carries(base, Append(Append(base, cancel), fired))
  BY <1>1, <1>2, <1>4, <1>7, CarriesAppend
<1>9. Carries(base, Append(base, fired)) /\ Carries(base, Append(base, scheduled))
  BY <1>1, <1>2, <1>6, CarriesAppend
<1> QED BY <1>3, <1>5, <1>8, <1>9

LEMMA AbortCarries == ASSUME base \in Seq(Task), AbortTimer PROVE Carries(base, base')
<1> DEFINE cancel == Queued(FALSE, Cancel)
<1>1. cancel \in Task /\ cancel.function.op # "immediate"
  BY DEF Task, Function, Queued, Cancel
<1>2. base' = Append(base, cancel) \/ base' = base
  BY DEF AbortTimer
<1> HIDE DEF cancel
<1> QED BY <1>1, <1>2, CarriesItself, CarriesAppend

\* What is said of the queue stays true while the fresh timers stay fresh, but
\* for those that are gone from the queue.
LEMMA QueueStays ==
  ASSUME QueueFresh, QueueDistinct, Carries(base, base'), NEW gone,
         \A i \in DOMAIN base' :
           base'[i].function.op = "immediate" => base'[i].function.id \notin gone,
         Fresh \ gone \subseteq Fresh'
  PROVE  QueueFresh' /\ QueueDistinct'
<1>1. QueueFresh'
  <2> SUFFICES ASSUME NEW i \in DOMAIN base', base'[i].function.op = "immediate"
               PROVE  (base[i].function.id \in Fresh)'
    BY DEF QueueFresh, Immediate
  <2>1. PICK k \in DOMAIN base : base[k] = base'[i]
    BY DEF Carries
  <2>2. base'[i].function.id \in Fresh
    BY <2>1 DEF QueueFresh, Immediate
  <2> QED BY <2>2
<1>2. QueueDistinct'
  <2> SUFFICES ASSUME NEW i \in DOMAIN base', NEW j \in DOMAIN base', i # j,
                      base'[i].function.op = "immediate", base'[j].function.op = "immediate"
               PROVE  base'[i].function.id # base'[j].function.id
    BY DEF QueueDistinct, Immediate
  <2>1. PICK k \in DOMAIN base, m \in DOMAIN base :
               k # m /\ base[k] = base'[i] /\ base[m] = base'[j]
    BY DEF Carries
  <2> QED BY <2>1 DEF QueueDistinct, Immediate
<1> QED BY <1>1, <1>2

LEMMA QueueStaysFresh ==
  ASSUME QueueFresh, QueueDistinct, Carries(base, base'), Fresh \subseteq Fresh'
  PROVE  QueueFresh' /\ QueueDistinct'
<1>1. PICK gone : gone = {}
  OBVIOUS
<1>2. /\ \A i \in DOMAIN base' :
           base'[i].function.op = "immediate" => base'[i].function.id \notin gone
      /\ Fresh \ gone \subseteq Fresh'
  BY <1>1
<1> QED BY <1>2, QueueStays

-----------------------------------------------------------------------------
(* Steps that leave the timers and their calls alone.                      *)

QuietStep == Carries(base, base') /\ UNCHANGED <<jsTimers, js, created, calls>>

\* Taking a function from the queue.
LEMMA TakeCarries ==
  ASSUME base \in Seq(Task), NEW i \in DOMAIN base, NEW op, TakeFunction(i, op)
  PROVE  Carries(base, base')
BY CarriesRemoved DEF TakeFunction

LEMMA NextTargetType ==
  ASSUME NEW timers, timers \in [DOMAIN timers -> Entry]
  PROVE  NextTarget(timers) \in Nat
<1>1. FutureTime \in Nat
  BY TimingAssumption DEF FutureTime
<1>2. \A id \in DOMAIN timers : timers[id].target \in Nat
  BY DEF Entry
<1> DEFINE S == {timers[id].target : id \in DOMAIN timers} \union {FutureTime}
<1>3. S \in SUBSET Nat /\ S # {}
  BY <1>1, <1>2
<1>4. Min(S) \in S
  BY <1>3, MinOfNats
<1> QED BY <1>3, <1>4 DEF NextTarget

LEMMA QuietType ==
  ASSUME TimingTypeOK, Carries(base, base'), UNCHANGED <<jsTimers, js, created, calls>>,
         now' \in Nat,
         fire' \in {Idle, Undefined, Scanning}
                     \cup [at : {"update"}, toCall : SUBSET Id, next : Nat]
                     \cup [at : {"resched"}, next : Nat]
  PROVE  QuietStep /\ TimingTypeOK'
BY DEF TimingTypeOK, Carries, QuietStep

LEMMA QuietSteps ==
  ASSUME TimingTypeOK,
         \/ HandleSchedule \/ HandleCancel \/ HandleFire \/ TimeoutExpired
         \/ Scan \/ UpdateDangling \/ RescheduleNext \/ Tick
  PROVE  QuietStep /\ TimingTypeOK'
PROOF
<1>0. /\ base \in Seq(Task) /\ now \in Nat
      /\ fire \in {Idle, Undefined, Scanning}
                    \cup [at : {"update"}, toCall : SUBSET Id, next : Nat]
                    \cup [at : {"resched"}, next : Nat]
      /\ jsTimers \in [DOMAIN jsTimers -> Entry]
      /\ DOMAIN jsTimers \subseteq DOMAIN created
      /\ created \in Seq(BOOLEAN) /\ Len(created) <= MaxTimers
  BY DEF TimingTypeOK
<1>i. Carries(base, base)
  BY <1>0, CarriesItself
<1>1. CASE HandleSchedule
  <2>1. Carries(base, base')
    BY <1>0, <1>1, TakeCarries DEF HandleSchedule, RunSchedule
  <2> QED BY <1>0, <1>1, <2>1, QuietType DEF HandleSchedule
<1>2. CASE HandleCancel
  <2>1. Carries(base, base')
    BY <1>0, <1>2, TakeCarries DEF HandleCancel, RunCancel
  <2> QED BY <1>0, <1>2, <2>1, QuietType DEF HandleCancel
<1>3. CASE HandleFire
  <2>1. Carries(base, base')
    BY <1>0, <1>3, TakeCarries DEF HandleFire, RunFire
  <2> QED BY <1>0, <1>3, <2>1, QuietType DEF HandleFire, Scanning
<1>4. CASE TimeoutExpired
  <2>1. Carries(base, base')
    BY <1>i, <1>4 DEF TimeoutExpired, WheelExpires
  <2> QED BY <1>0, <1>4, <2>1, QuietType DEF TimeoutExpired, Scanning
<1>5. CASE Scan
  <2> DEFINE expired == {id \in DOMAIN jsTimers : jsTimers[id].target <= now}
             rest == Restrict(jsTimers, DOMAIN jsTimers \ expired)
  <2>1. DOMAIN rest = DOMAIN jsTimers \ expired /\ rest \in [DOMAIN rest -> Entry]
    BY <1>0 DEF Restrict
  <2>2. NextTarget(rest) \in Nat
    BY <2>1, NextTargetType
  <2>3. expired \in SUBSET Id
    <3>1. DOMAIN created = 1..Len(created) /\ Len(created) \in Nat /\ MaxTimers \in Nat
      BY <1>0, TimingAssumption, LenProperties
    <3> QED BY <1>0, <3>1 DEF Id
  <2>4. fire' = [at |-> "update", toCall |-> expired, next |-> NextTarget(rest)]
    BY <1>5 DEF Scan
  <2>5. fire' \in [at : {"update"}, toCall : SUBSET Id, next : Nat]
    BY <2>2, <2>3, <2>4
  <2> QED BY <1>0, <1>i, <1>5, <2>5, QuietType DEF Scan
<1>6. CASE UpdateDangling
  BY <1>0, <1>i, <1>6, QuietType DEF UpdateDangling
<1>7. CASE RescheduleNext
  <2>1. fire.next \in Nat
    BY <1>0, <1>7 DEF RescheduleNext, Idle, Undefined, Scanning
  <2>2. fire.next - now \in Int
    BY <1>0, <2>1
  <2>3. Max({fire.next - now, 0}) \in Nat
    BY <2>2, MaxWithZero
  <2>4. Carries(base, base')
    <3>1. CASE Reschedule(Max({fire.next - now, 0}), TRUE)
      BY <1>0, <2>3, <3>1, RescheduleCarries
    <3>2. CASE UNCHANGED base
      BY <1>i, <3>2
    <3> QED BY <1>7, <3>1, <3>2 DEF RescheduleNext
  <2> QED BY <1>0, <1>7, <2>4, QuietType DEF RescheduleNext
<1>8. CASE Tick
  BY <1>0, <1>i, <1>8, QuietType DEF Tick
<1> QED BY <1>1, <1>2, <1>3, <1>4, <1>5, <1>6, <1>7, <1>8

LEMMA QuietKeeps == TimingInv /\ QuietStep /\ TimingTypeOK' => TimingInv'
<1> SUFFICES ASSUME TimingInv, QuietStep, TimingTypeOK' PROVE TimingInv'
  OBVIOUS
<1>1. Fresh \subseteq Fresh'
  BY DEF QuietStep, Fresh
<1>2. QueueFresh' /\ QueueDistinct'
  BY <1>1, QueueStaysFresh DEF TimingInv, QuietStep
<1>3. TableKept' /\ InsertKept' /\ CalledOnce' /\ Uncalled'
  BY DEF TimingInv, QuietStep, TableKept, InsertKept, CalledOnce, Uncalled
<1> QED BY <1>2, <1>3 DEF TimingInv

-----------------------------------------------------------------------------
(* The steps of the JavaScript thread.                                     *)

\* A new timer, of either kind.
LEMMA Created ==
  ASSUME TimingTypeOK, NEW repeats \in BOOLEAN, MayCreate(repeats)
  PROVE  /\ Len(created') = Len(created) + 1 /\ Len(created') \in Id
         /\ Len(created') \notin DOMAIN created
         /\ DOMAIN created' = DOMAIN created \cup {Len(created')}
         /\ created' \in Seq(BOOLEAN) /\ Len(created') <= MaxTimers
         /\ created'[Len(created')] = repeats
         /\ \A id \in DOMAIN created : created'[id] = created[id]
<1>1. created \in Seq(BOOLEAN) /\ created' = Append(created, repeats) /\ Len(created) < MaxTimers
  BY DEF TimingTypeOK, MayCreate
<1>2. /\ Len(created) \in Nat /\ MaxTimers \in Nat
      /\ DOMAIN created = 1..Len(created)
  BY <1>1, TimingAssumption, LenProperties
<1>3. /\ created' \in Seq(BOOLEAN) /\ Len(created') = Len(created) + 1
      /\ \A id \in 1..Len(created) : created'[id] = created[id]
      /\ created'[Len(created) + 1] = repeats
  BY <1>1, AppendProperties
<1>4. DOMAIN created' = 1..(Len(created) + 1)
  BY <1>3, LenProperties
<1>5. 1..(Len(created) + 1) = (1..Len(created)) \cup {Len(created) + 1}
  BY <1>2
<1> QED BY <1>1, <1>2, <1>3, <1>4, <1>5 DEF Id

LEMMA CreateImmediateKeeps == TimingInv /\ CreateImmediate => TimingInv'
PROOF
<1> SUFFICES ASSUME TimingInv, CreateImmediate PROVE TimingInv'
  OBVIOUS
<1> DEFINE new == Len(created')
           task == Queued(FALSE, [op |-> "immediate", id |-> new])
<1>0. TimingTypeOK /\ MayCreate(FALSE) /\ js = Idle /\ base' = Append(base, task)
  BY DEF TimingInv, CreateImmediate, MayCreate, ScheduleImmediate
<1>1. /\ new \in Id /\ new \notin DOMAIN created /\ new \in Nat
      /\ DOMAIN created' = DOMAIN created \cup {new}
      /\ created' \in Seq(BOOLEAN) /\ Len(created') <= MaxTimers
      /\ created'[new] = FALSE
      /\ \A id \in DOMAIN created : created'[id] = created[id]
  <2>1. PICK repeats \in BOOLEAN : repeats = FALSE
    OBVIOUS
  <2>2. MayCreate(repeats)
    BY <1>0, <2>1
  <2>3. /\ new \in Id /\ new \notin DOMAIN created
        /\ DOMAIN created' = DOMAIN created \cup {new}
        /\ created' \in Seq(BOOLEAN) /\ Len(created') <= MaxTimers
        /\ created'[new] = repeats
        /\ \A id \in DOMAIN created : created'[id] = created[id]
    BY <1>0, <2>2, Created
  <2>4. new \in Nat
    BY <2>3, LenProperties
  <2> QED BY <2>1, <2>3, <2>4
<1>2. UNCHANGED <<now, jsTimers, js, fire, calls>>
  BY DEF CreateImmediate
<1>3. base \in Seq(Task) /\ task \in Task /\ task.function = [op |-> "immediate", id |-> new]
  BY <1>0, <1>1 DEF TimingTypeOK, Task, Function, Queued
<1> HIDE DEF new, task
<1>4. /\ base' \in Seq(Task) /\ DOMAIN base' = DOMAIN base \cup {Len(base) + 1}
      /\ Len(base) + 1 \notin DOMAIN base
      /\ base'[Len(base) + 1] = task /\ \A i \in DOMAIN base : base'[i] = base[i]
  <2>1. /\ base' \in Seq(Task) /\ Len(base') = Len(base) + 1
        /\ base'[Len(base) + 1] = task /\ \A i \in 1..Len(base) : base'[i] = base[i]
    BY <1>0, <1>3, AppendProperties
  <2>2. DOMAIN base = 1..Len(base) /\ DOMAIN base' = 1..Len(base') /\ Len(base) \in Nat
    BY <1>3, <2>1, LenProperties
  <2> QED BY <2>1, <2>2
<1>5. js.at # "insert"
  BY <1>0 DEF Idle
<1>6. Fresh \subseteq Fresh' /\ new \in Fresh'
  <2>1. calls[new] = 0
    BY <1>1 DEF TimingInv, Uncalled
  <2>2. new \notin DOMAIN jsTimers
    BY <1>0, <1>1 DEF TimingTypeOK
  <2> QED BY <1>1, <1>2, <1>5, <2>1, <2>2 DEF Fresh
<1>7. TimingTypeOK'
  BY <1>0, <1>1, <1>2, <1>4, <1>5 DEF TimingTypeOK
<1>8. TableKept' /\ InsertKept' /\ CalledOnce' /\ Uncalled'
  <2>1. TableKept'
    BY <1>0, <1>1, <1>2 DEF TimingInv, TimingTypeOK, TableKept
  <2>2. InsertKept'
    BY <1>2, <1>5 DEF InsertKept
  <2>3. CalledOnce'
    BY <1>1, <1>2 DEF TimingInv, CalledOnce, Uncalled
  <2>4. Uncalled'
    BY <1>1, <1>2 DEF TimingInv, Uncalled
  <2> QED BY <2>1, <2>2, <2>3, <2>4
<1>9. QueueFresh'
  BY <1>3, <1>4, <1>6 DEF TimingInv, QueueFresh, Immediate
<1>10. QueueDistinct'
  <2>1. \A i \in DOMAIN base : Immediate(i) => base[i].function.id # new
    BY <1>1 DEF TimingInv, QueueFresh, Fresh
  <2> QED BY <1>3, <1>4, <2>1 DEF TimingInv, QueueDistinct, Immediate
<1> QED BY <1>7, <1>8, <1>9, <1>10 DEF TimingInv

LEMMA CreateTimerKeeps ==
  ASSUME TimingInv, NEW duration \in Nat, NEW overhead \in Nat, NEW repeats \in BOOLEAN,
         CreateTimer(duration, overhead, repeats)
  PROVE  TimingInv'
PROOF
<1> DEFINE new == Len(created')
           delay == Max({duration - overhead, 0})
           entry == [target |-> now + delay, duration |-> duration, repeats |-> repeats]
<1>0. /\ TimingTypeOK /\ MayCreate(repeats) /\ js = Idle /\ Reschedule(delay, FALSE)
      /\ UNCHANGED <<now, jsTimers, fire, calls>>
      /\ js' = [at |-> "insert", id |-> new, entry |-> entry]
  BY DEF TimingInv, CreateTimer, MayCreate
<1>1. /\ new \in Id /\ new \notin DOMAIN created
      /\ DOMAIN created' = DOMAIN created \cup {new}
      /\ created' \in Seq(BOOLEAN) /\ Len(created') <= MaxTimers
      /\ created'[new] = repeats
      /\ \A id \in DOMAIN created : created'[id] = created[id]
  BY <1>0, Created
<1>2. delay \in Nat
  <2>1. duration - overhead \in Int
    OBVIOUS
  <2> QED BY <2>1, MaxWithZero
<1> HIDE DEF new, delay
<1>3. entry \in Entry /\ entry.repeats = repeats
  <2>1. now \in Nat
    BY <1>0 DEF TimingTypeOK
  <2>2. now + delay \in Nat
    BY <1>2, <2>1
  <2> QED BY <2>2 DEF Entry
<1> HIDE DEF entry
<1>4. js' \in Inserting /\ js'.at = "insert" /\ js'.id = new /\ js'.entry = entry
  BY <1>0, <1>1, <1>3 DEF Inserting
<1>5. Carries(base, base')
  <2>1. base \in Seq(Task)
    BY <1>0 DEF TimingTypeOK
  <2> QED BY <1>0, <1>2, <2>1, RescheduleCarries
<1>6. base' \in Seq(Task)
  BY <1>5 DEF Carries
<1>7. calls[new] = 0 /\ new \notin DOMAIN jsTimers
  BY <1>0, <1>1 DEF TimingInv, TimingTypeOK, Uncalled
<1>8. Fresh \subseteq Fresh'
  BY <1>0, <1>1, <1>4 DEF Fresh
<1>9. QueueFresh' /\ QueueDistinct'
  BY <1>5, <1>8, QueueStaysFresh DEF TimingInv
<1>10. TimingTypeOK'
  BY <1>0, <1>1, <1>4, <1>6 DEF TimingTypeOK
<1>11. TableKept'
  BY <1>0, <1>1 DEF TimingInv, TimingTypeOK, TableKept
<1>12. InsertKept'
  BY <1>0, <1>1, <1>3, <1>4, <1>7 DEF InsertKept
<1>13. CalledOnce' /\ Uncalled'
  BY <1>0, <1>1, <1>7 DEF TimingInv, CalledOnce, Uncalled
<1> QED BY <1>9, <1>10, <1>11, <1>12, <1>13 DEF TimingInv

LEMMA InsertKeeps == TimingInv /\ InsertTimer => TimingInv'
<1> SUFFICES ASSUME TimingInv, InsertTimer PROVE TimingInv'
  OBVIOUS
<1>0. /\ TimingTypeOK /\ js.at = "insert" /\ js' = Idle
      /\ UNCHANGED <<now, base, fire, created, calls>>
      /\ jsTimers' = [id \in DOMAIN jsTimers \union {js.id} |->
                        IF id = js.id THEN js.entry ELSE jsTimers[id]]
  BY DEF TimingInv, InsertTimer
<1>1. js.id \in DOMAIN created /\ js.entry \in Entry
  BY <1>0 DEF TimingTypeOK, Idle, Undefined, Joining, Inserting
<1>2. js'.at # "insert"
  BY <1>0 DEF Idle
<1>3. TimingTypeOK'
  BY <1>0, <1>1, <1>2 DEF TimingTypeOK
<1>4. Fresh \subseteq Fresh'
  BY <1>0, <1>2 DEF Fresh
<1>5. Carries(base, base')
  <2>1. base \in Seq(Task)
    BY <1>0 DEF TimingTypeOK
  <2> QED BY <1>0, <2>1, CarriesItself
<1>6. QueueFresh' /\ QueueDistinct'
  BY <1>4, <1>5, QueueStaysFresh DEF TimingInv
<1>7. TableKept' /\ InsertKept'
  BY <1>0, <1>2 DEF TimingInv, TableKept, InsertKept
<1>8. CalledOnce' /\ Uncalled'
  BY <1>0 DEF TimingInv, CalledOnce, Uncalled
<1> QED BY <1>3, <1>6, <1>7, <1>8 DEF TimingInv

LEMMA DeleteKeeps == ASSUME TimingInv, NEW id \in Id, DeleteTimer(id) PROVE TimingInv'
PROOF
<1>0. /\ TimingTypeOK /\ js = Idle
      /\ jsTimers' = Restrict(jsTimers, DOMAIN jsTimers \ {id})
      /\ UNCHANGED <<now, fire, created, calls>>
  BY DEF TimingInv, DeleteTimer
<1>1. /\ DOMAIN jsTimers' = DOMAIN jsTimers \ {id}
      /\ \A i \in DOMAIN jsTimers' : jsTimers'[i] = jsTimers[i]
  BY <1>0 DEF Restrict
<1>2. js' \in {Idle, Undefined, Joining} /\ js'.at # "insert" /\ Carries(base, base')
  <2>0. base \in Seq(Task)
    BY <1>0 DEF TimingTypeOK
  <2>1. CASE UNCHANGED <<js, cb, base>>
    BY <1>0, <2>0, <2>1, CarriesItself DEF Idle
  <2>2. CASE AbortTimer /\ js' = [at |-> "join"]
    BY <2>0, <2>2, AbortCarries DEF Joining
  <2>3. CASE js' = Undefined /\ UNCHANGED <<cb, base>>
    BY <2>0, <2>3, CarriesItself DEF Undefined
  <2> QED BY <2>1, <2>2, <2>3 DEF DeleteTimer
<1>3. TimingTypeOK'
  <2>1. jsTimers' \in [DOMAIN jsTimers' -> Entry]
    BY <1>0, <1>1 DEF TimingTypeOK, Restrict
  <2> QED BY <1>0, <1>1, <1>2, <2>1 DEF TimingTypeOK, Carries
<1>4. Fresh \subseteq Fresh'
  BY <1>0, <1>1, <1>2 DEF Fresh
<1>5. QueueFresh' /\ QueueDistinct'
  BY <1>2, <1>4, QueueStaysFresh DEF TimingInv
<1>6. TableKept' /\ InsertKept' /\ CalledOnce' /\ Uncalled'
  BY <1>0, <1>1, <1>2 DEF TimingInv, TableKept, InsertKept, CalledOnce, Uncalled
<1> QED BY <1>3, <1>5, <1>6 DEF TimingInv

-----------------------------------------------------------------------------
(* The steps that call timers.                                             *)

\* A call counts for the timers it is about.
LEMMA CallTimersCounts ==
  ASSUME calls \in [Id -> Nat], NEW ids, CallTimers(ids)
  PROVE  /\ calls' \in [Id -> Nat]
         /\ \A id \in Id : id \notin ids => calls'[id] = calls[id]
         /\ \A id \in Id : id \in ids => calls'[id] = calls[id] + 1
BY DEF CallTimers

LEMMA JoinKeeps == TimingInv /\ JoinTimer => TimingInv'
<1> SUFFICES ASSUME TimingInv, JoinTimer PROVE TimingInv'
  OBVIOUS
<1> DEFINE ids == {base[i].function.id :
                     i \in {j \in DOMAIN base : base[j].function.op = "immediate"}}
<1>0. /\ TimingTypeOK /\ js' = Idle /\ base' = <<>> /\ CallTimers(ids)
      /\ UNCHANGED <<now, jsTimers, fire, created>>
  BY DEF TimingInv, JoinTimer, Destroy
<1>1. ids \subseteq Fresh
  BY DEF TimingInv, QueueFresh, Immediate
<1> HIDE DEF ids
<1>2. /\ calls \in [Id -> Nat] /\ DOMAIN created \subseteq Id
      /\ DOMAIN jsTimers \subseteq DOMAIN created
  <2>1. DOMAIN created = 1..Len(created) /\ Len(created) \in Nat /\ MaxTimers \in Nat
        /\ Len(created) <= MaxTimers
    BY <1>0, TimingAssumption, LenProperties DEF TimingTypeOK
  <2>2. DOMAIN created \subseteq Id
    BY <2>1 DEF Id
  <2> QED BY <1>0, <2>2 DEF TimingTypeOK
<1>3. /\ calls' \in [Id -> Nat]
      /\ \A id \in Id : id \notin ids => calls'[id] = calls[id]
      /\ \A id \in Id : id \in ids => calls'[id] = calls[id] + 1
  BY <1>0, <1>2, CallTimersCounts
<1>4. js'.at # "insert" /\ DOMAIN base' = {}
  BY <1>0 DEF Idle
<1>5. TimingTypeOK'
  BY <1>0, <1>3, <1>4 DEF TimingTypeOK
<1>6. QueueFresh' /\ QueueDistinct' /\ InsertKept'
  BY <1>4 DEF QueueFresh, QueueDistinct, InsertKept
<1>7. TableKept'
  BY <1>0, <1>1, <1>2, <1>3 DEF TimingInv, TableKept, Fresh
<1>8. CalledOnce'
  BY <1>0, <1>1, <1>2, <1>3 DEF TimingInv, CalledOnce, Fresh
<1>9. Uncalled'
  BY <1>0, <1>1, <1>2, <1>3 DEF TimingInv, Uncalled, Fresh
<1> QED BY <1>5, <1>6, <1>7, <1>8, <1>9 DEF TimingInv

LEMMA CallImmediateKeeps == TimingInv /\ ImmediatelyCallTimer => TimingInv'
PROOF
<1> SUFFICES ASSUME TimingInv, ImmediatelyCallTimer PROVE TimingInv'
  OBVIOUS
<1>0. TimingTypeOK /\ base \in Seq(Task) /\ UNCHANGED <<now, jsTimers, js, fire, created>>
  BY DEF TimingInv, TimingTypeOK, ImmediatelyCallTimer
<1>1. PICK i \in DOMAIN base :
             TakeFunction(i, "immediate") /\ CallTimers({base[i].function.id})
  BY DEF ImmediatelyCallTimer
<1>2. PICK id : id = base[i].function.id
  OBVIOUS
<1>3. id \in Fresh /\ Immediate(i)
  BY <1>1, <1>2 DEF TimingInv, QueueFresh, Immediate, TakeFunction
<1>4. /\ calls \in [Id -> Nat] /\ DOMAIN created \subseteq Id
      /\ DOMAIN jsTimers \subseteq DOMAIN created
  <2>1. DOMAIN created = 1..Len(created) /\ Len(created) \in Nat /\ MaxTimers \in Nat
        /\ Len(created) <= MaxTimers
    BY <1>0, TimingAssumption, LenProperties DEF TimingTypeOK
  <2>2. DOMAIN created \subseteq Id
    BY <2>1 DEF Id
  <2> QED BY <1>0, <2>2 DEF TimingTypeOK
<1>5. /\ calls' \in [Id -> Nat]
      /\ \A k \in Id : k # id => calls'[k] = calls[k]
      /\ calls'[id] = calls[id] + 1
  BY <1>1, <1>2, <1>3, <1>4, CallTimersCounts DEF Fresh
<1>6. Carries(base, base')
  BY <1>0, <1>1, TakeCarries
<1>7. TimingTypeOK'
  BY <1>0, <1>5, <1>6 DEF TimingTypeOK, Carries
<1>8. Fresh \ {id} \subseteq Fresh'
  BY <1>0, <1>4, <1>5 DEF Fresh
<1>9. \A j \in DOMAIN base' :
        base'[j].function.op = "immediate" => base'[j].function.id \notin {id}
  <2>1. /\ DOMAIN base' = 1..(Len(base) - 1) /\ DOMAIN base = 1..Len(base) /\ Len(base) \in Nat
        /\ \A j \in 1..(Len(base) - 1) : base'[j] = IF j < i THEN base[j] ELSE base[j + 1]
    <3>1. DOMAIN base = 1..Len(base) /\ Len(base) \in Nat /\ base' = RemoveAt(base, i)
      BY <1>0, <1>1, LenProperties DEF TakeFunction
    <3>2. /\ base' \in Seq(Task) /\ Len(base') = Len(base) - 1
          /\ \A j \in 1..(Len(base) - 1) : base'[j] = IF j < i THEN base[j] ELSE base[j + 1]
      BY <1>0, <3>1, Removed
    <3> QED BY <3>1, <3>2, LenProperties
  <2> SUFFICES ASSUME NEW j \in DOMAIN base', base'[j].function.op = "immediate"
               PROVE  base'[j].function.id # id
    OBVIOUS
  <2>2. PICK k \in DOMAIN base : k # i /\ base[k] = base'[j]
    <3>1. CASE j < i
      BY <2>1, <3>1
    <3>2. CASE ~(j < i)
      <4>1. j + 1 \in DOMAIN base /\ j + 1 # i /\ base[j + 1] = base'[j]
        BY <2>1, <3>2
      <4> QED BY <4>1
    <3> QED BY <3>1, <3>2
  <2> QED BY <1>2, <1>3, <2>2 DEF TimingInv, QueueDistinct, Immediate
<1>10. QueueFresh' /\ QueueDistinct'
  BY <1>6, <1>8, <1>9, QueueStays DEF TimingInv
<1>11. TableKept' /\ InsertKept'
  <2>1. TableKept'
    BY <1>0, <1>3, <1>4, <1>5 DEF TimingInv, TableKept, Fresh
  <2>2. InsertKept'
    <3> SUFFICES ASSUME js.at = "insert" PROVE InsertKept'
      BY <1>0 DEF InsertKept
    <3>1. js.id \in Id /\ js.id # id
      BY <1>0, <1>3, <1>4 DEF TimingTypeOK, Fresh
    <3> QED BY <1>0, <1>5, <3>1 DEF TimingInv, InsertKept
  <2> QED BY <2>1, <2>2
<1>12. CalledOnce'
  <2>1. calls[id] = 0
    BY <1>3 DEF Fresh
  <2> QED BY <1>0, <1>4, <1>5, <2>1 DEF TimingInv, CalledOnce
<1>13. Uncalled'
  <2>1. id \in DOMAIN created
    BY <1>3 DEF Fresh
  <2> QED BY <1>0, <1>5, <2>1 DEF TimingInv, Uncalled
<1> QED BY <1>7, <1>10, <1>11, <1>12, <1>13 DEF TimingInv

LEMMA UpdateKeeps == TimingInv /\ Update => TimingInv'
PROOF
<1> SUFFICES ASSUME TimingInv, Update PROVE TimingInv'
  OBVIOUS
<1> DEFINE repeating == {id \in fire.toCall : jsTimers[id].repeats}
           again == [id \in repeating |->
                       [jsTimers[id] EXCEPT !.target = now + jsTimers[id].duration]]
<1>0. /\ TimingTypeOK /\ fire.at = "update" /\ fire.toCall \subseteq DOMAIN jsTimers
      /\ CallTimers(fire.toCall) /\ UNCHANGED <<now, base, js, created>>
      /\ jsTimers' = [id \in (DOMAIN jsTimers \ fire.toCall) \union repeating |->
                        IF id \in repeating THEN again[id] ELSE jsTimers[id]]
      /\ fire' = [at |-> "resched", next |-> Min({fire.next, NextTarget(again)})]
  BY DEF TimingInv, Update
<1>1. /\ calls \in [Id -> Nat] /\ DOMAIN created \subseteq Id /\ now \in Nat
      /\ DOMAIN jsTimers \subseteq DOMAIN created
      /\ jsTimers \in [DOMAIN jsTimers -> Entry]
  <2>1. DOMAIN created = 1..Len(created) /\ Len(created) \in Nat /\ MaxTimers \in Nat
        /\ Len(created) <= MaxTimers
    BY <1>0, TimingAssumption, LenProperties DEF TimingTypeOK
  <2>2. DOMAIN created \subseteq Id
    BY <2>1 DEF Id
  <2> QED BY <1>0, <2>2 DEF TimingTypeOK
<1>2. /\ calls' \in [Id -> Nat]
      /\ \A id \in Id : id \notin fire.toCall => calls'[id] = calls[id]
      /\ \A id \in Id : id \in fire.toCall => calls'[id] = calls[id] + 1
  BY <1>0, <1>1, CallTimersCounts
<1>3. again \in [repeating -> Entry] /\ \A id \in repeating : again[id].repeats = jsTimers[id].repeats
  <2> SUFFICES ASSUME NEW id \in repeating
               PROVE  /\ [jsTimers[id] EXCEPT !.target = now + jsTimers[id].duration] \in Entry
                      /\ [jsTimers[id] EXCEPT !.target = now + jsTimers[id].duration].repeats
                           = jsTimers[id].repeats
    OBVIOUS
  <2>1. jsTimers[id] \in Entry
    BY <1>0, <1>1
  <2>2. jsTimers[id].duration \in Nat
    BY <2>1 DEF Entry
  <2>3. now + jsTimers[id].duration \in Nat
    BY <1>1, <2>2
  <2> QED BY <2>1, <2>3 DEF Entry
<1>4. fire' \in [at : {"resched"}, next : Nat]
  <2>1. NextTarget(again) \in Nat
    <3>1. DOMAIN again = repeating
      OBVIOUS
    <3> HIDE DEF again
    <3> QED BY <1>3, <3>1, NextTargetType
  <2>2. fire.next \in Nat
    BY <1>0 DEF TimingTypeOK, Idle, Undefined, Scanning
  <2>3. {fire.next, NextTarget(again)} \in SUBSET Nat
    BY <2>1, <2>2
  <2>4. Min({fire.next, NextTarget(again)}) \in {fire.next, NextTarget(again)}
    BY <2>3, MinOfNats
  <2> QED BY <1>0, <2>3, <2>4
<1> HIDE DEF again
<1>5. /\ DOMAIN jsTimers' = (DOMAIN jsTimers \ fire.toCall) \union repeating
      /\ DOMAIN jsTimers' \subseteq DOMAIN jsTimers
      /\ \A id \in DOMAIN jsTimers' : jsTimers'[id] \in Entry
                                      /\ jsTimers'[id].repeats = jsTimers[id].repeats
      /\ \A id \in DOMAIN jsTimers' : id \in fire.toCall => jsTimers[id].repeats
  BY <1>0, <1>1, <1>3
<1>6. jsTimers' \in [DOMAIN jsTimers' -> Entry]
  BY <1>0, <1>5
<1> HIDE DEF repeating
<1>7. TimingTypeOK'
  BY <1>0, <1>1, <1>2, <1>4, <1>5, <1>6 DEF TimingTypeOK
<1>8. Fresh \subseteq Fresh'
  BY <1>0, <1>1, <1>2, <1>5 DEF Fresh
<1>9. QueueFresh' /\ QueueDistinct'
  <2>1. Carries(base, base')
    BY <1>0, CarriesItself DEF TimingTypeOK
  <2> QED BY <1>8, <2>1, QueueStaysFresh DEF TimingInv
<1>10. TableKept'
  BY <1>0, <1>1, <1>2, <1>5 DEF TimingInv, TableKept
<1>11. InsertKept'
  <2> SUFFICES ASSUME js.at = "insert" PROVE InsertKept'
    BY <1>0 DEF InsertKept
  <2>1. js.id \in Id /\ js.id \notin fire.toCall /\ js.id \notin DOMAIN jsTimers'
    BY <1>0, <1>1, <1>5 DEF TimingInv, TimingTypeOK, InsertKept
  <2> QED BY <1>0, <1>2, <2>1 DEF TimingInv, InsertKept
<1>12. CalledOnce'
  BY <1>0, <1>1, <1>2, <1>5 DEF TimingInv, CalledOnce, TableKept
<1>13. Uncalled'
  BY <1>0, <1>1, <1>2 DEF TimingInv, Uncalled
<1> QED BY <1>7, <1>9, <1>10, <1>11, <1>12, <1>13 DEF TimingInv

-----------------------------------------------------------------------------

LEMMA TimingInit == Init => TimingInv
<1> SUFFICES ASSUME Init PROVE TimingInv
  OBVIOUS
<1>1. /\ now = 0 /\ base = <<>> /\ jsTimers = <<>> /\ js = Idle /\ fire = Idle
      /\ created = <<>> /\ calls = [id \in Id |-> 0]
  BY DEF Init, TimerInit
<1>2. js.at # "insert" /\ Len(created) = 0 /\ MaxTimers \in Nat
  BY <1>1, TimingAssumption DEF Idle
<1>3. TimingTypeOK
  BY <1>1, <1>2 DEF TimingTypeOK
<1> QED BY <1>1, <1>2, <1>3 DEF TimingInv, TableKept, InsertKept, QueueFresh, QueueDistinct,
                               CalledOnce, Uncalled

LEMMA TimingStep == TimingInv /\ [Next]_vars => TimingInv'
<1> SUFFICES ASSUME TimingInv, [Next]_vars PROVE TimingInv'
  OBVIOUS
<1>1. CASE CreateImmediate
  BY <1>1, CreateImmediateKeeps
<1>2. CASE \E duration \in Delay, overhead \in Overhead :
             CreateTimer(duration, overhead, FALSE)
  BY <1>2, CreateTimerKeeps, TimingAssumption
<1>3. CASE \E duration \in Interval, overhead \in Overhead :
             CreateTimer(duration, overhead, TRUE)
  BY <1>3, CreateTimerKeeps, TimingAssumption
<1>4. CASE \E id \in Id : DeleteTimer(id)
  BY <1>4, DeleteKeeps
<1>5. CASE JSStep
  BY <1>5, InsertKeeps, JoinKeeps DEF JSStep
<1>6. CASE TimerStep \/ Tick
  <2>1. CASE ImmediatelyCallTimer
    BY <2>1, CallImmediateKeeps
  <2>2. CASE Update
    BY <2>2, UpdateKeeps
  <2>3. CASE \/ HandleSchedule \/ HandleCancel \/ HandleFire \/ TimeoutExpired
             \/ Scan \/ UpdateDangling \/ RescheduleNext \/ Tick
    <3>1. TimingTypeOK
      BY DEF TimingInv
    <3> QED BY <2>3, <3>1, QuietSteps, QuietKeeps
  <2> QED BY <1>6, <2>1, <2>2, <2>3 DEF TimerStep
<1>7. CASE UNCHANGED vars
  <2>1. TimingTypeOK /\ UNCHANGED <<now, base, jsTimers, js, fire, created, calls>>
    BY <1>7 DEF vars, TimingInv
  <2>2. Carries(base, base')
    BY <2>1, CarriesItself DEF TimingTypeOK
  <2>3. QuietStep /\ TimingTypeOK'
    BY <2>1, <2>2, QuietType DEF TimingTypeOK
  <2> QED BY <2>3, QuietKeeps
<1> QED BY <1>1, <1>2, <1>3, <1>4, <1>5, <1>6, <1>7 DEF Next

LEMMA TimingInvariant == Spec => []TimingInv
<1> QED BY TimingInit, TimingStep, PTL DEF Spec

(***************************************************************************)
(* Whatever the two threads interleave, a timer that does not repeat is    *)
(* called at most once, and not at all while it is in the table            *)
(* (RSkTimingModule.cpp:61, 125-128).                                      *)
(***************************************************************************)
THEOREM OneShotHolds == Spec => []OneShotCalledOnce
<1>1. TimingInv => OneShotCalledOnce
  BY DEF TimingInv, TableKept, CalledOnce, OneShotCalledOnce
<1> QED BY <1>1, TimingInvariant, PTL

=============================================================================
