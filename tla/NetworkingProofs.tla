-------------------------- MODULE NetworkingProofs --------------------------
(***************************************************************************)
(* Proofs about Networking, for any requests, URLs and senders: an abort   *)
(* silences its request, and the worker does not sleep through one.  And   *)
(* about ExpiringCache, where the responses are kept, for any keys, ages   *)
(* and bounds: whatever is in the map, a wake-up is pending; and every     *)
(* step of the code is one of the abstract cache.                          *)
(***************************************************************************)
EXTENDS Networking, ExpiringCache, SequenceTheorems, FiniteSetTheorems,
        WellFoundedInduction, TLAPS

Phase == {"unused", "cached", "unanswered", "refused", "answered", "aborted", "multi", "done",
          "read"}
AtPc  == {"idle", "check", "assign", "paint", "sent", "clear", "done"}

NetTypeOK ==
  /\ phase \in [Request -> Phase]
  /\ at \in [Request -> AtPc]
  /\ step \in [Sender -> {"added", "post", "sent", "returned"}]
  /\ networkRequestSem \in Nat
  /\ worker \in {"wait", "perform", "read", "callback"}
  /\ stillAlive \in BOOLEAN
  /\ remote \in Request \cup {None}

(***************************************************************************)
(* The callbacks of a request begin only when libcurl no longer has it,    *)
(* and nothing leads back to libcurl: no abort meets a request whose       *)
(* callbacks have begun, and nothing follows an abort.                     *)
(***************************************************************************)
Silent ==
  /\ \A r \in Request : at[r] # "idle" => phase[r] \in {"read", "cached", "answered"}
  /\ \A r \in silenced : r \in Request /\ phase[r] = "aborted" /\ at[r] = "idle"

\* The worker is asleep, or will be when it has read the messages.
Dozing == worker = "wait" \/ (worker \in {"read", "callback"} /\ ~stillAlive)

(***************************************************************************)
(* WorkerAwake is not inductive: a handle that is added while the worker   *)
(* reads messages is not seen by its local stillAlive, so the post must be *)
(* on its way before the worker sleeps.                                    *)
(***************************************************************************)
Awake ==
  Dozing /\ InPhase("multi") # {} =>
    networkRequestSem > 0 \/ \E s \in Sender : step[s] \in {"added", "post"}

NetInv == NetTypeOK /\ Silent /\ Awake

-----------------------------------------------------------------------------
(* The kinds of steps, by what they do to the requests and to the worker.  *)

threadVars == <<networkRequestSem, worker, stillAlive>>

\* sendRequest() adds a handle, finds a cached response, or refuses.
Sent(s, r) ==
  /\ phase[r] = "unused" /\ UNCHANGED threadVars
  /\ \/ /\ phase' = [phase EXCEPT ![r] = "multi"]
        /\ step' = [step EXCEPT ![s] = "added"]
     \/ /\ step[s] = "returned"
        /\ \E p \in {"cached", "unanswered", "refused"} : phase' = [phase EXCEPT ![r] = p]
        /\ step' = [step EXCEPT ![s] = "sent"]

\* A callback of request r goes on.
CallbackMoves(r) ==
  /\ at[r] # "idle" \/ phase[r] \in {"read", "cached"}
  /\ \E a \in AtPc \ {"idle"} : at' = [at EXCEPT ![r] = a]

SendStarts ==
  \E s \in Sender, r \in Request :
    /\ Sent(s, r)
    /\ UNCHANGED at \/ \E c \in Request : CallbackMoves(c)

SendEnds ==
  \E s \in Sender :
    /\ Returned(s) /\ UNCHANGED <<phase, threadVars>>
    /\ \/ UNCHANGED at
       \/ at' = [r \in Request |-> IF at[r] = "sent" THEN "clear" ELSE at[r]]

AbortStep == \E r \in Request : AbortRequest(r) /\ UNCHANGED <<at, threadVars>>

TransferEnds == \E r \in Request : Perform(r) /\ UNCHANGED at

AnswerStep ==
  \E r \in Request : /\ Cleanup(r) \/ CachedAnswer(r)
                     /\ UNCHANGED at \/ CallbackMoves(r)

RestStep ==
  /\ UNCHANGED <<phase, step, threadVars>>
  /\ UNCHANGED at \/ \E r \in Request : CallbackMoves(r)

CurlStep ==
  \/ \E s \in Sender : (GetValue(s) \/ Post(s)) /\ UNCHANGED at
  \/ (Wake \/ PerformIdle \/ NoMessage \/ \E r \in Request : Read(r)) /\ UNCHANGED at

\* Only an abort silences, and only mounting, a picture or a completion changes
\* the component's request.
StepKinds ==
  \/ AbortStep
  \/ /\ UNCHANGED silenced
     /\ SendStarts \/ SendEnds \/ TransferEnds \/ AnswerStep \/ RestStep \/ CurlStep

\* What OnPaint() does to the requests.
LEMMA PaintKinds ==
  ASSUME NEW t \in Sender, NEW u, OnPaint(t, u)
  PROVE  /\ (\E r \in Request : Sent(t, r) /\ remote' = r)
            \/ UNCHANGED <<phase, step, threadVars, remote>>
<1>1. CASE UNCHANGED curlVars /\ UNCHANGED remote
  BY <1>1 DEF curlVars, threadVars
<1>2. CASE RequestNetworkImageData(t, u)
  <2>1. PICK r \in Request : Send(t, r, u) /\ remote' = r
    BY <1>2 DEF RequestNetworkImageData
  <2>2. Sent(t, r)
    BY <2>1 DEF Send, Sent, threadVars
  <2> QED BY <2>1, <2>2
<1> QED BY <1>1, <1>2 DEF OnPaint, Show, PaintLocal

\* What the abort of the component's request does.
LEMMA AbortOwnKinds ==
  ASSUME NetTypeOK, AbortOwn, UNCHANGED at
  PROVE  /\ AbortStep \/ (UNCHANGED <<phase, step, threadVars, at, silenced>>)
         /\ remote' \in Request \cup {None}
<1>1. CASE inProgress /\ remote # None
  BY <1>1 DEF AbortOwn, NetTypeOK, AbortStep, AbortRequest, threadVars
<1>2. CASE ~(inProgress /\ remote # None)
  BY <1>2 DEF AbortOwn, NetTypeOK, curlVars, threadVars
<1> QED BY <1>1, <1>2

LEMMA NextKinds ==
  ASSUME NetTypeOK, [Next]_vars
  PROVE  StepKinds /\ remote' \in Request \cup {None}
PROOF
<1> USE DEF curlVars, threadVars, scriptVars, imageVars, Others
<1> DEFINE Goal == StepKinds /\ remote' \in Request \cup {None}
<1>0. remote \in Request \cup {None} /\ {"main", "js", "callback"} \subseteq Sender
  BY SenderAssumption DEF NetTypeOK
<1>1. ASSUME NEW u \in Url, UpdateComponentProps(u) PROVE Goal
  BY <1>1, AbortOwnKinds DEF UpdateComponentProps, StepKinds, RestStep
<1>2. CASE MainPaint
  <2>1. OnPaint("main", newUri) /\ UNCHANGED <<at, silenced>>
    BY <1>2 DEF MainPaint
  <2>2. \/ \E r \in Request : Sent("main", r) /\ remote' = r
        \/ UNCHANGED <<phase, step, threadVars, remote>>
    BY <1>0, <2>1, PaintKinds
  <2> QED BY <1>0, <2>1, <2>2 DEF StepKinds, SendStarts, RestStep
<1>3. ASSUME NEW t \in {"main", "callback"}, PaintReturned(t) PROVE Goal
  BY <1>0, <1>3 DEF PaintReturned, StepKinds, SendEnds
<1>4. CASE Unmount
  BY <1>0, <1>4, AbortOwnKinds DEF Unmount, StepKinds, RestStep
<1>5. ASSUME NEW r \in Request, PerformImage(r) \/ PerformScript(r) PROVE Goal
  BY <1>0, <1>5 DEF PerformImage, PerformScript, StepKinds, TransferEnds
<1>6. ASSUME NEW r \in Request, CachedHeader(r) PROVE Goal
  BY <1>0, <1>6 DEF CachedHeader, StepKinds, RestStep, CallbackMoves, AtPc
<1>7. ASSUME NEW r \in Request, ProcessImageData(r) PROVE Goal
  <2>1. phase[r] \in {"read", "cached"}
    BY <1>7 DEF ProcessImageData, Completing
  <2>2. /\ \E a \in {"paint", "assign", "clear"} : at' = [at EXCEPT ![r] = a]
        /\ UNCHANGED <<phase, step, threadVars, silenced, remote>>
    BY <1>7 DEF ProcessImageData
  <2> QED BY <1>0, <2>1, <2>2 DEF StepKinds, RestStep, CallbackMoves, AtPc
<1>8. ASSUME NEW r \in Request, AssignImage(r) PROVE Goal
  BY <1>0, <1>8 DEF AssignImage, StepKinds, RestStep, CallbackMoves, AtPc
<1>9. ASSUME NEW r \in Request, CallbackPaint(r) PROVE Goal
  <2>1. CallbackMoves(r) /\ OnPaint("callback", uri) /\ UNCHANGED silenced
    BY <1>9 DEF CallbackPaint, CallbackMoves, AtPc
  <2>2. \/ \E q \in Request : Sent("callback", q) /\ remote' = q
        \/ UNCHANGED <<phase, step, threadVars, remote>>
    BY <1>0, <2>1, PaintKinds
  <2> QED BY <1>0, <2>1, <2>2 DEF StepKinds, SendStarts, RestStep
<1>10. ASSUME NEW r \in Request, CompleteImage(r) PROVE Goal
  <2>1. /\ at' = [at EXCEPT ![r] = "done"] /\ (Cleanup(r) \/ CachedAnswer(r)) /\ UNCHANGED silenced
        /\ remote' \in {remote, None}
    BY <1>10 DEF CompleteImage
  <2>2. CallbackMoves(r)
    BY <2>1 DEF CallbackMoves, AtPc, Cleanup, CachedAnswer
  <2> QED BY <1>0, <2>1, <2>2 DEF StepKinds, AnswerStep
<1>11. ASSUME NEW r \in Request, CompleteScript(r) \/ CompleteSize(r) PROVE Goal
  BY <1>0, <1>11 DEF CompleteScript, CompleteSize, StepKinds, AnswerStep
<1>12. ASSUME NEW r \in Request, ScriptAbort(r) PROVE Goal
  BY <1>0, <1>12 DEF ScriptAbort, StepKinds, AbortStep, AbortRequest, RestStep
<1>13. ASSUME NEW r \in Request, NEW u \in Url \ Local, ScriptSend(r, u) \/ GetImageSize(r, u) PROVE Goal
  <2>1. Send("js", r, u) /\ UNCHANGED <<at, silenced, remote>>
    BY <1>13 DEF ScriptSend, GetImageSize, ScriptStarts
  <2>2. Sent("js", r)
    BY <2>1 DEF Send, Sent
  <2> QED BY <1>0, <2>1, <2>2 DEF StepKinds, SendStarts
<1>14. CASE ScriptReturned
  BY <1>0, <1>14 DEF ScriptReturned, StepKinds, SendEnds
<1>15. ASSUME NEW s \in Sender, SenderStep(s) PROVE Goal
  BY <1>0, <1>15 DEF SenderStep, StepKinds, CurlStep
<1>16. CASE WorkerStep
  BY <1>0, <1>16 DEF WorkerStep, StepKinds, CurlStep
<1>17. CASE (ExpireResponse /\ UNCHANGED Others) \/ ExpireImage \/ UNCHANGED vars
  BY <1>0, <1>17 DEF ExpireResponse, ExpireImage, StepKinds, RestStep, vars
<1> QED BY <1>1, <1>2, <1>3, <1>4, <1>5, <1>6, <1>7, <1>8, <1>9, <1>10, <1>11, <1>12, <1>13, <1>14,
           <1>15, <1>16, <1>17 DEF Next, EndTransfer, CallbackStep

-----------------------------------------------------------------------------
(* Type correctness.                                                       *)

LEMMA NextNetType == NetTypeOK /\ [Next]_vars => NetTypeOK'
PROOF
<1> SUFFICES ASSUME NetTypeOK, [Next]_vars PROVE NetTypeOK'
  OBVIOUS
<1>1. StepKinds /\ remote' \in Request \cup {None}
  BY NextKinds
<1> USE DEF NetTypeOK, threadVars, Phase
<1>2. CASE AbortStep
  BY <1>1, <1>2 DEF AbortStep, AbortRequest, Abort
<1>at. UNCHANGED at \/ (\E r \in Request : CallbackMoves(r)) => at' \in [Request -> AtPc]
  BY DEF CallbackMoves
<1>3. CASE SendStarts
  <2>1. PICK s \in Sender, r \in Request : Sent(s, r)
    BY <1>3 DEF SendStarts
  <2>2. at' \in [Request -> AtPc]
    BY <1>3, <1>at DEF SendStarts
  <2>3. phase' \in [Request -> Phase]
    BY <2>1 DEF Sent
  <2>4. step' \in [Sender -> {"added", "post", "sent", "returned"}]
    BY <2>1 DEF Sent
  <2> QED BY <1>1, <2>1, <2>2, <2>3, <2>4 DEF Sent
<1>4. CASE SendEnds
  BY <1>1, <1>4 DEF SendEnds, Returned, AtPc
<1>5. CASE TransferEnds
  <2>1. PICK r \in Request : Perform(r) /\ UNCHANGED at
    BY <1>5 DEF TransferEnds
  <2>2. stillAlive' \in BOOLEAN
    BY <2>1 DEF Perform
  <2> QED BY <1>1, <2>1, <2>2 DEF Perform
<1>6. CASE AnswerStep
  BY <1>1, <1>6, <1>at DEF AnswerStep, Cleanup, CachedAnswer
<1>7. CASE RestStep
  BY <1>1, <1>7, <1>at DEF RestStep
<1>8. CASE CurlStep
  <2>1. ASSUME NEW s \in Sender, GetValue(s) \/ Post(s), UNCHANGED at PROVE NetTypeOK'
    BY <1>1, <2>1 DEF GetValue, Post
  <2>2. CASE Wake /\ UNCHANGED at
    BY <1>1, <2>2 DEF Wake
  <2>3. CASE PerformIdle /\ UNCHANGED at
    <3>1. stillAlive' \in BOOLEAN
      BY <2>3 DEF PerformIdle
    <3> QED BY <1>1, <2>3, <3>1 DEF PerformIdle
  <2>4. CASE NoMessage /\ UNCHANGED at
    BY <1>1, <2>4 DEF NoMessage
  <2>5. ASSUME NEW r \in Request, Read(r), UNCHANGED at PROVE NetTypeOK'
    BY <1>1, <2>5 DEF Read
  <2> QED BY <1>8, <2>1, <2>2, <2>3, <2>4, <2>5 DEF CurlStep
<1> QED BY <1>1, <1>2, <1>3, <1>4, <1>5, <1>6, <1>7, <1>8 DEF StepKinds

-----------------------------------------------------------------------------
(* An abort silences.                                                      *)

LEMMA NextSilent == NetTypeOK /\ Silent /\ [Next]_vars => Silent'
PROOF
<1> SUFFICES ASSUME NetTypeOK, Silent, [Next]_vars PROVE Silent'
  OBVIOUS
<1>1. StepKinds
  BY NextKinds
<1> USE DEF NetTypeOK, Silent
<1>2. CASE AbortStep
  <2>1. PICK r \in Request : AbortRequest(r) /\ UNCHANGED at
    BY <1>2 DEF AbortStep
  <2>2. CASE phase[r] \in {"multi", "done"}
    BY <2>1, <2>2 DEF AbortRequest, Abort
  <2>3. CASE phase[r] \notin {"multi", "done"}
    BY <2>1, <2>3 DEF AbortRequest, Abort
  <2> QED BY <2>2, <2>3
\* A callback that moves is one that has begun, or may begin.
<1>moved. ASSUME UNCHANGED <<phase, silenced>>, NEW c \in Request, CallbackMoves(c) PROVE Silent'
  BY <1>moved DEF CallbackMoves
<1>3. CASE SendStarts /\ UNCHANGED silenced
  <2>1. PICK s \in Sender, r \in Request : /\ Sent(s, r)
                                           /\ UNCHANGED at \/ \E c \in Request : CallbackMoves(c)
    BY <1>3 DEF SendStarts
  <2>2. phase[r] = "unused" /\ r \notin silenced /\ at[r] = "idle"
    <3>1. phase[r] = "unused"
      BY <2>1 DEF Sent
    <3> QED BY <3>1
  <2>3. \A q \in Request : q # r => phase'[q] = phase[q]
    <3>1. \E p : phase' = [phase EXCEPT ![r] = p]
      BY <2>1 DEF Sent
    <3> QED BY <3>1
  <2>4. \A q \in Request : \/ at'[q] = at[q]
                           \/ phase[q] \in {"read", "cached", "answered"}
    BY <2>1 DEF CallbackMoves
  <2> QED BY <1>3, <2>2, <2>3, <2>4
<1>4. CASE SendEnds /\ UNCHANGED silenced
  BY <1>4 DEF SendEnds
<1>5. CASE TransferEnds /\ UNCHANGED silenced
  BY <1>5 DEF TransferEnds, Perform
<1>6. CASE AnswerStep /\ UNCHANGED silenced
  <2>1. PICK r \in Request : /\ Cleanup(r) \/ CachedAnswer(r)
                             /\ UNCHANGED at \/ CallbackMoves(r)
    BY <1>6 DEF AnswerStep
  <2>2. phase[r] \in {"read", "cached"} /\ phase' = [phase EXCEPT ![r] = "answered"]
    <3>1. CASE Cleanup(r)
      BY <3>1 DEF Cleanup
    <3>2. CASE CachedAnswer(r)
      BY <3>2 DEF CachedAnswer
    <3> QED BY <2>1, <3>1, <3>2
  <2> QED BY <1>6, <2>1, <2>2 DEF CallbackMoves
<1>7. CASE RestStep /\ UNCHANGED silenced
  BY <1>7, <1>moved DEF RestStep
<1>8. CASE CurlStep /\ UNCHANGED silenced
  BY <1>8 DEF CurlStep, GetValue, Post, Wake, PerformIdle, NoMessage, Read
<1> QED BY <1>1, <1>2, <1>3, <1>4, <1>5, <1>6, <1>7, <1>8 DEF StepKinds

-----------------------------------------------------------------------------
(* The worker is woken.                                                    *)

LEMMA NextAwake == NetTypeOK /\ Awake /\ [Next]_vars => Awake'
PROOF
<1> SUFFICES ASSUME NetTypeOK, Awake, [Next]_vars PROVE Awake'
  OBVIOUS
<1>1. StepKinds
  BY NextKinds
<1> USE DEF NetTypeOK, Awake, Dozing, threadVars, InPhase
\* Nobody is given a handle, and nobody who is about to post changes his mind.
<1>fewer. ASSUME InPhase("multi")' \subseteq InPhase("multi"), Dozing' => Dozing,
                 UNCHANGED <<networkRequestSem, step>>
          PROVE  Awake'
  BY <1>fewer
<1>2. CASE AbortStep
  <2>1. InPhase("multi")' \subseteq InPhase("multi")
    BY <1>2 DEF AbortStep, AbortRequest, Abort
  <2> QED BY <1>2, <1>fewer, <2>1 DEF AbortStep, AbortRequest
<1>3. CASE SendStarts
  <2>1. PICK s \in Sender, r \in Request : Sent(s, r)
    BY <1>3 DEF SendStarts
  <2>2. CASE step' = [step EXCEPT ![s] = "added"]
    BY <2>2
  <2>3. CASE /\ step[s] = "returned" /\ step' = [step EXCEPT ![s] = "sent"]
             /\ \E p \in {"cached", "unanswered", "refused"} : phase' = [phase EXCEPT ![r] = p]
    <3>1. InPhase("multi")' \subseteq InPhase("multi")
      BY <2>3
    <3>2. \A q \in Sender : step[q] \in {"added", "post"} => step'[q] = step[q]
      BY <2>3
    <3> QED BY <2>1, <3>1, <3>2 DEF Sent
  <2> QED BY <2>1, <2>2, <2>3 DEF Sent
<1>4. CASE SendEnds
  <2>1. PICK s \in Sender : Returned(s) /\ UNCHANGED <<phase, threadVars>>
    BY <1>4 DEF SendEnds
  <2>2. \A q \in Sender : step[q] \in {"added", "post"} => step'[q] = step[q]
    BY <2>1 DEF Returned
  <2> QED BY <2>1, <2>2
<1>5. CASE TransferEnds
  <2>1. PICK r \in Request : Perform(r)
    BY <1>5 DEF TransferEnds
  <2>2. worker' = "read" /\ (~stillAlive' => InPhase("multi") = {r})
    BY <2>1 DEF Perform
  <2>3. InPhase("multi")' = InPhase("multi") \ {r}
    BY <2>1 DEF Perform
  <2> QED BY <2>2, <2>3
<1>6. CASE AnswerStep
  <2>1. InPhase("multi")' \subseteq InPhase("multi")
    BY <1>6 DEF AnswerStep, Cleanup, CachedAnswer
  <2> QED BY <1>6, <1>fewer, <2>1 DEF AnswerStep, Cleanup, CachedAnswer
<1>7. CASE RestStep
  BY <1>7 DEF RestStep
<1>8. CASE CurlStep
  <2>1. ASSUME NEW s \in Sender, GetValue(s) PROVE Awake'
    <3>1. CASE networkRequestSem = 0
      BY <2>1, <3>1 DEF GetValue
    <3>2. CASE networkRequestSem # 0
      BY <2>1, <3>2 DEF GetValue
    <3> QED BY <3>1, <3>2
  <2>2. ASSUME NEW s \in Sender, Post(s) PROVE Awake'
    <3>1. networkRequestSem' > 0
      BY <2>2 DEF Post
    <3> QED BY <3>1
  <2>3. CASE Wake
    BY <2>3 DEF Wake
  <2>4. CASE PerformIdle
    BY <2>4 DEF PerformIdle
  <2>5. CASE NoMessage
    BY <2>5, <1>fewer DEF NoMessage
  <2>6. ASSUME NEW r \in Request, Read(r) PROVE Awake'
    <3>1. InPhase("multi")' \subseteq InPhase("multi")
      BY <2>6 DEF Read
    <3> QED BY <2>6, <1>fewer, <3>1 DEF Read
  <2> QED BY <1>8, <2>1, <2>2, <2>3, <2>4, <2>5, <2>6 DEF CurlStep
<1> QED BY <1>1, <1>2, <1>3, <1>4, <1>5, <1>6, <1>7, <1>8 DEF StepKinds

-----------------------------------------------------------------------------
(* The theorems.                                                           *)

LEMMA NetInvHolds == Spec => []NetInv
PROOF
<1>1. Init => NetInv
  <2> SUFFICES ASSUME Init PROVE NetInv
    OBVIOUS
  <2>1. NetTypeOK
    BY DEF Init, CurlInit, NetTypeOK, Phase, AtPc
  <2>2. Silent
    BY DEF Init, CurlInit, Silent
  <2>3. Awake
    BY DEF Init, CurlInit, Awake, InPhase
  <2> QED BY <2>1, <2>2, <2>3 DEF NetInv
<1>2. NetInv /\ [Next]_vars => NetInv'
  BY NextNetType, NextSilent, NextAwake DEF NetInv
<1> QED BY <1>1, <1>2, PTL DEF Spec

\* The completion callback of a request that was aborted while libcurl had it
\* never begins, for any requests, URLs, senders and thread interleaving
\* (CurlNetworking.cpp:353-369).
THEOREM AbortHolds == Spec => []AbortSilences
PROOF
<1>1. NetInv => AbortSilences
  BY DEF NetInv, Silent, AbortSilences
<1> QED BY <1>1, NetInvHolds, PTL

\* The worker never sleeps on the semaphore while libcurl has a handle, unless
\* somebody has posted or is about to (CurlNetworking.cpp:346-349 against :30
\* and :151-154): the safety part of "no wake-up is lost".
THEOREM AwakeHolds == Spec => []WorkerAwake
PROOF
<1>1. NetInv => WorkerAwake
  BY DEF NetInv, Awake, Dozing, WorkerAwake
<1> QED BY <1>1, NetInvHolds, PTL


-----------------------------------------------------------------------------
(* The cache of the responses                                              *)

Function == [op : {"cancel", "fire"}] \cup [op : {"schedule"}, duration : Int]
Task == [own : BOOLEAN, function : Function]

CacheTypeOK ==
  /\ now \in Nat
  /\ cb \in BOOLEAN
  /\ base \in Seq(Task)
  /\ cacheMap \in [DOMAIN cacheMap -> Int]
  /\ scheduleTimeExpiry \in Int
  /\ walk \in {NoWalk} \cup [at : Nat, next : Int]

\* A function of this kind is queued.
Has(queue, op) == \E i \in DOMAIN queue : queue[i].function.op = op

(***************************************************************************)
(* WakeUpPending is not inductive: a queued abort would empty the wheel    *)
(* that the map relies on.  It does no harm, because reschedule() queues   *)
(* an abort only in front of a call of the callback, and the functions of  *)
(* one thread are run in order.                                            *)
(***************************************************************************)
CancelsFire(queue) ==
  \A i \in DOMAIN queue : queue[i].function.op = "cancel" =>
    \E j \in DOMAIN queue :
      j > i /\ queue[j].function.op = "fire" /\ queue[j].own = queue[i].own

CacheInv == TypeOK /\ CacheTypeOK /\ CancelsFire(base) /\ WakeUpPending

-----------------------------------------------------------------------------
(* Least elements, and the queue of the timer's thread.                    *)

\* A set of natural numbers has a least element.
LEMMA MinOfNats ==
  ASSUME NEW S \in SUBSET Nat, S # {}
  PROVE  Min(S) \in S
<1> DEFINE R == {p \in Nat \X Nat : p[1] < p[2]}
<1>1. IsWellFoundedOn(R, Nat)
  BY NatLessThanWellFounded DEF OpToRel
<1>2. \E x \in S : \A y \in S : <<y, x>> \notin R
  BY <1>1, WFMin
<1>3. PICK x \in S : \A y \in S : <<y, x>> \notin R
  BY <1>2
<1>4. \A y \in S : x <= y
  <2> SUFFICES ASSUME NEW y \in S PROVE x <= y
    OBVIOUS
  <2>1. <<y, x>> \notin R /\ x \in Nat /\ y \in Nat
    BY <1>3
  <2>2. ~(y < x)
    BY <2>1
  <2> QED BY <2>1, <2>2
<1> QED BY <1>4 DEF Min

\* What is left when the function at place i is taken from the queue.
LEMMA Removed ==
  ASSUME NEW S, NEW s \in Seq(S), NEW i \in 1..Len(s)
  PROVE  /\ RemoveAt(s, i) \in Seq(S)
         /\ Len(RemoveAt(s, i)) = Len(s) - 1
         /\ \A j \in 1..(Len(s) - 1) : RemoveAt(s, i)[j] = IF j < i THEN s[j] ELSE s[j + 1]
<1> DEFINE a == SubSeq(s, 1, i - 1)
           b == SubSeq(s, i + 1, Len(s))
<1>1. Len(s) \in Nat /\ i \in Nat /\ i >= 1 /\ i <= Len(s)
  OBVIOUS
<1>2. /\ a \in Seq(S) /\ Len(a) = i - 1
      /\ \A j \in 1..(i - 1) : a[j] = s[j]
  BY <1>1, SubSeqProperties
<1>3. /\ b \in Seq(S) /\ Len(b) = Len(s) - i
      /\ \A j \in 1..(Len(s) - i) : b[j] = s[i + j]
  BY <1>1, SubSeqProperties
<1> HIDE DEF a, b
<1>4. a \o b \in Seq(S) /\ Len(a \o b) = Len(a) + Len(b)
  BY <1>2, <1>3, ConcatProperties
<1>5. Len(a \o b) = Len(s) - 1
  BY <1>1, <1>2, <1>3, <1>4
<1>6. ASSUME NEW j \in 1..(Len(s) - 1) PROVE (a \o b)[j] = IF j < i THEN s[j] ELSE s[j + 1]
  <2>1. (a \o b)[j] = IF j <= Len(a) THEN a[j] ELSE b[j - Len(a)]
    <3>1. j \in 1..(Len(a) + Len(b))
      BY <1>4, <1>5
    <3> QED BY <1>2, <1>3, <3>1, ConcatProperties
  <2>2. CASE j < i
    BY <1>1, <1>2, <2>1, <2>2
  <2>3. CASE ~(j < i)
    <3>1. j - (i - 1) \in 1..(Len(s) - i) /\ i + (j - (i - 1)) = j + 1 /\ ~(j <= i - 1)
      BY <1>1, <2>3
    <3>2. b[j - (i - 1)] = s[j + 1]
      BY <1>3, <3>1
    <3> QED BY <1>2, <2>1, <2>3, <3>1, <3>2
  <2> QED BY <2>2, <2>3
<1> QED BY <1>4, <1>5, <1>6 DEF RemoveAt, a, b

\* A function behind the others.
LEMMA AppendKeeps ==
  ASSUME NEW q \in Seq(Task), NEW t \in Task
  PROVE  /\ Append(q, t) \in Seq(Task)
         /\ DOMAIN Append(q, t) = DOMAIN q \cup {Len(q) + 1}
         /\ \A i \in DOMAIN q : i \in Nat /\ i < Len(q) + 1 /\ Append(q, t)[i] = q[i]
         /\ Append(q, t)[Len(q) + 1] = t
<1>1. /\ Append(q, t) \in Seq(Task) /\ Len(Append(q, t)) = Len(q) + 1
      /\ \A i \in 1..Len(q) : Append(q, t)[i] = q[i]
      /\ Append(q, t)[Len(q) + 1] = t
  BY AppendProperties
<1>2. /\ DOMAIN q = 1..Len(q) /\ Len(q) \in Nat
      /\ DOMAIN Append(q, t) = 1..Len(Append(q, t))
  BY <1>1, LenProperties
<1> QED BY <1>1, <1>2

\* reschedule() leaves something that leads to the callback.
LEMMA RescheduleWakes ==
  ASSUME base \in Seq(Task), cb \in BOOLEAN, CancelsFire(base),
         NEW duration \in Int, NEW own \in BOOLEAN, Reschedule(duration, own)
  PROVE  /\ base' \in Seq(Task) /\ cb' \in BOOLEAN /\ CancelsFire(base')
         /\ Has(base', "fire") \/ (cb' /\ Has(base', "schedule"))
PROOF
<1> DEFINE cancel == Queued(own, Cancel)
           fired == Queued(own, [op |-> "fire"])
           scheduled == Queued(own, [op |-> "schedule", duration |-> duration])
<1>1. /\ cancel \in Task /\ fired \in Task /\ scheduled \in Task
      /\ cancel.own = own /\ fired.own = own
      /\ fired.function.op = "fire" /\ scheduled.function.op = "schedule"
  BY DEF Task, Function, Queued, Cancel
<1>2. \/ base' = Append(base, scheduled) /\ cb' = TRUE
      \/ base' = base \o <<cancel>> \o <<fired>> /\ cb' = (cb /\ ~IsScheduled)
      \/ base' = base \o <<>> \o <<fired>> /\ cb' = (cb /\ ~IsScheduled)
  BY DEF Reschedule
<1> HIDE DEF cancel, fired, scheduled
<1>3. CASE base' = Append(base, scheduled) /\ cb' = TRUE
  <2>1. /\ base' \in Seq(Task) /\ DOMAIN base' = DOMAIN base \cup {Len(base) + 1}
        /\ \A i \in DOMAIN base : base'[i] = base[i]
        /\ base'[Len(base) + 1].function.op = "schedule"
    BY <1>1, <1>3, AppendKeeps
  <2>2. CancelsFire(base')
    BY <2>1 DEF CancelsFire
  <2>3. Has(base', "schedule")
    BY <2>1 DEF Has
  <2> QED BY <1>3, <2>1, <2>2, <2>3
<1>4. CASE base' = base \o <<cancel>> \o <<fired>> /\ cb' = (cb /\ ~IsScheduled)
  <2> DEFINE q == Append(base, cancel)
  <2>1. /\ q \in Seq(Task) /\ DOMAIN q = DOMAIN base \cup {Len(base) + 1}
        /\ \A i \in DOMAIN base : i \in Nat /\ q[i] = base[i]
        /\ q[Len(base) + 1] = cancel
    BY <1>1, AppendKeeps
  <2>2. base' = Append(q, fired)
    BY <1>1, <1>4, <2>1, AppendIsConcat
  <2> HIDE DEF q
  <2>3. /\ base' \in Seq(Task) /\ DOMAIN base' = DOMAIN q \cup {Len(q) + 1}
        /\ \A i \in DOMAIN q : i < Len(q) + 1 /\ base'[i] = q[i]
        /\ base'[Len(q) + 1] = fired
    BY <1>1, <2>1, <2>2, AppendKeeps
  <2>4. Has(base', "fire")
    BY <1>1, <2>3 DEF Has
  <2>5. CancelsFire(base')
    <3> SUFFICES ASSUME NEW i \in DOMAIN base', base'[i].function.op = "cancel"
                 PROVE  \E j \in DOMAIN base' : /\ j > i /\ base'[j].function.op = "fire"
                                                /\ base'[j].own = base'[i].own
      BY DEF CancelsFire
    <3>1. CASE i \in DOMAIN base
      BY <2>1, <2>3, <3>1 DEF CancelsFire
    <3>2. CASE i = Len(base) + 1
      <4>1. i \in DOMAIN q /\ base'[i] = cancel /\ Len(q) + 1 > i
        BY <2>1, <2>3, <3>2, LenProperties
      <4> QED BY <1>1, <2>3, <4>1
    <3>3. CASE i = Len(q) + 1
      BY <1>1, <2>3, <3>3
    <3> QED BY <2>1, <2>3, <3>1, <3>2, <3>3
  <2> QED BY <1>4, <2>3, <2>4, <2>5
<1>5. CASE base' = base \o <<>> \o <<fired>> /\ cb' = (cb /\ ~IsScheduled)
  <2>1. base' = Append(base, fired)
    BY <1>1, <1>5, AppendIsConcat, ConcatEmptySeq
  <2>2. /\ base' \in Seq(Task) /\ DOMAIN base' = DOMAIN base \cup {Len(base) + 1}
        /\ \A i \in DOMAIN base : base'[i] = base[i]
        /\ base'[Len(base) + 1].function.op = "fire"
    BY <1>1, <2>1, AppendKeeps
  <2>3. CancelsFire(base')
    BY <2>2 DEF CancelsFire
  <2>4. Has(base', "fire")
    BY <2>2 DEF Has
  <2> QED BY <1>5, <2>2, <2>3, <2>4
<1> QED BY <1>2, <1>3, <1>4, <1>5

\* What is left when the timer's thread takes a function.
LEMMA TakeKeeps ==
  ASSUME base \in Seq(Task), CancelsFire(base),
         NEW i \in DOMAIN base, NEW op, TakeFunction(i, op)
  PROVE  /\ base' \in Seq(Task) /\ CancelsFire(base')
         /\ \A other : other # op /\ Has(base, other) => Has(base', other)
         /\ op = "cancel" => Has(base', "fire")
PROOF
<1>1. /\ base[i].function.op = op /\ base' = RemoveAt(base, i)
      /\ \A j \in 1..(i - 1) : base[j].own # base[i].own
  BY DEF TakeFunction
<1>2. DOMAIN base = 1..Len(base) /\ Len(base) \in Nat
  BY LenProperties
<1>3. /\ base' \in Seq(Task) /\ DOMAIN base' = 1..(Len(base) - 1)
      /\ \A j \in 1..(Len(base) - 1) : base'[j] = IF j < i THEN base[j] ELSE base[j + 1]
  <2>1. /\ base' \in Seq(Task) /\ Len(base') = Len(base) - 1
        /\ \A j \in 1..(Len(base) - 1) : base'[j] = IF j < i THEN base[j] ELSE base[j + 1]
    BY <1>1, <1>2, Removed
  <2> QED BY <2>1, LenProperties
<1>4. ASSUME NEW j \in DOMAIN base, j # i
      PROVE  \E m \in DOMAIN base' : base'[m] = base[j] /\ m = IF j < i THEN j ELSE j - 1
  <2>1. CASE j < i
    BY <1>2, <1>3, <2>1
  <2>2. CASE ~(j < i)
    <3>1. j - 1 \in 1..(Len(base) - 1) /\ ~(j - 1 < i) /\ (j - 1) + 1 = j
      BY <1>2, <1>4, <2>2
    <3> QED BY <1>3, <2>2, <3>1
  <2> QED BY <2>1, <2>2
<1>5. ASSUME NEW other, other # op, Has(base, other) PROVE Has(base', other)
  <2>1. PICK j \in DOMAIN base : base[j].function.op = other
    BY <1>5 DEF Has
  <2>2. j # i
    BY <1>1, <1>5, <2>1
  <2> QED BY <1>4, <2>1, <2>2 DEF Has
<1>6. ASSUME op = "cancel" PROVE Has(base', "fire")
  <2>1. \E j \in DOMAIN base : base[j].function.op = "fire"
    BY <1>1, <1>6 DEF CancelsFire
  <2>2. Has(base, "fire")
    BY <2>1 DEF Has
  <2> QED BY <1>5, <1>6, <2>2
<1>7. CancelsFire(base')
  <2> SUFFICES ASSUME NEW m \in DOMAIN base', base'[m].function.op = "cancel"
               PROVE  \E n \in DOMAIN base' : /\ n > m /\ base'[n].function.op = "fire"
                                              /\ base'[n].own = base'[m].own
    BY DEF CancelsFire
  <2>1. PICK k \in DOMAIN base : base'[m] = base[k] /\ k = IF m < i THEN m ELSE m + 1
    BY <1>2, <1>3
  <2>2. PICK j \in DOMAIN base :
               j > k /\ base[j].function.op = "fire" /\ base[j].own = base[k].own
    BY <2>1 DEF CancelsFire
  <2>3. j # i
    <3> SUFFICES ASSUME j = i PROVE FALSE
      OBVIOUS
    <3>1. k \in 1..(i - 1)
      BY <1>2, <2>2
    <3> QED BY <1>1, <2>2, <3>1
  <2>4. PICK n \in DOMAIN base' : base'[n] = base[j] /\ n = IF j < i THEN j ELSE j - 1
    BY <1>4, <2>3
  <2>5. n > m
    BY <1>2, <1>3, <2>1, <2>2, <2>3, <2>4
  <2> QED BY <2>1, <2>2, <2>4, <2>5
<1> QED BY <1>3, <1>5, <1>6, <1>7

\* The functions in the queue are of three kinds.
LEMMA QueuedKinds ==
  ASSUME NEW q \in Seq(Task), NEW i \in DOMAIN q
  PROVE  q[i].function.op \in {"schedule", "cancel", "fire"}
<1>1. q[i] \in Task
  OBVIOUS
<1>2. q[i].function \in Function
  BY <1>1 DEF Task
<1> QED BY <1>2 DEF Function

-----------------------------------------------------------------------------
(* The steps.                                                              *)

\* The map after setCache().
LEMMA StoredMap ==
  ASSUME cacheMap \in [DOMAIN cacheMap -> Int], NEW k, NEW expiry \in Int
  PROVE  LET map == Stored(k, expiry)
         IN  DOMAIN map = DOMAIN cacheMap \cup {k} /\ map \in [DOMAIN map -> Int]
BY DEF Stored

LEMMA StoreKeeps == ASSUME CacheInv, NEW k \in Key, Store(k) PROVE CacheInv'
PROOF
<1>0. /\ TypeOK /\ CacheTypeOK /\ CancelsFire(base) /\ WakeUpPending
      /\ base \in Seq(Task) /\ cb \in BOOLEAN /\ now \in Nat
      /\ cacheMap \in [DOMAIN cacheMap -> Int]
  BY DEF CacheInv, CacheTypeOK
<1>1. PICK expiry \in ExpiryTimes : SetCache(k, expiry)
  BY DEF Store
<1>2. expiry \in Int /\ expiry - now \in Int
  BY <1>0, BoundsAssumption DEF ExpiryTimes
<1> DEFINE map == Stored(k, expiry)
           earlier == Cardinality(DOMAIN map) = 1 \/ expiry < scheduleTimeExpiry
<1>3. /\ cacheMap' = map /\ UNCHANGED <<now, wheel, walk>>
      /\ earlier => scheduleTimeExpiry' = expiry /\ Reschedule(expiry - now, FALSE)
      /\ ~earlier => UNCHANGED <<scheduleTimeExpiry, timer, cb, base>>
  BY <1>1 DEF SetCache
<1>4. DOMAIN map = DOMAIN cacheMap \cup {k} /\ map \in [DOMAIN map -> Int]
  BY <1>0, <1>2, StoredMap
<1> HIDE DEF map
<1>5. base' \in Seq(Task) /\ cb' \in BOOLEAN /\ CancelsFire(base') /\ WakeUpPending'
  <2>1. CASE earlier
    <3>1. /\ base' \in Seq(Task) /\ cb' \in BOOLEAN /\ CancelsFire(base')
          /\ Has(base', "fire") \/ (cb' /\ Has(base', "schedule"))
      BY <1>0, <1>2, <1>3, <2>1, RescheduleWakes
    <3> QED BY <3>1 DEF WakeUpPending, Has
  <2>2. CASE ~earlier
    <3>1. cacheMap # <<>>
      <4>1. cacheMap = <<>> => DOMAIN map = {k}
        BY <1>4
      <4>2. Cardinality({k}) = 1
        BY FS_Singleton
      <4> QED BY <2>2, <4>1, <4>2
    <3> QED BY <1>0, <1>3, <2>2, <3>1 DEF WakeUpPending, IsScheduled
  <2> QED BY <2>1, <2>2
<1>6. CacheTypeOK'
  <2>1. scheduleTimeExpiry' \in Int
    BY <1>0, <1>2, <1>3 DEF CacheTypeOK
  <2> QED BY <1>0, <1>3, <1>4, <1>5, <2>1 DEF CacheTypeOK
<1>7. TypeOK'
  <2>1. \A i \in DOMAIN base' : base'[i].function.op \in {"schedule", "cancel", "fire"}
    BY <1>5, QueuedKinds
  <2> QED BY <1>0, <1>3, <1>4, <2>1 DEF TypeOK
<1> QED BY <1>5, <1>6, <1>7 DEF CacheInv

\* The walk of the callback.
LEMMA ExpireKeeps ==
  ASSUME CacheTypeOK, TypeOK, Expire
  PROVE  /\ cacheMap' \in [DOMAIN cacheMap' -> Int]
         /\ DOMAIN cacheMap' \subseteq DOMAIN cacheMap
         /\ walk' \in [at : Nat, next : Int] /\ walk' # NoWalk
         /\ walk'.at = now /\ now < walk'.next
PROOF
<1> DEFINE kept == {k \in DOMAIN cacheMap : cacheMap[k] > now}
           next == Min({now + Year} \union {cacheMap[k] : k \in kept})
<1>0. now \in Nat /\ cacheMap \in [DOMAIN cacheMap -> Int]
  BY DEF CacheTypeOK
<1>1. cacheMap' = [k \in kept |-> cacheMap[k]] /\ walk' = [at |-> now, next |-> next]
  BY DEF Expire
<1>2. next \in Nat /\ now < next
  <2> DEFINE S == {now + Year} \union {cacheMap[k] : k \in kept}
  <2>1. \A x \in S : x \in Nat /\ now < x
    BY <1>0, BoundsAssumption
  <2>2. S # {}
    OBVIOUS
  <2> HIDE DEF S
  <2>3. Min(S) \in S
    BY <2>1, <2>2, MinOfNats
  <2>4. next = Min(S)
    BY DEF S
  <2> QED BY <2>1, <2>3, <2>4
<1> HIDE DEF next
<1>3. walk' # NoWalk
  BY <1>0, <1>1 DEF NoWalk
<1> QED BY <1>0, <1>1, <1>2, <1>3

LEMMA EndWalkKeeps == CacheInv /\ EndWalk => CacheInv'
PROOF
<1> SUFFICES ASSUME CacheInv, EndWalk PROVE CacheInv'
  OBVIOUS
<1>0. /\ TypeOK /\ CacheTypeOK /\ CancelsFire(base)
      /\ base \in Seq(Task) /\ cb \in BOOLEAN
      /\ walk.at \in Nat /\ walk.next \in Int
      /\ walk' = NoWalk /\ UNCHANGED <<now, cacheMap, wheel>>
  BY DEF CacheInv, CacheTypeOK, EndWalk
<1>1. CASE cacheMap # <<>>
  <2>1. scheduleTimeExpiry' = walk.next /\ Reschedule(walk.next - walk.at, TRUE)
    BY <1>1 DEF EndWalk
  <2>2. walk.next - walk.at \in Int
    BY <1>0
  <2>3. /\ base' \in Seq(Task) /\ cb' \in BOOLEAN /\ CancelsFire(base')
        /\ Has(base', "fire") \/ (cb' /\ Has(base', "schedule"))
    BY <1>0, <2>1, <2>2, RescheduleWakes
  <2>4. CacheTypeOK'
    BY <1>0, <2>1, <2>3 DEF CacheTypeOK
  <2>5. \A i \in DOMAIN base' : base'[i].function.op \in {"schedule", "cancel", "fire"}
    BY <2>3, QueuedKinds
  <2>6. TypeOK'
    BY <1>0, <2>5 DEF TypeOK
  <2>7. WakeUpPending'
    BY <2>3 DEF WakeUpPending, Has
  <2> QED BY <2>3, <2>4, <2>6, <2>7 DEF CacheInv
<1>2. CASE ~(cacheMap # <<>>)
  <2>1. scheduleTimeExpiry' = 0 /\ UNCHANGED <<cb, base>>
    BY <1>2 DEF EndWalk
  <2>2. CacheTypeOK' /\ TypeOK'
    BY <1>0, <2>1 DEF CacheTypeOK, TypeOK
  <2>3. WakeUpPending'
    BY <1>0, <1>2 DEF WakeUpPending
  <2> QED BY <1>0, <2>1, <2>2, <2>3 DEF CacheInv
<1> QED BY <1>1, <1>2

\* A step of the timer's thread that walks over the map.
LEMMA WalkKeeps ==
  ASSUME CacheInv, Expire, base' \in Seq(Task), CancelsFire(base'),
         UNCHANGED <<now, cb, scheduleTimeExpiry>>
  PROVE  CacheInv'
<1>0. TypeOK /\ CacheTypeOK
  BY DEF CacheInv
<1>1. /\ cacheMap' \in [DOMAIN cacheMap' -> Int]
      /\ DOMAIN cacheMap' \subseteq DOMAIN cacheMap
      /\ walk' \in [at : Nat, next : Int] /\ walk' # NoWalk
      /\ walk'.at = now /\ now < walk'.next
  BY <1>0, ExpireKeeps
<1>2. CacheTypeOK'
  BY <1>0, <1>1 DEF CacheTypeOK
<1>3. TypeOK'
  <2>1. \A i \in DOMAIN base' : base'[i].function.op \in {"schedule", "cancel", "fire"}
    BY QueuedKinds
  <2>2. walk'.at <= now
    BY <1>0, <1>1 DEF CacheTypeOK
  <2> QED BY <1>0, <1>1, <2>1, <2>2 DEF TypeOK
<1>4. WakeUpPending'
  BY <1>1 DEF WakeUpPending
<1> QED BY <1>2, <1>3, <1>4 DEF CacheInv

\* A step that leaves the map alone, and leaves a wake-up where there was one.
LEMMA WheelKeeps ==
  ASSUME CacheInv, UNCHANGED <<now, cb, cacheMap, walk, scheduleTimeExpiry>>,
         base' \in Seq(Task), CancelsFire(base'),
         \/ Has(base', "fire")
         \/ cb /\ IsScheduled'
         \/ /\ Has(base, "fire") => Has(base', "fire")
            /\ Has(base, "schedule") => Has(base', "schedule")
            /\ cb => (IsScheduled => IsScheduled')
         \/ ~cb /\ (Has(base, "fire") => Has(base', "fire"))
  PROVE  CacheInv'
<1>0. TypeOK /\ CacheTypeOK /\ WakeUpPending
  BY DEF CacheInv
<1>1. CacheTypeOK'
  BY <1>0 DEF CacheTypeOK
<1>2. TypeOK'
  <2>1. \A i \in DOMAIN base' : base'[i].function.op \in {"schedule", "cancel", "fire"}
    BY QueuedKinds
  <2> QED BY <1>0, <2>1 DEF TypeOK
<1>3. WakeUpPending'
  BY <1>0 DEF WakeUpPending, Has
<1> QED BY <1>1, <1>2, <1>3 DEF CacheInv

LEMMA TimeoutKeeps == CacheInv /\ Timeout => CacheInv'
<1> SUFFICES ASSUME CacheInv, Timeout PROVE CacheInv'
  OBVIOUS
<1>0. /\ base' \in Seq(Task) /\ CancelsFire(base') /\ base' = base
      /\ UNCHANGED <<now, cb, scheduleTimeExpiry>>
  BY DEF CacheInv, CacheTypeOK, Timeout, WheelExpires
<1>1. CASE cb
  BY <1>0, <1>1, WalkKeeps DEF Timeout
<1>2. CASE ~cb
  <2>1. UNCHANGED <<cacheMap, walk>>
    BY <1>2 DEF Timeout
  <2>2. ~cb /\ (Has(base, "fire") => Has(base', "fire"))
    BY <1>0, <1>2
  <2> QED BY <1>0, <2>1, <2>2, WheelKeeps
<1> QED BY <1>1, <1>2

LEMMA RunKeeps == CacheInv /\ RunQueued => CacheInv'
PROOF
<1> SUFFICES ASSUME CacheInv, RunQueued PROVE CacheInv'
  OBVIOUS
<1>0. /\ base \in Seq(Task) /\ CancelsFire(base) /\ cb \in BOOLEAN /\ now \in Nat
      /\ UNCHANGED <<now, scheduleTimeExpiry>>
  BY DEF CacheInv, CacheTypeOK, RunQueued
<1>1. PICK i \in DOMAIN base : \/ (RunSchedule(i) \/ RunCancel(i)) /\ UNCHANGED <<cacheMap, walk>>
                               \/ RunFire(i) /\ Expire
  BY DEF RunQueued
<1>2. CASE RunSchedule(i) /\ UNCHANGED <<cacheMap, walk>>
  <2>1. TakeFunction(i, "schedule") /\ UNCHANGED cb
    BY <1>2 DEF RunSchedule
  <2>2. /\ base' \in Seq(Task) /\ CancelsFire(base')
        /\ Has(base, "fire") => Has(base', "fire")
    BY <1>0, <2>1, TakeKeeps
  <2>3. CASE cb
    <3>1. base[i].function.duration \in Int
      <4>1. base[i] \in Task
        BY <1>0
      <4>2. base[i].function \in Function /\ base[i].function.op = "schedule"
        BY <2>1, <4>1 DEF Task, TakeFunction
      <4> QED BY <4>2 DEF Function
    <3>2. now + base[i].function.duration # NoTimeout
      BY <1>0, <3>1, TimeoutAssumption
    <3>3. IsScheduled'
      BY <1>2, <2>3, <3>2 DEF RunSchedule, IsScheduled
    <3>4. cb /\ IsScheduled'
      BY <2>3, <3>3
    <3> QED BY <1>0, <1>2, <2>1, <2>2, <3>4, WheelKeeps
  <2>4. CASE ~cb
    BY <1>0, <1>2, <2>1, <2>2, <2>4, WheelKeeps
  <2> QED BY <2>3, <2>4
<1>3. CASE RunCancel(i) /\ UNCHANGED <<cacheMap, walk>>
  <2>1. TakeFunction(i, "cancel") /\ UNCHANGED cb
    BY <1>3 DEF RunCancel
  <2>2. base' \in Seq(Task) /\ CancelsFire(base') /\ Has(base', "fire")
    BY <1>0, <2>1, TakeKeeps
  <2> QED BY <1>0, <1>3, <2>1, <2>2, WheelKeeps
<1>4. CASE RunFire(i) /\ Expire
  <2>1. TakeFunction(i, "fire") /\ UNCHANGED cb
    BY <1>4 DEF RunFire
  <2>2. base' \in Seq(Task) /\ CancelsFire(base')
    BY <1>0, <2>1, TakeKeeps
  <2> QED BY <1>0, <1>4, <2>1, <2>2, WalkKeeps
<1> QED BY <1>1, <1>2, <1>3, <1>4

LEMMA TickKeeps == CacheInv /\ Tick => CacheInv'
<1> SUFFICES ASSUME CacheInv, Tick PROVE CacheInv'
  OBVIOUS
<1>0. TypeOK /\ CacheTypeOK /\ CancelsFire(base) /\ WakeUpPending
  BY DEF CacheInv
<1>1. /\ now < MaxTime /\ now' = now + 1
      /\ UNCHANGED <<timer, cb, wheel, base, cacheMap, scheduleTimeExpiry, walk>>
  BY DEF Tick
<1>2. CacheTypeOK'
  BY <1>0, <1>1 DEF CacheTypeOK
<1>3. TypeOK'
  <2>1. now \in Nat /\ now' \in 0..MaxTime
    BY <1>0, <1>1, BoundsAssumption DEF CacheTypeOK
  <2>2. walk = NoWalk \/ (walk.at \in Nat /\ walk.at <= now /\ walk.at < walk.next)
    BY <1>0 DEF TypeOK, CacheTypeOK
  <2>3. walk = NoWalk \/ (walk.at <= now' /\ walk.at < walk.next)
    BY <1>1, <2>1, <2>2
  <2> QED BY <1>0, <1>1, <2>1, <2>3 DEF TypeOK
<1>4. WakeUpPending'
  BY <1>0, <1>1 DEF WakeUpPending, IsScheduled
<1> QED BY <1>0, <1>1, <1>2, <1>3, <1>4 DEF CacheInv

LEMMA CacheInit == ExpiringInit => CacheInv
<1> SUFFICES ASSUME ExpiringInit PROVE CacheInv
  OBVIOUS
<1>1. /\ now = 0 /\ cb = FALSE /\ base = <<>> /\ cacheMap = <<>>
      /\ scheduleTimeExpiry = 0 /\ walk = NoWalk
  BY DEF ExpiringInit, TimerInit
<1>2. CacheTypeOK
  <2>1. cacheMap \in [DOMAIN cacheMap -> Int]
    BY <1>1
  <2>2. base \in Seq(Task)
    BY <1>1
  <2>3. cb \in BOOLEAN
    BY <1>1
  <2>4. now \in Nat /\ scheduleTimeExpiry \in Int /\ walk \in {NoWalk}
    BY <1>1
  <2> QED BY <2>1, <2>2, <2>3, <2>4 DEF CacheTypeOK
<1> QED BY <1>1, <1>2, BoundsAssumption DEF CacheInv, TypeOK, CancelsFire, WakeUpPending

LEMMA CacheStep == CacheInv /\ [ExpiringNext]_expiringVars => CacheInv'
<1> SUFFICES ASSUME CacheInv, [ExpiringNext]_expiringVars PROVE CacheInv'
  OBVIOUS
<1>1. CASE \E k \in Key : Store(k)
  BY <1>1, StoreKeeps
<1>2. CASE TimerStep
  BY <1>2, EndWalkKeeps, TimeoutKeeps, RunKeeps DEF TimerStep
<1>3. CASE Tick
  BY <1>3, TickKeeps
<1>4. CASE UNCHANGED expiringVars
  <2>1. UNCHANGED <<now, timer, cb, wheel, base, cacheMap, scheduleTimeExpiry, walk>>
    BY <1>4 DEF expiringVars
  <2> QED BY <2>1 DEF CacheInv, TypeOK, CacheTypeOK, CancelsFire, WakeUpPending, IsScheduled
<1> QED BY <1>1, <1>2, <1>3, <1>4 DEF ExpiringNext

LEMMA CacheInvariant == ExpiringSpec => []CacheInv
<1> QED BY CacheInit, CacheStep, PTL DEF ExpiringSpec

-----------------------------------------------------------------------------

(***************************************************************************)
(* The walk of the callback (ThreadSafeCache.h:51-66) always finds a later *)
(* wake-up than the present, so that the timer never spins.                *)
(***************************************************************************)
THEOREM TypesHold == ExpiringSpec => []TypeOK
<1>1. CacheInv => TypeOK
  BY DEF CacheInv
<1> QED BY <1>1, CacheInvariant, PTL

(***************************************************************************)
(* Whatever the network thread and the timer's thread interleave, the map  *)
(* never holds anything without a wake-up to come (ThreadSafeCache.h:67-72 *)
(* and 82-94).                                                             *)
(***************************************************************************)
THEOREM WakeUpHolds == ExpiringSpec => []WakeUpPending
<1>1. CacheInv => WakeUpPending
  BY DEF CacheInv
<1> QED BY <1>1, CacheInvariant, PTL

(***************************************************************************)
(* Every step of the cache is one of the abstract cache: a key enters only *)
(* when it is stored, by itself (ThreadSafeCache.h:75-81), and otherwise   *)
(* keys only leave (51-66).  That they all leave in the end is liveness.   *)
(***************************************************************************)
THEOREM StepsOfCache == ExpiringSpec => Promise!Init /\ [][Promise!Next]_(DOMAIN cacheMap)
<1>1. ExpiringInit => Promise!Init
  BY DEF ExpiringInit, Promise!Init
<1>2. CacheInv /\ [ExpiringNext]_expiringVars => [Promise!Next]_(DOMAIN cacheMap)
  <2> SUFFICES ASSUME CacheInv, [ExpiringNext]_expiringVars PROVE [Promise!Next]_(DOMAIN cacheMap)
    OBVIOUS
  <2>0. DOMAIN cacheMap \subseteq Key
    BY DEF CacheInv, TypeOK
  <2>1. ASSUME NEW k \in Key, Store(k) PROVE Promise!Next
    <3>1. PICK expiry : cacheMap' = Stored(k, expiry)
      BY <2>1 DEF Store, SetCache
    <3>2. DOMAIN cacheMap' = DOMAIN cacheMap \union {k}
      BY <3>1 DEF Stored
    <3> QED BY <3>2 DEF Promise!Next, Promise!Store
  <2>2. ASSUME DOMAIN cacheMap' \subseteq DOMAIN cacheMap
        PROVE  [Promise!Next]_(DOMAIN cacheMap)
    <3>1. CASE DOMAIN cacheMap' = DOMAIN cacheMap
      BY <3>1
    <3>2. CASE DOMAIN cacheMap' # DOMAIN cacheMap
      <4>1. PICK k \in DOMAIN cacheMap : k \notin DOMAIN cacheMap'
        BY <2>2, <3>2
      <4>2. DOMAIN cacheMap' \in SUBSET (DOMAIN cacheMap \ {k}) /\ k \in Key
        BY <2>0, <2>2, <4>1
      <4> QED BY <4>1, <4>2 DEF Promise!Next, Promise!Drop
    <3> QED BY <3>1, <3>2
  <2>3. CASE TimerStep
    <3>1. UNCHANGED cacheMap \/ Expire
      BY <2>3 DEF TimerStep, EndWalk, Timeout, RunQueued
    <3>2. ASSUME Expire PROVE DOMAIN cacheMap' \subseteq DOMAIN cacheMap
      BY <3>2 DEF Expire
    <3> QED BY <2>2, <3>1, <3>2
  <2>4. CASE Tick \/ UNCHANGED expiringVars
    <3>1. UNCHANGED cacheMap
      BY <2>4 DEF Tick, expiringVars
    <3> QED BY <3>1
  <2> QED BY <2>1, <2>3, <2>4 DEF ExpiringNext
<1> QED BY <1>1, <1>2, CacheInvariant, PTL DEF ExpiringSpec


=============================================================================
