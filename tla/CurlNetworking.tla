--------------------------- MODULE CurlNetworking ---------------------------
(***************************************************************************)
(* CurlNetworking (ReactSkia/sdk/CurlNetworking.cpp): requests are handed  *)
(* to libcurl's multi handle by any thread and served by one worker, which *)
(* a semaphore wakes.  A request whose response is cached is answered by a *)
(* detached thread instead.                                                *)
(*                                                                         *)
(* curlInstanceMutex_ covers the adding of a handle, an abort and          *)
(* curl_multi_perform, each of them one step here.  It does not cover the  *)
(* reading of libcurl's messages, so an abort can take away the handle of  *)
(* a request the worker is about to answer.                                *)
(***************************************************************************)
EXTENDS Integers, FiniteSets

CONSTANTS
  Request,      \* the CurlRequest objects, numbers in the order they are made
  Url,
  NoBody,       \* URLs answered with an empty body: responseBuffer stays null
  NoStore,      \* URLs answered with Cache-Control: no-store, no-cache or max-age=0
  MaxAge,       \* URLs answered with another Cache-Control header
  Sender,       \* the threads that call sendRequest
  None

VARIABLES
  phase,        \* what became of each request
  url,          \* its URL
  sending,      \* the request each sender is inside sendRequest with, or None
  step,         \* and how far it got: "added", "post" or "returned"
  networkRequestSem,
  worker,       \* where the worker is: "wait", "perform", "read", "callback"
  stillAlive,   \* the worker's local of that name, as a Boolean
  networkCache, \* the URLs in networkCache_
  crashed       \* undefined behaviour has ended the process

curlVars == <<phase, url, sending, step, networkRequestSem, worker,
              stillAlive, networkCache, crashed>>

Response == INSTANCE Cache WITH Key <- Url, entries <- networkCache

(***************************************************************************)
(* The phases of a request.  Without a handle: unused, cached, unanswered, *)
(* answered, aborted; a refused one has none either, or one nobody can     *)
(* reach.  With one in libcurl: multi (transferring) and done  *)
(* (its message is queued).  A request that is read is in the worker's     *)
(* hands, its handle no longer in libcurl but not yet NULL.                *)
(***************************************************************************)

InPhase(p) == {r \in Request : phase[r] = p}

CurlInit ==
  /\ phase = [r \in Request |-> "unused"]
  /\ url = [r \in Request |-> None]
  /\ sending = [s \in Sender |-> None]
  /\ step = [s \in Sender |-> "returned"]
  /\ networkRequestSem = 0
  /\ worker = "wait"
  /\ stillAlive = FALSE
  /\ networkCache = {}
  /\ crashed = FALSE

-----------------------------------------------------------------------------
(* sendRequest() and abortRequest()                                        *)

(***************************************************************************)
(* The request is answered from the cache by a thread of its own, but only *)
(* if the cached response has a body; otherwise its handle is added, or    *)
(* there is no handle or an unsuitable method or body, and it is refused.  *)
(***************************************************************************)
Send(s, r, u) ==
  /\ phase[r] = "unused" /\ \A q \in InPhase("unused") : r <= q
  /\ step[s] = "returned"
  /\ url' = [url EXCEPT ![r] = u]
  /\ sending' = [sending EXCEPT ![s] = r]
  /\ IF u \in networkCache
       THEN /\ phase' = [phase EXCEPT ![r] = IF u \in NoBody THEN "unanswered" ELSE "cached"]
            /\ step' = [step EXCEPT ![s] = "sent"]
       ELSE \/ /\ phase' = [phase EXCEPT ![r] = "multi"]
               /\ step' = [step EXCEPT ![s] = "added"]
            \/ /\ phase' = [phase EXCEPT ![r] = "refused"]     \* return false
               /\ step' = [step EXCEPT ![s] = "sent"]
  /\ UNCHANGED <<networkRequestSem, worker, stillAlive, networkCache>>

\* The worker is only signalled when it is seen waiting.
Mutant_GetValue(s) ==
  /\ step[s] = "added"
  /\ step' = [step EXCEPT ![s] = IF networkRequestSem = 0 /\ worker = "wait"
                                   THEN "post" ELSE "sent"]
  /\ UNCHANGED <<phase, url, sending, networkRequestSem, worker, stillAlive,
                 networkCache, crashed>>

\* sem_getvalue(): the semaphore is used as a binary one.
GetValue(s) ==
  /\ step[s] = "added"
  /\ step' = [step EXCEPT ![s] = IF networkRequestSem = 0 THEN "post" ELSE "sent"]
  /\ UNCHANGED <<phase, url, sending, networkRequestSem, worker, stillAlive,
                 networkCache, crashed>>

\* sem_post(), and the return.
Post(s) ==
  /\ step[s] = "post"
  /\ step' = [step EXCEPT ![s] = "sent"]
  /\ networkRequestSem' = networkRequestSem + 1
  /\ UNCHANGED <<phase, url, sending, worker, stillAlive, networkCache, crashed>>

\* sendRequest() has returned to s, which does its last assignment.
Returned(s) ==
  /\ step[s] = "sent"
  /\ step' = [step EXCEPT ![s] = "returned"]
  /\ sending' = [sending EXCEPT ![s] = None]

\* An abort that only closes the handle.
Mutant_Abort(r) ==
  /\ UNCHANGED <<phase, crashed>>

(***************************************************************************)
(* abortRequest(): a handle libcurl has is taken from it, with any message *)
(* about it.  One the worker is using is freed under its feet: the process *)
(* may crash, or the worker may get away with it.  No handle, no effect.   *)
(***************************************************************************)
Abort(r) ==
  \/ /\ phase[r] \in {"multi", "done"}
     /\ phase' = [phase EXCEPT ![r] = "aborted"]
     /\ UNCHANGED crashed
  \/ /\ phase[r] = "read"
     /\ crashed' \in BOOLEAN
     /\ UNCHANGED phase
  \/ /\ phase[r] \notin {"multi", "done", "read"}
     /\ UNCHANGED <<phase, crashed>>

\* What abortRequest() returns
HasHandle(r) == phase[r] \in {"multi", "done", "read"}

-----------------------------------------------------------------------------
(* The worker                                                              *)

\* shouldCacheData()
ShouldCacheData(u) == u \notin NoStore

Wake ==
  /\ worker = "wait" /\ networkRequestSem > 0
  /\ networkRequestSem' = networkRequestSem - 1
  /\ worker' = "perform"
  /\ UNCHANGED <<phase, url, sending, step, stillAlive, networkCache, crashed>>

(***************************************************************************)
(* curl_multi_perform(): nothing ends, or the transfer of r does, after    *)
(* the header callback of its client.  (Two that end in one call are two   *)
(* calls here: the worker looks for messages after each.)                  *)
(***************************************************************************)
PerformIdle ==
  /\ worker = "perform"
  /\ worker' = "read"
  /\ stillAlive' = (InPhase("multi") # {})
  /\ UNCHANGED <<phase, url, sending, step, networkRequestSem, networkCache, crashed>>

Perform(r) ==
  /\ worker = "perform"
  /\ phase[r] = "multi"
  /\ phase' = [phase EXCEPT ![r] = "done"]
  /\ stillAlive' = (InPhase("multi") # {r})
  /\ worker' = "read"
  /\ UNCHANGED <<url, sending, step, networkRequestSem, networkCache>>

(***************************************************************************)
(* curl_multi_info_read(): the handle is taken out and the response cached *)
(* if the transfer succeeded, unless it is cached already or too large.    *)
(***************************************************************************)
Read(r) ==
  /\ worker = "read"
  /\ phase[r] = "done"
  /\ phase' = [phase EXCEPT ![r] = "read"]
  /\ worker' = "callback"
  /\ \/ ShouldCacheData(url[r]) /\ Response!Store(url[r])
     \/ UNCHANGED networkCache      \* failed, not to be cached, or too large
  /\ UNCHANGED <<url, sending, step, networkRequestSem, stillAlive, crashed>>

\* The worker sleeps although transfers are under way.
Mutant_NoMessage ==
  /\ worker = "read" /\ InPhase("done") = {}
  /\ worker' = "wait"
  /\ UNCHANGED <<phase, url, sending, step, networkRequestSem, stillAlive,
                 networkCache, crashed>>

\* No message is left: another round, after curl_multi_wait(), or the semaphore.
NoMessage ==
  /\ worker = "read" /\ InPhase("done") = {}
  /\ worker' = IF stillAlive THEN "perform" ELSE "wait"
  /\ UNCHANGED <<phase, url, sending, step, networkRequestSem, stillAlive,
                 networkCache, crashed>>

\* The completion callback of the client has returned; the handle is freed.
Cleanup(r) ==
  /\ worker = "callback" /\ phase[r] = "read"
  /\ phase' = [phase EXCEPT ![r] = "answered"]
  /\ worker' = "read"
  /\ UNCHANGED <<url, sending, step, networkRequestSem, stillAlive, networkCache>>

\* A detached thread has called both callbacks of a cached answer.
CachedAnswer(r) ==
  /\ phase[r] = "cached"
  /\ phase' = [phase EXCEPT ![r] = "answered"]
  /\ UNCHANGED <<url, sending, step, networkRequestSem, worker, stillAlive, networkCache>>

\* An entry of the cache expires (see ExpiringCache).
ExpireResponse ==
  /\ \E u \in Url : Response!Drop(u)
  /\ UNCHANGED <<phase, url, sending, step, networkRequestSem, worker,
                 stillAlive, crashed>>

=============================================================================
