----------------------------- MODULE Networking -----------------------------
(***************************************************************************)
(* The clients of CurlNetworking, together with it:                        *)
(*   - an image component (RSkComponentImage), changed by mounting         *)
(*     transactions on the main thread and called back by the network      *)
(*     threads, with the cache of decoded images (RSkImageCacheManager);   *)
(*   - XMLHttpRequest (RSkNetworkingModule) and Image.getSize              *)
(*     (RSkImageLoader), which scripts use on their own thread.            *)
(*                                                                         *)
(* The image component holds its only reference to a request in            *)
(* remoteCurlRequest_; libcurl has a raw pointer to it.                    *)
(***************************************************************************)
EXTENDS CurlNetworking, TLC

CONSTANTS
  Local,        \* URLs of files
  MaxChanges    \* bound on the changes of the image's source

\* Mounting, the scripts and the callbacks of the image send requests.
ASSUME SenderAssumption == {"main", "js", "callback"} \subseteq Sender

VARIABLES
  client,       \* who sent each request: "image", "xhr", "size" or None
  at,           \* how far the callbacks of each image request are
  compositor,   \* the thread in a rendering transaction, or None
  mounted,      \* the image component exists
  uri,          \* sources[0].uri of its props
  newUri,       \* the uri a transaction under way is about to set, or None
  remote,       \* remoteCurlRequest_
  inProgress,   \* isRequestInProgress_
  image,        \* networkImageData_: the URL it was loaded from, or None
  pending,      \* hasToTriggerEvent_: a load was reported started, not ended
  canCache,     \* canCacheData_
  images,       \* the URLs in the cache of decoded images
  connectionList, \* connectionList_: the requests in it
  freed,        \* xhr requests whose NetworkRequest was deleted
  silenced,     \* requests aborted while libcurl had them
  changes       \* changes of the source so far

imageVars == <<uri, newUri, remote, inProgress, image, pending, canCache>>
scriptVars == <<connectionList, freed>>
vars == <<curlVars, client, at, compositor, mounted, imageVars, images,
          scriptVars, silenced, changes>>

Init ==
  /\ CurlInit
  /\ client = [r \in Request |-> None]
  /\ at = [r \in Request |-> "idle"]
  /\ compositor = None
  /\ mounted = TRUE
  /\ uri = None /\ newUri = None
  /\ remote = None /\ inProgress = FALSE /\ image = None
  /\ pending = FALSE /\ canCache = TRUE
  /\ images = {}
  /\ connectionList = {} /\ freed = {}
  /\ silenced = {}
  /\ changes = 0

-----------------------------------------------------------------------------
(* The image component                                                     *)

\* abortRequest() on behalf of a client
AbortRequest(r) ==
  /\ Abort(r)
  /\ silenced' = IF phase[r] \in {"multi", "done"} THEN silenced \union {r} ELSE silenced
  /\ UNCHANGED <<url, sending, step, networkRequestSem, worker, stillAlive, networkCache>>

\* The abort both updateComponentProps() and the destructor begin with
AbortOwn ==
  IF inProgress /\ remote # None
    THEN /\ AbortRequest(remote)
         /\ remote' = None
         /\ inProgress' = FALSE
    ELSE UNCHANGED <<curlVars, silenced, remote, inProgress>>

(***************************************************************************)
(* A mounting transaction creates the component or changes its source:     *)
(* updateComponentProps(), which still finds the old props.                *)
(***************************************************************************)
UpdateComponentProps(u) ==
  /\ mounted /\ compositor = None
  /\ changes < MaxChanges /\ u # uri
  /\ u \in Local \/ InPhase("unused") # {}    \* bound: a request is left for it
  /\ compositor' = "main"
  /\ changes' = changes + 1
  /\ newUri' = u
  /\ AbortOwn
  /\ image' = None
  /\ pending' = TRUE          \* onLoadStart
  /\ UNCHANGED <<client, at, mounted, uri, canCache, images, scriptVars>>

(***************************************************************************)
(* OnPaint() by thread t, which records the picture: the image the network *)
(* brought, the decoded one of the source, the file of the source, or none *)
(* and a request for it unless one is in progress.                         *)
(***************************************************************************)
Show ==
  /\ pending' = FALSE         \* onLoad and onLoadEnd, if it was set
  /\ UNCHANGED <<curlVars, client, remote, canCache>>

PaintLocal(source) ==
  /\ Show                    \* or onError, and onLoadStart before it if need be
  /\ images' \in {images, images \union {source}}

RequestNetworkImageData(t, source) ==
  /\ \E r \in Request :
       /\ Send(t, r, source)
       /\ client' = [client EXCEPT ![r] = "image"]
       /\ remote' = r
  /\ canCache' = TRUE
  /\ pending' = TRUE          \* onLoadStart if need be
  /\ UNCHANGED <<images, crashed>>

OnPaint(t, source) ==
  \/ /\ image # None
     /\ Show /\ UNCHANGED images
  \/ /\ image = None /\ source \in images
     /\ Show /\ UNCHANGED images
  \/ /\ image = None /\ source \notin images /\ source \in Local
     /\ PaintLocal(source)
  \/ /\ image = None /\ source \notin images \union Local /\ inProgress
     /\ UNCHANGED <<curlVars, client, remote, canCache, pending, images>>
  \/ /\ image = None /\ source \notin images \union Local /\ ~inProgress
     /\ RequestNetworkImageData(t, source)

\* The rest of the transaction: the new props, and the picture.
MainPaint ==
  /\ compositor = "main" /\ newUri # None
  /\ uri' = newUri /\ newUri' = None
  /\ OnPaint("main", newUri)
  /\ compositor' = IF sending'["main"] = None THEN None ELSE "main"
  /\ UNCHANGED <<at, mounted, inProgress, image, scriptVars, silenced, changes>>

\* sendRequest() has returned to OnPaint(): only now is it said to be in
\* progress, even if it was refused.
PaintReturned(t) ==
  /\ Returned(t)
  /\ inProgress' = TRUE
  /\ compositor' = None
  /\ at' = [r \in Request |-> IF at[r] = "sent" THEN "clear" ELSE at[r]]
  /\ UNCHANGED <<phase, url, networkRequestSem, worker, stillAlive, networkCache, crashed,
                 client, mounted, uri, newUri, remote, image, pending, canCache, images, scriptVars, silenced, changes>>

(***************************************************************************)
(* The component is unmounted and destroyed.  A completion callback that   *)
(* has locked it keeps it until it ends, when there is nothing to abort.   *)
(***************************************************************************)
Unmount ==
  /\ mounted /\ compositor = None
  /\ mounted' = FALSE
  /\ IF \E r \in Request : at[r] \in {"assign", "paint", "clear"}
       THEN UNCHANGED <<curlVars, silenced, remote, inProgress>>
       ELSE AbortOwn
  /\ UNCHANGED <<client, at, compositor, uri, newUri, image, pending, canCache, images, scriptVars, changes>>

-----------------------------------------------------------------------------
(* The callbacks of an image request                                       *)

(***************************************************************************)
(* The header callback asks the component's current request about caching, *)
(* which may be another one by now, or none at all.                        *)
(***************************************************************************)
HeaderCallback(r) ==
  IF mounted /\ url[r] \in MaxAge \union NoStore
    THEN \/ remote = None /\ crashed' = TRUE /\ UNCHANGED canCache
         \/ remote = r /\ canCache' = ShouldCacheData(url[r]) /\ UNCHANGED crashed
         \/ /\ remote \notin {None, r}     \* with or without its headers
            /\ canCache' \in {TRUE, ShouldCacheData(url[remote])}
            /\ UNCHANGED crashed
    ELSE UNCHANGED <<canCache, crashed>>

PerformImage(r) ==
  /\ client[r] = "image"
  /\ Perform(r)
  /\ HeaderCallback(r)
  /\ UNCHANGED <<client, at, compositor, mounted, uri, newUri, remote, inProgress, image,
                 pending, images, scriptVars, silenced, changes>>

CachedHeader(r) ==
  /\ client[r] = "image" /\ phase[r] = "cached" /\ at[r] = "idle"
  /\ HeaderCallback(r)
  /\ at' = [at EXCEPT ![r] = "check"]
  /\ UNCHANGED <<phase, url, sending, step, networkRequestSem, worker, stillAlive,
                 networkCache, client, compositor, mounted, uri, newUri, remote, inProgress,
                 image, pending, images, scriptVars, silenced, changes>>

\* The completion callback is about to run in the worker, or goes on in the
\* thread of a cached answer.
Completing(r) ==
  /\ client[r] = "image"
  /\ \/ phase[r] = "read" /\ at[r] = "idle"
     \/ phase[r] = "cached" /\ at[r] = "check"

(***************************************************************************)
(* processImageData() until it has compared the URL with the source: it is *)
(* decoded already, or the response is decoded and cached, or it fails and *)
(* the failure is reported.                                                *)
(***************************************************************************)
ProcessImageData(r) ==
  LET next(s) == at' = [at EXCEPT ![r] = IF uri = url[r] THEN s ELSE "clear"]
  IN  /\ Completing(r) /\ mounted
      /\ \/ /\ url[r] \in images
            /\ next("paint")
            /\ UNCHANGED <<images, pending>>
         \/ /\ url[r] \notin images \union NoBody
            /\ next("assign")
            /\ images' \in {images} \union (IF canCache THEN {images \union {url[r]}} ELSE {})
            /\ UNCHANGED pending
         \/ /\ url[r] \notin images
            /\ at' = [at EXCEPT ![r] = "clear"]
            /\ pending' = FALSE            \* onError, onLoadEnd
            /\ UNCHANGED images
      /\ UNCHANGED <<curlVars, client, compositor, mounted, uri, newUri, remote,
                     inProgress, image, canCache, scriptVars, silenced, changes>>

\* ... the assignment of networkImageData_
AssignImage(r) ==
  /\ at[r] = "assign"
  /\ image' = url[r]
  /\ at' = [at EXCEPT ![r] = "paint"]
  /\ UNCHANGED <<curlVars, client, compositor, mounted, uri, newUri, remote, inProgress,
                 pending, canCache, images, scriptVars, silenced, changes>>

\* ... and drawAndSubmit(), a rendering transaction of its own.
CallbackPaint(r) ==
  /\ at[r] = "paint" /\ compositor = None
  /\ OnPaint("callback", uri)
  /\ IF sending'["callback"] = None
       THEN at' = [at EXCEPT ![r] = "clear"] /\ UNCHANGED compositor
       ELSE at' = [at EXCEPT ![r] = "sent"] /\ compositor' = "callback"
  /\ UNCHANGED <<mounted, uri, newUri, inProgress, image, scriptVars, silenced, changes>>

\* The end of the completion callback: the component has no request any more.
CompleteImage(r) ==
  /\ \/ at[r] = "clear" /\ remote' = None /\ inProgress' = FALSE
     \/ Completing(r) /\ ~mounted /\ UNCHANGED <<remote, inProgress>>
  /\ at' = [at EXCEPT ![r] = "done"]
  /\ (Cleanup(r) \/ CachedAnswer(r)) /\ UNCHANGED crashed
  /\ UNCHANGED <<client, compositor, mounted, uri, newUri, image, pending, canCache, images, scriptVars, silenced, changes>>

-----------------------------------------------------------------------------
(* The thread of the scripts                                               *)

\* A request of a script, until sendRequest() of the networking is in its steps.
ScriptStarts(r, who, u) ==
  /\ newUri # None => Cardinality(InPhase("unused")) > 1     \* bound
  /\ Send("js", r, u)
  /\ client' = [client EXCEPT ![r] = who]
  /\ UNCHANGED <<crashed, at, compositor, mounted, imageVars, images, scriptVars,
                 silenced, changes>>

\* RSkNetworkingModule::sendRequest
ScriptSend(r, u) == ScriptStarts(r, "xhr", u)

\* RSkImageLoaderModule::getImageSize of an image that is not decoded yet
GetImageSize(r, u) == u \notin images /\ ScriptStarts(r, "size", u)

\* sendRequest() has returned: only now is the request listed, or a refused
\* one deleted.
ScriptReturned ==
  /\ Returned("js")
  /\ LET r == sending["js"]
         own(p) == {q \in {r} : client[q] = "xhr" /\ (phase[q] = "refused" <=> p)}
     IN  /\ connectionList' = connectionList \union own(FALSE)
         /\ freed' = freed \union own(TRUE)
  /\ UNCHANGED <<phase, url, networkRequestSem, worker, stillAlive, networkCache, crashed,
                 client, at, compositor, mounted, imageVars, images, silenced, changes>>

(***************************************************************************)
(* RSkNetworkingModule::abortRequest: the list may hold a pointer that has *)
(* been deleted.                                                           *)
(***************************************************************************)
ScriptAbort(r) ==
  /\ step["js"] = "returned" /\ r \in connectionList
  /\ \/ r \in freed /\ crashed' = TRUE /\ UNCHANGED <<phase, silenced, connectionList>>
        /\ UNCHANGED <<url, sending, step, networkRequestSem, worker, stillAlive, networkCache>>
     \/ /\ r \notin freed
        /\ AbortRequest(r)
        /\ connectionList' = IF HasHandle(r) THEN connectionList \ {r} ELSE connectionList
  /\ UNCHANGED <<client, at, compositor, mounted, imageVars, images, freed, changes>>

PerformScript(r) ==
  /\ client[r] \in {"xhr", "size"}
  /\ Perform(r)
  /\ UNCHANGED <<crashed, client, at, compositor, mounted, imageVars, images, scriptVars,
                 silenced, changes>>

\* The completion callbacks of both, called by the worker or a cached answer.
CompleteScript(r) ==
  /\ client[r] = "xhr"
  /\ connectionList' = connectionList \ {r}
  /\ freed' = freed \union {r}
  /\ Cleanup(r) \/ CachedAnswer(r)
  /\ UNCHANGED <<crashed, client, at, compositor, mounted, imageVars, images, silenced, changes>>

CompleteSize(r) ==
  /\ client[r] = "size"
  /\ images' \in {images} \union (IF url[r] \in NoBody THEN {} ELSE {images \union {url[r]}})
  /\ Cleanup(r) \/ CachedAnswer(r)
  /\ UNCHANGED <<crashed, client, at, compositor, mounted, imageVars, scriptVars, silenced, changes>>

-----------------------------------------------------------------------------

\* imageDataInsertInCache() of others evicts, and images expire.
ExpireImage ==
  /\ \E u \in images : images' = images \ {u}
  /\ UNCHANGED <<curlVars, client, at, compositor, mounted, imageVars, scriptVars,
                 silenced, changes>>

Others == <<client, at, compositor, mounted, imageVars, images, scriptVars, silenced, changes>>

SendStep == MainPaint \/ ScriptReturned \/ \E t \in {"main", "callback"} : PaintReturned(t)
SenderStep(s) == (GetValue(s) \/ Post(s)) /\ UNCHANGED Others
WorkerStep == (Wake \/ PerformIdle \/ NoMessage \/ \E r \in Request : Read(r)) /\ UNCHANGED Others
EndTransfer(r) == PerformImage(r) \/ PerformScript(r)
CallbackStep(r) == \/ CachedHeader(r) \/ ProcessImageData(r) \/ AssignImage(r)
                   \/ CallbackPaint(r) \/ CompleteImage(r) \/ CompleteScript(r) \/ CompleteSize(r)

Next ==
  /\ ~crashed
  /\ \/ \E u \in Url : UpdateComponentProps(u)
     \/ MainPaint \/ (\E t \in {"main", "callback"} : PaintReturned(t)) \/ Unmount
     \/ \E r \in Request : EndTransfer(r) \/ CallbackStep(r) \/ ScriptAbort(r)
     \/ \E r \in Request, u \in Url \ Local : ScriptSend(r, u) \/ GetImageSize(r, u)
     \/ ScriptReturned
     \/ \E s \in Sender : SenderStep(s)
     \/ WorkerStep
     \/ ExpireResponse /\ UNCHANGED Others
     \/ ExpireImage

(***************************************************************************)
(* Every thread goes on with what it has begun, and every transfer ends.   *)
(***************************************************************************)
Fairness ==
  /\ WF_vars(~crashed /\ SendStep)
  /\ WF_vars(~crashed /\ WorkerStep)
  /\ WF_vars(~crashed /\ \E s \in Sender : SenderStep(s))
  /\ SF_vars(~crashed /\ \E r \in Request : CallbackStep(r))
  /\ SF_vars(~crashed /\ \E r \in Request : EndTransfer(r))

Spec == Init /\ [][Next]_vars /\ Fairness

-----------------------------------------------------------------------------
(* Properties                                                              *)

(***************************************************************************)
(* No wake-up is lost: a request libcurl was given, and one that is        *)
(* answered from the cache, is answered in the end unless it is aborted.   *)
(* (CurlNetworking.cpp:346-349 against :30 and :151-154.)                  *)
(***************************************************************************)
Answered ==
  \A r \in Request :
    phase[r] \in {"multi", "cached"} ~> phase[r] \in {"answered", "aborted"} \/ crashed

(***************************************************************************)
(* The completion callback of a request that was aborted while libcurl had *)
(* it does not run, whatever the worker was doing at the time.             *)
(***************************************************************************)
AbortSilences ==
  \A r \in silenced : phase[r] \notin {"read", "answered"} /\ at[r] = "idle"

(***************************************************************************)
(* The worker never sleeps on the semaphore while libcurl has a handle,    *)
(* unless somebody is about to post or has posted.                         *)
(***************************************************************************)
WorkerAwake ==
  worker = "wait" /\ InPhase("multi") # {} =>
    networkRequestSem > 0 \/ \E s \in Sender : step[s] \in {"added", "post"}

(***************************************************************************)
(* "if url is changed ... cancel the onging request and made new request   *)
(* to network" (RSkComponentImage.cpp:180-181): a source that stays is     *)
(* loaded, with success or not, if no request is refused.  It does not     *)
(* hold: see the README.                                                   *)
(***************************************************************************)
ChangedSourceLoads ==
  \A u \in Url :
    uri = u /\ pending ~>
      ~pending \/ uri # u \/ newUri # None \/ ~mounted \/ InPhase("refused") # {} \/ crashed

=============================================================================
