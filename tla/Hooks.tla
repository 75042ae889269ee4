------------------------------- MODULE Hooks --------------------------------
(***************************************************************************)
(* The hook system: pkg/hooks and its backends, the callbacks and the      *)
(* notification channels of the handler, and the shutdown of the server.   *)
(*                                                                         *)
(* The requests for one upload call the pre-hooks and wait for the answer; *)
(* for the post-hooks they send an event on an unbuffered channel, with    *)
(* the lock in hand.  One goroutine receives the events and starts a       *)
(* goroutine for each.  A request that receives data has a goroutine of    *)
(* its own that sends the progress events until the request's context is   *)
(* done, which happens a while after the response.                         *)
(*                                                                         *)
(* A request's pc is the name of the hook it calls or whose event it       *)
(* sends, or the name of the step in between.                              *)
(***************************************************************************)
EXTENDS Integers, FiniteSets

CONSTANTS N,            \* the bound of the number of requests
          FileSize,     \* the length of the upload
          Backends,     \* a subset of AllBackends
          Enabled       \* the enabled hooks

AllBackends == {"file", "http", "grpc", "plugin"}
PreHooks == {"pre-create", "pre-finish", "pre-terminate"}
Notifications == {"post-create", "post-finish", "post-terminate"}
AvailableHooks == PreHooks \cup Notifications \cup {"post-receive"}

ASSUME HooksAssumption ==
  /\ N \in Nat \ {0} /\ FileSize \in Nat \ {0}
  /\ Backends \subseteq AllBackends
  /\ Enabled \subseteq AvailableHooks

Requests == 1..N

(* An invocation: of a request's hook; progress events differ in offset. *)
Invocations ==
  {<<r, typ, 0>> : r \in Requests, typ \in AvailableHooks \ {"post-receive"}}
    \cup {<<r, "post-receive", off>> : r \in Requests, off \in 1..FileSize}

VARIABLES backend,
          server,       \* "up", "draining" or "exited"
          upload,       \* "none", "open", "complete" or "gone"
          offset,       \* the bytes stored
          holder,       \* the request that holds the upload's lock; 0: none
          kind, pc,     \* of a request
          received,     \* the offset up to which a request has read its body
          cause,        \* what cancelled a request's context
          ctxDone,      \* requests whose delayed context is done
          progress,     \* sendProgressMessages: the last offset sent; -1: not running
          hooks         \* the state of the invocations

reqVars == <<kind, pc, received, holder>>
ctxVars == <<cause, ctxDone>>
vars == <<backend, server, upload, offset, reqVars, ctxVars, progress, hooks>>

Ended == {"ok", "no", "error"}

Init ==
  /\ backend \in Backends
  /\ server = "up" /\ upload = "none" /\ offset = 0 /\ holder = 0
  /\ kind = [r \in Requests |-> "none"]
  /\ pc = [r \in Requests |-> "idle"]
  /\ received = [r \in Requests |-> 0]
  /\ cause = [r \in Requests |-> "none"]
  /\ ctxDone = {}
  /\ progress = [r \in Requests |-> -1]
  /\ hooks = [i \in Invocations |-> "none"]

Active(r) == pc[r] \notin {"idle", "done"}
Goto(r, next) == pc' = [pc EXCEPT ![r] = next]

-----------------------------------------------------------------------------
(* The backends' InvokeHook.                                               *)

(* A hook may veto by its answer; gRPC has no field for a termination. *)
CanVeto(typ) == typ \in {"pre-create", "post-receive"} \cup
                        (IF backend = "grpc" THEN {} ELSE {"pre-terminate"})

(* An HTTP call is made within the event's context: not once it is done. *)
Reachable(i) == backend = "http" => i[1] \notin ctxDone

(* Nobody reads the answer of a post-receive hook that does not veto. *)
Answered(i, answer) ==
  [hooks EXCEPT ![i] = IF i[2] = "post-receive" /\ answer # "no" THEN "started" ELSE answer]

(* The hook answers, perhaps after the retries of HTTP and gRPC; or it     *)
(* fails, or (for HTTP) the timeout ends.                                  *)
InvokeHook(i) ==
  /\ hooks[i] = "running"
  /\ \/ Reachable(i) /\ hooks' = Answered(i, "ok")
     \/ Reachable(i) /\ CanVeto(i[2]) /\ hooks' = Answered(i, "no")
     \/ hooks' = Answered(i, "error")
  /\ UNCHANGED <<backend, server, upload, offset, reqVars, ctxVars, progress>>

(* postReceiveCallback: StopUpload cancels the context of the request. *)
postReceiveCallback(i) ==
  /\ i[2] = "post-receive" /\ hooks[i] = "no"
  /\ hooks' = [hooks EXCEPT ![i] = "stopped"]
  /\ cause' = [cause EXCEPT ![i[1]] = IF @ = "none" THEN "stop" ELSE @]
  /\ UNCHANGED <<backend, server, upload, offset, reqVars, ctxDone, progress>>

-----------------------------------------------------------------------------
(* Requests.                                                               *)

Begin(r, k, first) ==
  /\ server = "up" /\ pc[r] = "idle"
  /\ \A q \in 1..(r - 1) : pc[q] # "idle"
  /\ kind' = [kind EXCEPT ![r] = k]
  /\ Goto(r, first)
  /\ UNCHANGED <<backend, server, upload, offset, received, holder, ctxVars, progress, hooks>>

(* POST, with or without data. *)
PostFile(r) ==
  /\ upload = "none" /\ \A q \in Requests : ~Active(q)
  /\ \E k \in {"POST", "POST+data"} : Begin(r, k, "pre-create")

(* PATCH and DELETE, as soon as the post-create event may be out. *)
Request(r) ==
  /\ upload # "none"
  /\ \E k \in {"PATCH", "DELETE"} : Begin(r, k, "lock")

(* The pre*Callback functions start the hook ... *)
Callback(r) ==
  /\ pc[r] \in PreHooks \cap Enabled
  /\ hooks[<<r, pc[r], 0>>] = "none"
  /\ hooks' = [hooks EXCEPT ![<<r, pc[r], 0>>] = "running"]
  /\ UNCHANGED <<backend, server, upload, offset, reqVars, ctxVars, progress>>

AfterHook == [typ \in PreHooks |->
  CASE typ = "pre-create" -> "create" [] typ = "pre-finish" -> "post-finish" [] OTHER -> "terminate"]

(* Mutant: only an explicit rejection counts. *)
CallbackReturnsDespiteError(r) ==
  /\ pc[r] \in PreHooks
  /\ pc[r] \in Enabled => hooks[<<r, pc[r], 0>>] \in Ended
  /\ Goto(r, IF hooks[<<r, pc[r], 0>>] = "no" THEN "respond" ELSE AfterHook[pc[r]])
  /\ UNCHANGED <<backend, server, upload, offset, kind, received, holder, ctxVars, progress, hooks>>

(* ... and fail the request if it vetoes or fails. *)
CallbackReturns(r) ==
  /\ pc[r] \in PreHooks
  /\ pc[r] \in Enabled => hooks[<<r, pc[r], 0>>] \in Ended
  /\ Goto(r, IF pc[r] \in Enabled /\ hooks[<<r, pc[r], 0>>] # "ok" THEN "respond" ELSE AfterHook[pc[r]])
  /\ UNCHANGED <<backend, server, upload, offset, kind, received, holder, ctxVars, progress, hooks>>

NewUpload(r) ==
  /\ pc[r] = "create"
  /\ \/ upload' = "open" /\ Goto(r, "post-create")
     \/ UNCHANGED upload /\ Goto(r, "respond")
  /\ UNCHANGED <<backend, server, offset, kind, received, holder, ctxVars, progress, hooks>>

AfterNotification(r) ==
  CASE pc[r] = "post-create" /\ kind[r] = "POST+data"           -> "lock"
    [] pc[r] = "post-terminate" /\ kind[r] # "DELETE"           -> "finish"
    [] OTHER                                                    -> "respond"

(* Mutant: an event is dropped if nobody is receiving. *)
NotifyOrDrop(r) ==
  /\ pc[r] \in Notifications
  /\ hooks' \in {hooks, [hooks EXCEPT ![<<r, pc[r], 0>>] = "started"]}
  /\ Goto(r, AfterNotification(r))
  /\ UNCHANGED <<backend, server, upload, offset, kind, received, holder, ctxVars, progress>>

(* An event is sent and received in one step; invokeHookAsync goes on by   *)
(* itself, and nobody waits for it or reads its answer.                    *)
Notify(r) ==
  /\ pc[r] \in Notifications
  /\ hooks' = IF pc[r] \in Enabled THEN [hooks EXCEPT ![<<r, pc[r], 0>>] = "started"] ELSE hooks
  /\ Goto(r, AfterNotification(r))
  /\ UNCHANGED <<backend, server, upload, offset, kind, received, holder, ctxVars, progress>>

(* Mutant: no check whether the upload is complete already. *)
FetchedComplete(r) ==
  CASE upload = "gone"                            -> "respond"
    [] upload # "gone" /\ kind[r] = "DELETE"      -> "pre-terminate"
    [] OTHER                                      -> "write"

(* GetUpload with the lock in hand. *)
Fetched(r) ==
  CASE upload = "gone" \/ (kind[r] # "DELETE" /\ offset = FileSize) -> "respond"
    [] upload # "gone" /\ kind[r] = "DELETE"                         -> "pre-terminate"
    [] OTHER                                                         -> "write"

lockUpload(r) ==
  /\ pc[r] = "lock"
  /\ \/ /\ holder = 0
        /\ holder' = r
        /\ Goto(r, Fetched(r))
        /\ received' = [received EXCEPT ![r] = offset]
        /\ progress' = IF Fetched(r) = "write" /\ "post-receive" \in Enabled
                       THEN [progress EXCEPT ![r] = 0] ELSE progress
     \/ /\ holder # 0
        /\ Goto(r, "respond")
        /\ UNCHANGED <<holder, received, progress>>
  /\ UNCHANGED <<backend, server, upload, offset, kind, ctxVars, hooks>>

(* Another request wants the lock, or the client has gone.  (In between    *)
(* these steps nobody looks at the context.)                               *)
Interrupted(r) ==
  /\ pc[r] \in PreHooks \cup {"write"} /\ cause[r] = "none"
  /\ cause' = [cause EXCEPT ![r] = "cancel"]
  /\ UNCHANGED <<backend, server, upload, offset, reqVars, ctxDone, progress, hooks>>

(* writeChunk: the body is read until it ends or the context is cancelled. *)
ReadBody(r) ==
  /\ pc[r] = "write" /\ cause[r] = "none" /\ offset < FileSize
  /\ offset' = offset + 1
  /\ received' = [received EXCEPT ![r] = offset']
  /\ UNCHANGED <<backend, server, upload, kind, pc, holder, ctxVars, progress, hooks>>

(* (A goroutine closes the body when the context is stopped: it may be too *)
(* late for this request to notice.)                                       *)
WriteChunkEnds(r) ==
  /\ pc[r] = "write"
  /\ \E next \in {"finish"} \cup (IF cause[r] = "stop" THEN {"terminate"} ELSE {}) : Goto(r, next)
  /\ UNCHANGED <<backend, server, upload, offset, kind, received, holder, ctxVars, progress, hooks>>

(* terminateUpload: for a DELETE, or because a hook stopped the upload. *)
terminateUpload(r) ==
  /\ pc[r] = "terminate"
  /\ \/ upload' = "gone" /\ Goto(r, "post-terminate")
     \/ UNCHANGED upload /\ Goto(r, IF kind[r] = "DELETE" THEN "respond" ELSE "finish")
  /\ UNCHANGED <<backend, server, offset, kind, received, holder, ctxVars, progress, hooks>>

(* Mutant: the notification comes before the callback. *)
finishNotifiesFirst(r) ==
  /\ pc[r] = "finish"
  /\ \/ /\ received[r] = FileSize
        /\ upload' = IF upload = "open" THEN "complete" ELSE upload
        /\ Goto(r, "post-finish")
     \/ UNCHANGED upload /\ Goto(r, "respond")
  /\ UNCHANGED <<backend, server, offset, kind, received, holder, ctxVars, progress, hooks>>

(* finishUploadIfComplete and emitFinishEvents, whether or not the upload  *)
(* was terminated before.                                                  *)
finishUploadIfComplete(r) ==
  /\ pc[r] = "finish"
  /\ \/ /\ received[r] = FileSize
        /\ upload' = IF upload = "open" THEN "complete" ELSE upload
        /\ Goto(r, "pre-finish")
     \/ UNCHANGED upload /\ Goto(r, "respond")
  /\ UNCHANGED <<backend, server, offset, kind, received, holder, ctxVars, progress, hooks>>

(* sendResp or sendError and the deferred Unlock.  Afterwards net/http     *)
(* cancels the context of the request.                                     *)
Respond(r) ==
  /\ pc[r] = "respond"
  /\ Goto(r, "done")
  /\ holder' = IF holder = r THEN 0 ELSE holder
  /\ cause' = [cause EXCEPT ![r] = "ended"]
  /\ kind' = [kind EXCEPT ![r] = "none"]
  /\ UNCHANGED <<backend, server, upload, offset, received, ctxDone, progress, hooks>>

(* newDelayedContext: the context that the progress goroutine and the HTTP *)
(* calls of this request watch is cancelled after a delay.                 *)
DelayedCancel(r) ==
  /\ cause[r] # "none" /\ r \notin ctxDone
  /\ progress[r] >= 0 \/ \E i \in Invocations : i[1] = r /\ hooks[i] = "running"
  /\ ctxDone' = ctxDone \cup {r}
  /\ UNCHANGED <<backend, server, upload, offset, reqVars, cause, progress, hooks>>

(* sendProgressMessages: every interval, and once more at the end. *)
EmitProgress(r) == [hooks EXCEPT ![<<r, "post-receive", received[r]>>] = "running"]

ProgressTick(r) ==
  /\ progress[r] >= 0 /\ received[r] # progress[r] /\ received[r] > 0
  /\ hooks' = EmitProgress(r)
  /\ progress' = [progress EXCEPT ![r] = received[r]]
  /\ UNCHANGED <<backend, server, upload, offset, reqVars, ctxVars>>

(* Mutant: the goroutine only ends with something to report. *)
ProgressEndsWithEvent(r) ==
  /\ progress[r] >= 0 /\ r \in ctxDone
  /\ received[r] # progress[r] /\ hooks' = EmitProgress(r)
  /\ progress' = [progress EXCEPT ![r] = -1]
  /\ UNCHANGED <<backend, server, upload, offset, reqVars, ctxVars>>

ProgressEnds(r) ==
  /\ progress[r] >= 0 /\ r \in ctxDone
  /\ hooks' = IF received[r] # progress[r] THEN EmitProgress(r) ELSE hooks
  /\ progress' = [progress EXCEPT ![r] = -1]
  /\ UNCHANGED <<backend, server, upload, offset, reqVars, ctxVars>>

-----------------------------------------------------------------------------
(* setupSignalHandler.  The first signal closes the listener and cancels   *)
(* the requests; the server exits when they have ended, at a timeout, or   *)
(* at the second signal.                                                   *)
Shutdown ==
  /\ server = "up"
  /\ server' = "draining"
  /\ cause' = [r \in Requests |-> IF Active(r) /\ cause[r] = "none" THEN "cancel" ELSE cause[r]]
  /\ UNCHANGED <<backend, upload, offset, reqVars, ctxDone, progress, hooks>>

(* (With the process the model ends: nothing of it is looked at again.) *)
ShutdownComplete ==
  /\ server = "draining" /\ server' = "exited"
  /\ upload' = "none" /\ offset' = 0 /\ holder' = 0
  /\ kind' = [r \in Requests |-> "none"]
  /\ pc' = [r \in Requests |-> "idle"]
  /\ received' = [r \in Requests |-> 0]
  /\ cause' = [r \in Requests |-> "none"]
  /\ ctxDone' = {}
  /\ progress' = [r \in Requests |-> -1]
  /\ hooks' = [i \in Invocations |-> "none"]
  /\ UNCHANGED backend

-----------------------------------------------------------------------------

HandlerStep(r) ==
  \/ Callback(r) \/ CallbackReturns(r) \/ NewUpload(r) \/ Notify(r) \/ lockUpload(r)
  \/ WriteChunkEnds(r) \/ terminateUpload(r) \/ finishUploadIfComplete(r) \/ Respond(r)

Next ==
  \/ /\ server # "exited"
     /\ \/ \E r \in Requests :
             PostFile(r) \/ Request(r) \/ HandlerStep(r) \/ Interrupted(r) \/ ReadBody(r)
               \/ DelayedCancel(r) \/ ProgressTick(r) \/ ProgressEnds(r)
        \/ \E i \in Invocations : InvokeHook(i) \/ postReceiveCallback(i)
  \/ Shutdown \/ ShutdownComplete

Spec == Init /\ [][Next]_vars

(* Handlers, timers and goroutines run; a hook ends, for HTTP because of   *)
(* its timeout, for the other backends because the hook itself does.  As   *)
(* each of these steps happens a bounded number of times, fairness to all  *)
(* of them together is fairness to each.                                   *)
Progress ==
  /\ server # "exited"
  /\ \/ \E r \in Requests : HandlerStep(r) \/ DelayedCancel(r) \/ ProgressEnds(r)
     \/ \E i \in Invocations : InvokeHook(i)

FairSpec == Spec /\ WF_vars(Progress)

-----------------------------------------------------------------------------

TypeOK ==
  /\ backend \in Backends
  /\ server \in {"up", "draining", "exited"}
  /\ upload \in {"none", "open", "complete", "gone"}
  /\ offset \in 0..FileSize /\ holder \in 0..N
  /\ kind \in [Requests -> {"none", "POST", "POST+data", "PATCH", "DELETE"}]
  /\ pc \in [Requests -> PreHooks \cup Notifications \cup
               {"idle", "create", "lock", "write", "terminate", "finish", "respond", "done"}]
  /\ received \in [Requests -> 0..FileSize]
  /\ cause \in [Requests -> {"none", "stop", "cancel", "ended"}]
  /\ ctxDone \subseteq Requests
  /\ progress \in [Requests -> -1..FileSize]
  /\ hooks \in [Invocations -> {"none", "started", "running", "stopped"} \cup Ended]

Ran(typ) == {r \in Requests : hooks[<<r, typ, 0>>] # "none"}
Agreed(typ) == {r \in Requests : hooks[<<r, typ, 0>>] = "ok"}

(* docs/_advanced-topics/hooks.md:42: "The only guarantees are that        *)
(* pre-create will always be the first hook for any upload and that        *)
(* post-finish is started after pre-finish has been completed."            *)
HookOrder ==
  /\ "pre-create" \in Enabled =>
       \A i \in Invocations : i[2] # "pre-create" /\ hooks[i] # "none" => Agreed("pre-create") # {}
  /\ "pre-finish" \in Enabled => Ran("post-finish") \subseteq Agreed("pre-finish")

(* No upload exists that pre-create has not agreed to, and none is gone    *)
(* unless pre-terminate agreed or post-receive stopped it: a hook that     *)
(* fails counts as one that refuses.                                       *)
NothingWithoutConsent ==
  /\ "pre-create" \in Enabled /\ upload # "none" => Agreed("pre-create") # {}
  /\ "pre-terminate" \in Enabled /\ upload = "gone" =>
       \/ Agreed("pre-terminate") # {}
       \/ \E i \in Invocations : hooks[i] = "stopped"

(* The end of an upload is announced once, however many requests race for  *)
(* it: pre-finish and post-finish by one request, post-terminate by one.   *)
AnnouncedOnce ==
  \A typ \in {"pre-finish", "post-finish", "post-terminate"} : Cardinality(Ran(typ)) <= 1

(* No request hangs on a hook or on an unbuffered channel: all of them end *)
(* (unless the server exits before), and so does the goroutine that sends  *)
(* the progress events of a request, which outlives its handler.           *)
RequestsEnd == []<>(\A r \in Requests : ~Active(r) /\ progress[r] = -1)

(* A finished upload reaches the post-finish hook, unless pre-finish fails *)
(* or the server exits.                                                    *)
FinishReachesHook ==
  upload = "complete" ~>
    \/ Ran("post-finish") # {} \/ "post-finish" \notin Enabled
    \/ \E r \in Requests : hooks[<<r, "pre-finish", 0>>] = "error"
    \/ server = "exited"
=============================================================================
