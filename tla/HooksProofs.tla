---------------------------- MODULE HooksProofs -----------------------------
(***************************************************************************)
(* For any number of requests, any length, every backend and every choice  *)
(* of enabled hooks: the order of the hooks, their consent, and that the   *)
(* end of an upload is announced once.                                     *)
(***************************************************************************)
EXTENDS Hooks, FiniteSetTheorems, TLAPS

(* A request has no progress goroutine before it has the lock. *)
Early == {"idle", "pre-create", "create", "post-create", "lock"}

(* The steps of a handler with the lock in hand. *)
HolderPCs ==
  {"write", "pre-terminate", "terminate", "post-terminate", "finish", "pre-finish", "post-finish"}

(* The steps after the pre-create hook. *)
PastCreate == HolderPCs \cup {"create", "post-create", "lock"}

(* The hooks that are enabled have agreed to the upload, or to its end:    *)
(* NothingWithoutConsent.                                                  *)
CreateAgreed == "pre-create" \in Enabled => Agreed("pre-create") # {}

TerminateAgreed ==
  "pre-terminate" \in Enabled =>
     Agreed("pre-terminate") # {} \/ \E i \in Invocations : hooks[i] = "stopped"

(* Nothing happens for an upload before pre-create has agreed: it does not *)
(* exist, no request for it is past the hook, and no other hook has run.   *)
ConsentFirst ==
  /\ upload # "none" => CreateAgreed
  /\ \A r \in Requests : pc[r] \in PastCreate \/ progress[r] >= 0 => CreateAgreed
  /\ \A i \in Invocations : i[2] # "pre-create" /\ hooks[i] # "none" => CreateAgreed

(* While a POST waits for pre-create or creates the upload, no other       *)
(* request runs: nobody knows the upload's URL.                            *)
CreatorAlone ==
  \A r, q \in Requests :
     pc[r] \in {"pre-create", "create"} => upload = "none" /\ (q # r => ~Active(q))

(* A request that may still finish the upload. *)
Writer(r) ==
  \/ pc[r] \in {"write", "finish", "pre-finish", "post-finish"}
  \/ pc[r] \in {"terminate", "post-terminate"} /\ kind[r] # "DELETE"

(* A handler works on the upload with the lock in hand, and so what it has *)
(* received is what is stored until it releases it.                        *)
LockInHand ==
  \A r \in Requests :
     /\ pc[r] \in HolderPCs => holder = r
     /\ Writer(r) => received[r] = offset
     /\ pc[r] \in {"pre-finish", "post-finish"} => received[r] = FileSize
     /\ pc[r] = "pre-terminate" => kind[r] = "DELETE"

(* A request that has called pre-finish or announced the finished upload. *)
Finisher(r) == hooks[<<r, "pre-finish", 0>>] # "none" \/ hooks[<<r, "post-finish", 0>>] # "none"

(* Once a request finishes the upload, no other one does or ever can: the  *)
(* upload stays complete, and a request that gets the lock later does not  *)
(* write.                                                                  *)
FinishedByOne ==
  \A r \in Requests :
     /\ Finisher(r) => offset = FileSize
     /\ \A q \in Requests : Finisher(r) /\ (Writer(q) \/ Finisher(q)) => q = r
     /\ /\ "pre-finish" \in Enabled
        /\ pc[r] = "post-finish" \/ hooks[<<r, "post-finish", 0>>] # "none"
        => hooks[<<r, "pre-finish", 0>>] = "ok"

(* A request that has announced the termination. *)
Terminator(r) == hooks[<<r, "post-terminate", 0>>] # "none"

(* Who announces a termination has removed the upload; a request that gets *)
(* the lock later does not find it any more.                               *)
TerminatedByOne ==
  \A r \in Requests :
     /\ Terminator(r) \/ pc[r] = "post-terminate" => upload = "gone"
     /\ pc[r] \in {"write", "pre-terminate", "terminate"} => upload # "gone"
     /\ \A q \in Requests : Terminator(r) => pc[q] # "post-terminate"
     /\ \A q \in Requests : Terminator(r) /\ Terminator(q) => q = r

(* Who is about to remove the upload was allowed to, and only the hook     *)
(* post-receive stops an upload.                                           *)
StopsRecorded ==
  /\ upload = "gone" => TerminateAgreed
  /\ \A r \in Requests :
       /\ cause[r] = "stop" => \E i \in Invocations : hooks[i] = "stopped"
       /\ pc[r] = "terminate" => TerminateAgreed
  /\ \A i \in Invocations : hooks[i] = "stopped" => i[2] = "post-receive"

(* The offsets that a request reports as progress grow: every event is an  *)
(* invocation of its own.  (The events of one request carry different      *)
(* offsets, so no state of an earlier one is overwritten.)                 *)
ProgressOnce ==
  \A r \in Requests :
     /\ progress[r] <= received[r]
     /\ progress[r] >= 0 => pc[r] \notin Early
     /\ \A o \in 1..FileSize :
          hooks[<<r, "post-receive", o>>] # "none" =>
            /\ o <= received[r]
            /\ progress[r] >= 0 => o <= progress[r]
            /\ pc[r] \notin Early

(* The inductive invariant. *)
HooksInv ==
  /\ TypeOK /\ ConsentFirst /\ CreatorAlone /\ LockInHand /\ FinishedByOne /\ TerminatedByOne
  /\ StopsRecorded /\ ProgressOnce

(* The keys of the function hooks. *)
LEMMA InvocationsOf ==
  /\ \A r \in Requests, typ \in PreHooks \cup Notifications : <<r, typ, 0>> \in Invocations
  /\ \A r \in Requests, o \in 1..FileSize : <<r, "post-receive", o>> \in Invocations
  /\ \A i \in Invocations :
       /\ i[1] \in Requests /\ i[2] \in AvailableHooks
       /\ i[2] # "post-receive" => i = <<i[1], i[2], 0>>
       /\ i[2] = "post-receive" => i[3] \in 1..FileSize /\ i = <<i[1], i[2], i[3]>>
BY DEF Invocations, AvailableHooks, PreHooks, Notifications

(* The steps of Next, by who takes them. *)
RequestStep(r) ==
  \/ PostFile(r) \/ Request(r) \/ HandlerStep(r) \/ Interrupted(r) \/ ReadBody(r)
  \/ DelayedCancel(r) \/ ProgressTick(r) \/ ProgressEnds(r)

HookStep(i) == InvokeHook(i) \/ postReceiveCallback(i)

(* A step of request r starts at most one hook: the one its pc names, or   *)
(* that of a progress event that has not been sent before.                 *)
LEMMA RequestHooks ==
  ASSUME HooksInv, NEW r \in Requests, RequestStep(r)
  PROVE  \/ UNCHANGED hooks
         \/ /\ Callback(r) /\ pc[r] \in PreHooks /\ hooks[<<r, pc[r], 0>>] = "none"
            /\ hooks' = [hooks EXCEPT ![<<r, pc[r], 0>>] = "running"]
         \/ /\ Notify(r) /\ pc[r] \in Notifications
            /\ hooks' = [hooks EXCEPT ![<<r, pc[r], 0>>] = "started"]
         \/ /\ ProgressTick(r) \/ ProgressEnds(r)
            /\ received[r] \in 1..FileSize /\ progress[r] >= 0
            /\ hooks[<<r, "post-receive", received[r]>>] = "none"
            /\ hooks' = [hooks EXCEPT ![<<r, "post-receive", received[r]>>] = "running"]
<1>1. CASE PostFile(r) \/ Request(r) \/ Interrupted(r) \/ ReadBody(r) \/ DelayedCancel(r)
  BY <1>1 DEF PostFile, Request, Begin, Interrupted, ReadBody, DelayedCancel
<1>2. CASE HandlerStep(r)
  BY <1>2 DEF HandlerStep, Callback, CallbackReturns, NewUpload, Notify, lockUpload, WriteChunkEnds,
              terminateUpload, finishUploadIfComplete, Respond
<1>3. CASE ProgressTick(r) \/ ProgressEnds(r)
  <2>1. /\ progress[r] >= 0 /\ progress[r] <= received[r] /\ received[r] \in 0..FileSize
        /\ progress[r] \in -1..FileSize
    BY <1>3 DEF HooksInv, TypeOK, ProgressOnce, ProgressTick, ProgressEnds
  <2>2. CASE received[r] = progress[r]
    BY <1>3, <2>2 DEF ProgressTick, ProgressEnds
  <2>3. CASE received[r] # progress[r]
    <3>1. received[r] \in 1..FileSize /\ ~(received[r] <= progress[r])
      BY <2>1, <2>3
    <3>2. hooks[<<r, "post-receive", received[r]>>] = "none"
      BY <2>1, <3>1 DEF HooksInv, ProgressOnce
    <3>3. hooks' = EmitProgress(r)
      BY <1>3, <2>3 DEF ProgressTick, ProgressEnds
    <3> QED
      BY <1>3, <2>1, <3>1, <3>2, <3>3 DEF EmitProgress
  <2> QED
    BY <2>2, <2>3
<1> QED
  BY <1>1, <1>2, <1>3 DEF RequestStep

(* An invocation never disappears, and the consent of a pre-hook and the   *)
(* stop of a post-receive hook are final.                                  *)
Grows ==
  \A i \in Invocations :
     /\ hooks[i] # "none" => hooks'[i] # "none"
     /\ hooks[i] = "ok" /\ i[2] \in PreHooks => hooks'[i] = "ok"
     /\ hooks[i] = "stopped" => hooks'[i] = "stopped"

(* So it is for the steps of the requests, ... *)
LEMMA RequestGrows == ASSUME HooksInv, NEW r \in Requests, RequestStep(r) PROVE Grows
<1>0. hooks \in [Invocations -> {"none", "started", "running", "stopped"} \cup Ended]
  BY DEF HooksInv, TypeOK
<1>1. CASE UNCHANGED hooks
  BY <1>1 DEF Grows
<1>2. CASE /\ pc[r] \in PreHooks /\ hooks[<<r, pc[r], 0>>] = "none"
           /\ hooks' = [hooks EXCEPT ![<<r, pc[r], 0>>] = "running"]
  BY <1>0, <1>2, InvocationsOf DEF Grows
<1>3. CASE pc[r] \in Notifications /\ hooks' = [hooks EXCEPT ![<<r, pc[r], 0>>] = "started"]
  <2>1. <<r, pc[r], 0>> \in Invocations /\ pc[r] \notin PreHooks /\ pc[r] # "post-receive"
    BY <1>3, InvocationsOf DEF Notifications, PreHooks
  <2>2. hooks[<<r, pc[r], 0>>] # "stopped"
    BY <2>1 DEF HooksInv, StopsRecorded
  <2> QED
    BY <1>0, <1>3, <2>1, <2>2 DEF Grows
<1>4. CASE /\ received[r] \in 1..FileSize
           /\ hooks[<<r, "post-receive", received[r]>>] = "none"
           /\ hooks' = [hooks EXCEPT ![<<r, "post-receive", received[r]>>] = "running"]
  BY <1>0, <1>4, InvocationsOf DEF Grows
<1> QED
  BY <1>1, <1>2, <1>3, <1>4, RequestHooks

(* ... and for the steps of the hooks. *)
LEMMA HookGrows == ASSUME HooksInv, NEW i \in Invocations, HookStep(i) PROVE Grows
<1>0. hooks \in [Invocations -> {"none", "started", "running", "stopped"} \cup Ended]
  BY DEF HooksInv, TypeOK
<1>1. CASE InvokeHook(i)
  BY <1>0, <1>1 DEF InvokeHook, Answered, Grows, Ended
<1>2. CASE postReceiveCallback(i)
  BY <1>0, <1>2 DEF postReceiveCallback, Grows, Ended, PreHooks
<1> QED
  BY <1>1, <1>2 DEF HookStep

(* Hence what the hooks have agreed to stays agreed. *)
LEMMA AgreementsStay ==
  ASSUME Grows
  PROVE  (CreateAgreed => CreateAgreed') /\ (TerminateAgreed => TerminateAgreed')
<1>1. \A r \in Requests, typ \in PreHooks :
         hooks[<<r, typ, 0>>] = "ok" => hooks'[<<r, typ, 0>>] = "ok"
  BY InvocationsOf DEF Grows
<1>2. \A typ \in PreHooks : Agreed(typ) \subseteq Agreed(typ)'
  BY <1>1 DEF Agreed
<1>3. "pre-create" \in PreHooks /\ "pre-terminate" \in PreHooks
  BY DEF PreHooks
<1>4. Agreed("pre-create") \subseteq Agreed("pre-create")'
      /\ Agreed("pre-terminate") \subseteq Agreed("pre-terminate")'
  BY <1>2, <1>3
<1>5. (\E i \in Invocations : hooks[i] = "stopped") => \E i \in Invocations : hooks'[i] = "stopped"
  BY DEF Grows
<1> QED
  BY <1>4, <1>5 DEF CreateAgreed, TerminateAgreed

-----------------------------------------------------------------------------

(* The steps of the requests preserve the types. *)
LEMMA RequestType == ASSUME HooksInv, NEW r \in Requests, RequestStep(r) PROVE TypeOK'
<1> USE DEF TypeOK
<1>0. TypeOK /\ r # 0 /\ r \in 0..N /\ progress[r] <= received[r]
  BY HooksAssumption DEF HooksInv, Requests, ProgressOnce
<1>h. hooks' \in [Invocations -> {"none", "started", "running", "stopped"} \cup Ended]
  BY <1>0, RequestHooks
<1>1. CASE PostFile(r) \/ Request(r) \/ Interrupted(r) \/ ReadBody(r) \/ DelayedCancel(r)
  <2>1. CASE PostFile(r)
    BY <1>0, <2>1 DEF PostFile, Begin, Goto, PreHooks, reqVars, ctxVars
  <2>2. CASE Request(r)
    BY <1>0, <2>2 DEF Request, Begin, Goto, reqVars, ctxVars
  <2>3. CASE Interrupted(r)
    BY <1>0, <2>3 DEF Interrupted, reqVars, ctxVars
  <2>4. CASE ReadBody(r)
    <3>1. offset' \in 0..FileSize
      BY <1>0, <2>4, HooksAssumption DEF ReadBody
    <3> QED
      BY <1>0, <2>4, <3>1 DEF ReadBody, reqVars, ctxVars
  <2>5. CASE DelayedCancel(r)
    BY <1>0, <2>5 DEF DelayedCancel, reqVars, ctxVars
  <2> QED
    BY <1>1, <2>1, <2>2, <2>3, <2>4, <2>5
<1>2. CASE HandlerStep(r)
  <2>1. CASE Callback(r)
    BY <1>0, <1>h, <2>1 DEF Callback, reqVars, ctxVars
  <2>2. CASE CallbackReturns(r)
    <3>1. AfterHook[pc[r]] \in {"create", "post-finish", "terminate"}
      BY <2>2 DEF CallbackReturns, AfterHook
    <3> QED
      BY <1>0, <2>2, <3>1 DEF CallbackReturns, Goto, Notifications, reqVars, ctxVars
  <2>3. CASE NewUpload(r)
    BY <1>0, <2>3 DEF NewUpload, Goto, Notifications, reqVars, ctxVars
  <2>4. CASE Notify(r)
    BY <1>0, <1>h, <2>4 DEF Notify, AfterNotification, Goto, reqVars, ctxVars
  <2>5. CASE lockUpload(r)
    <3>1. Fetched(r) \in {"respond", "pre-terminate", "write"} /\ 0 \in -1..FileSize
      BY HooksAssumption DEF Fetched
    <3> QED
      BY <1>0, <2>5, <3>1 DEF lockUpload, Goto, PreHooks, reqVars, ctxVars
  <2>6. CASE WriteChunkEnds(r)
    BY <1>0, <2>6 DEF WriteChunkEnds, Goto, reqVars, ctxVars
  <2>7. CASE terminateUpload(r)
    BY <1>0, <2>7 DEF terminateUpload, Goto, Notifications, reqVars, ctxVars
  <2>8. CASE finishUploadIfComplete(r)
    BY <1>0, <2>8 DEF finishUploadIfComplete, Goto, PreHooks, reqVars, ctxVars
  <2>9. CASE Respond(r)
    BY <1>0, <2>9, HooksAssumption DEF Respond, Goto, reqVars, ctxVars
  <2> QED
    BY <1>2, <2>1, <2>2, <2>3, <2>4, <2>5, <2>6, <2>7, <2>8, <2>9 DEF HandlerStep
<1>3. CASE ProgressTick(r) \/ ProgressEnds(r)
  <2>1. progress' \in [Requests -> -1..FileSize]
    BY <1>0, <1>3, HooksAssumption DEF ProgressTick, ProgressEnds
  <2> QED
    BY <1>0, <1>h, <1>3, <2>1 DEF ProgressTick, ProgressEnds, reqVars, ctxVars
<1> QED
  BY <1>1, <1>2, <1>3 DEF RequestStep

(* A step of r leaves the other requests and their hooks as they are. *)
LEMMA RequestFrame ==
  ASSUME HooksInv, NEW r \in Requests, RequestStep(r), NEW q \in Requests, q # r
  PROVE  /\ pc'[q] = pc[q] /\ kind'[q] = kind[q] /\ received'[q] = received[q]
         /\ cause'[q] = cause[q] /\ progress'[q] = progress[q]
         /\ holder = q <=> holder' = q
         /\ \A typ \in PreHooks \cup Notifications : hooks'[<<q, typ, 0>>] = hooks[<<q, typ, 0>>]
         /\ \A o \in 1..FileSize : hooks'[<<q, "post-receive", o>>] = hooks[<<q, "post-receive", o>>]
<1>0. TypeOK /\ q # 0
  BY HooksAssumption DEF HooksInv, Requests
<1>h. /\ \A typ \in PreHooks \cup Notifications : hooks'[<<q, typ, 0>>] = hooks[<<q, typ, 0>>]
      /\ \A o \in 1..FileSize : hooks'[<<q, "post-receive", o>>] = hooks[<<q, "post-receive", o>>]
  <2>1. ASSUME NEW j \in Invocations, j[1] = q
        PROVE  hooks'[j] = hooks[j]
    <3>1. j # <<r, pc[r], 0>> /\ j # <<r, "post-receive", received[r]>>
      BY <2>1
    <3>2. hooks \in [Invocations -> {"none", "started", "running", "stopped"} \cup Ended]
      BY <1>0 DEF TypeOK
    <3> QED
      BY <3>1, <3>2, RequestHooks
  <2> QED
    BY <2>1, InvocationsOf
<1>1. CASE PostFile(r) \/ Request(r) \/ Interrupted(r) \/ ReadBody(r) \/ DelayedCancel(r)
  BY <1>0, <1>h, <1>1 DEF PostFile, Request, Begin, Interrupted, ReadBody, DelayedCancel, TypeOK, Goto,
                  reqVars, ctxVars
<1>2. CASE HandlerStep(r)
  BY <1>0, <1>h, <1>2
  DEF HandlerStep, Callback, CallbackReturns, NewUpload, Notify, lockUpload, WriteChunkEnds,
      terminateUpload, finishUploadIfComplete, Respond, TypeOK, Goto, reqVars, ctxVars
<1>3. CASE ProgressTick(r) \/ ProgressEnds(r)
  BY <1>0, <1>h, <1>3 DEF ProgressTick, ProgressEnds, TypeOK, reqVars, ctxVars
<1> QED
  BY <1>1, <1>2, <1>3 DEF RequestStep

(* A hook that answers or stops the upload starts no other hook and        *)
(* touches no request but for the cause of its cancellation.               *)
LEMMA HookFrame ==
  ASSUME HooksInv, NEW i \in Invocations, HookStep(i)
  PROVE  /\ UNCHANGED <<backend, server, upload, offset, kind, pc, received, holder, ctxDone, progress>>
         /\ \A j \in Invocations : hooks'[j] = "none" <=> hooks[j] = "none"
         /\ \A j \in Invocations : hooks'[j] = "stopped" => j[2] = "post-receive"
         /\ \A q \in Requests : cause'[q] = cause[q] \/ hooks'[i] = "stopped"
         /\ TypeOK'
<1>0. TypeOK /\ i[1] \in Requests /\ \A j \in Invocations : hooks[j] = "stopped" => j[2] = "post-receive"
  BY InvocationsOf DEF HooksInv, StopsRecorded
<1>1. CASE InvokeHook(i)
  BY <1>0, <1>1 DEF InvokeHook, Answered, TypeOK, Ended, reqVars, ctxVars
<1>2. CASE postReceiveCallback(i)
  BY <1>0, <1>2 DEF postReceiveCallback, TypeOK, Ended, reqVars, ctxVars
<1> QED
  BY <1>1, <1>2 DEF HookStep

(* A request comes past pre-create only with its consent, and everything   *)
(* else comes after.                                                       *)
LEMMA RequestConsent == ASSUME HooksInv, NEW r \in Requests, RequestStep(r) PROVE ConsentFirst'
<1>0. TypeOK /\ ConsentFirst
  BY DEF HooksInv
<1>s. CreateAgreed => CreateAgreed'
  BY RequestGrows, AgreementsStay
<1>p. PreHooks \ {"pre-create"} \subseteq PastCreate /\ Notifications \subseteq PastCreate
  BY DEF PreHooks, Notifications, PastCreate, HolderPCs
<1>1. /\ pc'[r] \in PastCreate => pc[r] \in PastCreate \/ CreateAgreed
      /\ upload' # "none" => upload # "none" \/ pc[r] \in PastCreate
      /\ progress'[r] >= 0 => progress[r] >= 0 \/ pc[r] \in PastCreate
  <2> USE DEF PastCreate, HolderPCs
  <2>1. CASE PostFile(r) \/ Request(r) \/ Interrupted(r) \/ ReadBody(r) \/ DelayedCancel(r)
    BY <1>0, <2>1 DEF PostFile, Request, Begin, Interrupted, ReadBody, DelayedCancel, TypeOK, Goto,
                      reqVars, ctxVars, ConsentFirst
  <2>2. CASE CallbackReturns(r)
    <3>1. CASE pc[r] = "pre-create"
      BY <1>0, <2>2, <3>1
      DEF CallbackReturns, CreateAgreed, Agreed, TypeOK, Goto, reqVars, ctxVars
    <3>2. CASE pc[r] # "pre-create"
      BY <1>0, <2>2, <3>2 DEF CallbackReturns, TypeOK, PreHooks, reqVars, ctxVars
    <3> QED
      BY <3>1, <3>2
  <2>3. CASE HandlerStep(r) /\ ~CallbackReturns(r)
    BY <1>0, <2>3
    DEF HandlerStep, Callback, NewUpload, Notify, Notifications, lockUpload, WriteChunkEnds,
        terminateUpload, finishUploadIfComplete, Respond, TypeOK, Goto, reqVars, ctxVars
  <2>4. CASE ProgressTick(r) \/ ProgressEnds(r)
    BY <1>0, <2>4 DEF ProgressTick, ProgressEnds, TypeOK, reqVars, ctxVars
  <2> QED
    BY <2>1, <2>2, <2>3, <2>4 DEF RequestStep
<1>2. upload' # "none" => CreateAgreed
  BY <1>0, <1>1 DEF ConsentFirst
<1>3. \A q \in Requests : pc'[q] \in PastCreate \/ progress'[q] >= 0 => CreateAgreed
  BY <1>0, <1>1, RequestFrame DEF ConsentFirst
<1>4. ASSUME NEW i \in Invocations, i[2] # "pre-create", hooks'[i] # "none"
      PROVE  CreateAgreed
  <2>1. CASE hooks[i] # "none"
    BY <1>0, <1>4, <2>1 DEF ConsentFirst
  <2>2. CASE hooks[i] = "none"
    <3>1. \/ pc[r] \in PreHooks /\ i = <<r, pc[r], 0>>
          \/ pc[r] \in Notifications
          \/ progress[r] >= 0
      BY <1>0, <1>4, <2>2, RequestHooks DEF TypeOK
    <3> QED
      BY <1>0, <1>4, <1>p, <3>1 DEF ConsentFirst
  <2> QED
    BY <2>1, <2>2
<1> QED
  BY <1>s, <1>2, <1>3, <1>4 DEF ConsentFirst

(* No request starts while a POST is at pre-create, as the upload does not *)
(* exist, and no POST while another request runs.                          *)
LEMMA RequestCreator == ASSUME HooksInv, NEW r \in Requests, RequestStep(r) PROVE CreatorAlone'
<1>0. TypeOK /\ CreatorAlone
  BY DEF HooksInv
<1>1. CASE PostFile(r)
  BY <1>0, <1>1, RequestFrame
  DEF PostFile, Begin, Goto, TypeOK, CreatorAlone, Active, reqVars, ctxVars
<1>2. CASE Request(r)
  BY <1>0, <1>2, RequestFrame DEF Request, Begin, Goto, TypeOK, CreatorAlone, Active, reqVars, ctxVars
<1>3. CASE ~PostFile(r) /\ ~Request(r)
  <2>1. /\ pc'[r] \notin {"idle", "done"} => Active(r)
        /\ pc'[r] \in {"pre-create", "create"} => pc[r] \in {"pre-create", "create"}
        /\ pc'[r] \in {"pre-create", "create"} => upload' = upload
        /\ Active(r) \/ upload' = upload
    <3>1. CASE Interrupted(r) \/ ReadBody(r) \/ DelayedCancel(r) \/ ProgressTick(r) \/ ProgressEnds(r)
      BY <1>0, <3>1
      DEF Interrupted, ReadBody, DelayedCancel, ProgressTick, ProgressEnds, TypeOK, Active, reqVars
    <3>2. CASE CallbackReturns(r)
      BY <1>0, <3>2 DEF CallbackReturns, AfterHook, PreHooks, Goto, TypeOK, Active, reqVars
    <3>3. CASE HandlerStep(r) /\ ~CallbackReturns(r)
      BY <1>0, <3>3
      DEF HandlerStep, Callback, NewUpload, Notify, Notifications, AfterNotification, lockUpload,
          Fetched, WriteChunkEnds, terminateUpload, finishUploadIfComplete, Respond, PreHooks,
          TypeOK, Goto, Active, reqVars
    <3> QED
      BY <1>3, <3>1, <3>2, <3>3 DEF RequestStep
  <2> QED
    BY <1>0, <2>1, RequestFrame DEF CreatorAlone, Active
<1> QED
  BY <1>1, <1>2, <1>3

(* Only lockUpload comes to the steps that need the lock, and Respond      *)
(* releases it after them.                                                 *)
LEMMA RequestLock == ASSUME HooksInv, NEW r \in Requests, RequestStep(r) PROVE LockInHand'
<1>0. TypeOK /\ LockInHand /\ r # 0
  BY HooksAssumption DEF HooksInv, Requests
<1>1. /\ pc'[r] \in HolderPCs => holder' = r
      /\ Writer(r)' => received'[r] = offset'
      /\ pc'[r] \in {"pre-finish", "post-finish"} => received'[r] = FileSize
      /\ pc'[r] = "pre-terminate" => kind'[r] = "DELETE"
  <2>0. /\ pc[r] \in HolderPCs => holder = r
        /\ Writer(r) => received[r] = offset
        /\ pc[r] \in {"pre-finish", "post-finish"} => received[r] = FileSize
        /\ pc[r] = "pre-terminate" => kind[r] = "DELETE"
    BY <1>0 DEF LockInHand
  <2> USE <1>0, <2>0 DEF TypeOK, HolderPCs, Writer, Goto, reqVars, ctxVars
  <2>1. CASE PostFile(r) \/ Request(r) \/ Interrupted(r) \/ ReadBody(r) \/ DelayedCancel(r)
    BY <2>1 DEF PostFile, Request, Begin, Interrupted, ReadBody, DelayedCancel
  <2>2. CASE Callback(r) \/ CallbackReturns(r)
    BY <2>2 DEF Callback, CallbackReturns, AfterHook, PreHooks
  <2>3. CASE NewUpload(r) \/ Notify(r) \/ Respond(r)
    BY <2>3 DEF NewUpload, Notify, AfterNotification, Notifications, Respond
  <2>4. CASE lockUpload(r)
    BY <2>4 DEF lockUpload, Fetched
  <2>5. CASE WriteChunkEnds(r) \/ terminateUpload(r) \/ finishUploadIfComplete(r)
    BY <2>5 DEF WriteChunkEnds, terminateUpload, finishUploadIfComplete
  <2>6. CASE ProgressTick(r) \/ ProgressEnds(r)
    BY <2>6 DEF ProgressTick, ProgressEnds
  <2> QED
    BY <2>1, <2>2, <2>3, <2>4, <2>5, <2>6 DEF RequestStep, HandlerStep
<1>2. UNCHANGED offset \/ ReadBody(r)
  BY DEF RequestStep, HandlerStep, PostFile, Request, Begin, Interrupted, DelayedCancel,
         Callback, CallbackReturns, NewUpload, Notify, lockUpload, WriteChunkEnds, terminateUpload,
         finishUploadIfComplete, Respond, ProgressTick, ProgressEnds
<1>3. ASSUME NEW q \in Requests, q # r, Writer(q)
      PROVE  UNCHANGED offset
  <2>1. holder = q
    BY <1>0, <1>3 DEF LockInHand, Writer, HolderPCs
  <2>2. ~ReadBody(r)
    BY <1>0, <1>3, <2>1 DEF LockInHand, HolderPCs, ReadBody
  <2> QED
    BY <1>2, <2>2
<1>4. ASSUME NEW q \in Requests, q # r
      PROVE  /\ pc'[q] \in HolderPCs => holder' = q
             /\ Writer(q)' => received'[q] = offset'
             /\ pc'[q] \in {"pre-finish", "post-finish"} => received'[q] = FileSize
             /\ pc'[q] = "pre-terminate" => kind'[q] = "DELETE"
  BY <1>0, <1>3, <1>4, RequestFrame DEF LockInHand, Writer
<1> QED
  BY <1>1, <1>4 DEF LockInHand

(* The finisher has everything (received = FileSize) and the lock.  From   *)
(* then on lockUpload lets no request write, so there is no second one;    *)
(* and only CallbackReturns, with the consent of pre-finish, comes to      *)
(* post-finish.                                                            *)
LEMMA RequestFinish == ASSUME HooksInv, NEW r \in Requests, RequestStep(r) PROVE FinishedByOne'
<1>0. TypeOK /\ LockInHand /\ FinishedByOne
  BY DEF HooksInv
<1>t. {"pre-finish", "post-finish"} \subseteq PreHooks \cup Notifications
  BY DEF PreHooks, Notifications
<1>q. ASSUME NEW q \in Requests, q # r
      PROVE  (Finisher(q)' <=> Finisher(q)) /\ (Writer(q)' <=> Writer(q))
  BY <1>q, <1>t, RequestFrame DEF Finisher, Writer
<1>1. Finisher(r)' => Finisher(r) \/ pc[r] \in {"pre-finish", "post-finish"}
  <2>1. CASE UNCHANGED hooks
    BY <2>1 DEF Finisher
  <2>2. CASE hooks' # hooks
    <3>0. /\ <<r, "pre-finish", 0>> \in Invocations /\ <<r, "post-finish", 0>> \in Invocations
          /\ hooks \in [Invocations -> {"none", "started", "running", "stopped"} \cup Ended]
      BY <1>0, <1>t, InvocationsOf DEF TypeOK
    <3>1. ASSUME pc[r] \notin {"pre-finish", "post-finish"}
          PROVE  /\ hooks'[<<r, "pre-finish", 0>>] = hooks[<<r, "pre-finish", 0>>]
                 /\ hooks'[<<r, "post-finish", 0>>] = hooks[<<r, "post-finish", 0>>]
      BY <3>0, <3>1, RequestHooks
    <3> QED
      BY <3>1 DEF Finisher
  <2> QED
    BY <2>1, <2>2
<1>2. Writer(r)' => Writer(r) \/ offset # FileSize
  <2> USE <1>0 DEF TypeOK, Writer, Goto, reqVars, ctxVars
  <2>1. CASE PostFile(r) \/ Request(r) \/ Interrupted(r) \/ ReadBody(r) \/ DelayedCancel(r)
    BY <2>1 DEF PostFile, Request, Begin, Interrupted, ReadBody, DelayedCancel
  <2>2. CASE Callback(r) \/ CallbackReturns(r)
    BY <2>2 DEF Callback, CallbackReturns, AfterHook, PreHooks, LockInHand
  <2>3. CASE NewUpload(r) \/ Notify(r) \/ Respond(r)
    BY <2>3 DEF NewUpload, Notify, AfterNotification, Notifications, Respond
  <2>4. CASE lockUpload(r)
    BY <2>4 DEF lockUpload, Fetched
  <2>5. CASE WriteChunkEnds(r) \/ terminateUpload(r) \/ finishUploadIfComplete(r)
    BY <2>5 DEF WriteChunkEnds, terminateUpload, finishUploadIfComplete
  <2>6. CASE ProgressTick(r) \/ ProgressEnds(r)
    BY <2>6 DEF ProgressTick, ProgressEnds
  <2> QED
    BY <2>1, <2>2, <2>3, <2>4, <2>5, <2>6 DEF RequestStep, HandlerStep
<1>3. offset = FileSize => offset' = FileSize
  BY <1>0 DEF RequestStep, HandlerStep, PostFile, Request, Begin, Interrupted, DelayedCancel, ReadBody,
         Callback, CallbackReturns, NewUpload, Notify, lockUpload, WriteChunkEnds, terminateUpload,
         finishUploadIfComplete, Respond, ProgressTick, ProgressEnds, TypeOK
<1>4. ASSUME pc[r] \in {"pre-finish", "post-finish"}
      PROVE  /\ offset = FileSize /\ Writer(r)
             /\ \A q \in Requests : Writer(q) => q = r
  <2>1. \A q \in Requests : Writer(q) => holder = q
    BY <1>0 DEF Writer, LockInHand, HolderPCs
  <2>2. Writer(r)
    BY <1>4 DEF Writer
  <2> QED
    BY <1>0, <1>4, <2>1, <2>2 DEF LockInHand
<1>5. \A p \in Requests : Finisher(p)' => Finisher(p) \/ (p = r /\ pc[r] \in {"pre-finish", "post-finish"})
  BY <1>1, <1>q
<1>6. \A p \in Requests : Finisher(p)' => offset = FileSize
  BY <1>0, <1>4, <1>5 DEF FinishedByOne
<1>7. ASSUME NEW p \in Requests, NEW q \in Requests, Finisher(p)', Writer(q)' \/ Finisher(q)'
      PROVE  q = p
  <2>1. offset = FileSize /\ (Writer(q)' => Writer(q))
    BY <1>2, <1>6, <1>7, <1>q
  <2>2. CASE Finisher(p)
    BY <1>0, <1>4, <1>5, <1>7, <2>1, <2>2 DEF FinishedByOne
  <2>3. CASE ~Finisher(p)
    BY <1>0, <1>4, <1>5, <1>7, <2>1, <2>3 DEF FinishedByOne
  <2> QED
    BY <2>2, <2>3
<1>8. ASSUME "pre-finish" \in Enabled, NEW p \in Requests,
             pc'[p] = "post-finish" \/ hooks'[<<p, "post-finish", 0>>] # "none"
      PROVE  hooks'[<<p, "pre-finish", 0>>] = "ok"
  <2>0. hooks[<<p, "pre-finish", 0>>] = "ok" => hooks'[<<p, "pre-finish", 0>>] = "ok"
    BY RequestGrows, InvocationsOf DEF Grows, PreHooks
  <2>1. CASE pc[p] = "post-finish" \/ hooks[<<p, "post-finish", 0>>] # "none"
    BY <1>0, <1>8, <2>0, <2>1 DEF FinishedByOne
  <2>2. CASE pc[p] # "post-finish" /\ hooks[<<p, "post-finish", 0>>] = "none"
    <3>1. p = r
      BY <1>8, <2>2, <1>t, RequestFrame
    <3>2. hooks'[<<r, "post-finish", 0>>] = "none"
      <4>1. <<r, "post-finish", 0>> \in Invocations
        BY <1>t, InvocationsOf
      <4>2. "post-finish" \notin PreHooks
        BY DEF PreHooks
      <4> QED
        BY <1>0, <2>2, <3>1, <4>1, <4>2, RequestHooks DEF TypeOK
    <3>3. pc'[r] = "post-finish" /\ pc[r] # "post-finish"
      BY <1>8, <2>2, <3>1, <3>2
    <3>4. CallbackReturns(r) /\ pc[r] = "pre-finish"
      <4> USE <1>0, <3>3 DEF TypeOK, Goto, reqVars, ctxVars
      <4>1. ~(PostFile(r) \/ Request(r) \/ Interrupted(r) \/ ReadBody(r) \/ DelayedCancel(r))
        BY DEF PostFile, Request, Begin, Interrupted, ReadBody, DelayedCancel
      <4>2. CallbackReturns(r) => pc[r] = "pre-finish"
        BY DEF CallbackReturns, AfterHook, PreHooks
      <4>3. ~(Callback(r) \/ NewUpload(r) \/ Notify(r) \/ Respond(r) \/ lockUpload(r))
        BY DEF Callback, NewUpload, Notify, AfterNotification, Notifications, Respond, lockUpload, Fetched
      <4>4. ~(WriteChunkEnds(r) \/ terminateUpload(r) \/ finishUploadIfComplete(r))
        BY DEF WriteChunkEnds, terminateUpload, finishUploadIfComplete
      <4>5. ~(ProgressTick(r) \/ ProgressEnds(r))
        BY DEF ProgressTick, ProgressEnds
      <4> QED
        BY <4>1, <4>2, <4>3, <4>4, <4>5 DEF RequestStep, HandlerStep
    <3>5. hooks[<<r, "pre-finish", 0>>] = "ok"
      BY <1>0, <1>8, <3>3, <3>4 DEF CallbackReturns, Goto, TypeOK
    <3> QED
      BY <2>0, <3>1, <3>5
  <2> QED
    BY <2>1, <2>2
<1> QED
  BY <1>3, <1>6, <1>7, <1>8 DEF FinishedByOne

(* terminateUpload removes the upload with the lock in hand, so that no    *)
(* other request is between its GetUpload and its own removal.             *)
LEMMA RequestTerminate == ASSUME HooksInv, NEW r \in Requests, RequestStep(r) PROVE TerminatedByOne'
<1>0. TypeOK /\ LockInHand /\ CreatorAlone /\ TerminatedByOne
  BY DEF HooksInv
<1>t. "post-terminate" \in Notifications /\ "post-terminate" \notin PreHooks
  BY DEF PreHooks, Notifications
<1>q. ASSUME NEW q \in Requests, q # r
      PROVE  (Terminator(q)' <=> Terminator(q)) /\ pc'[q] = pc[q]
  BY <1>q, <1>t, RequestFrame DEF Terminator
<1>1. Terminator(r)' => Terminator(r) \/ (pc[r] = "post-terminate" /\ pc'[r] # "post-terminate")
  <2>0. /\ <<r, "post-terminate", 0>> \in Invocations
        /\ hooks \in [Invocations -> {"none", "started", "running", "stopped"} \cup Ended]
    BY <1>0, <1>t, InvocationsOf DEF TypeOK
  <2>1. CASE pc[r] # "post-terminate" \/ UNCHANGED hooks
    BY <1>t, <2>0, <2>1, RequestHooks DEF Terminator
  <2>2. CASE pc[r] = "post-terminate" /\ hooks' # hooks
    <3>1. Notify(r) => pc'[r] # "post-terminate"
      BY <1>0, <2>2 DEF Notify, AfterNotification, Goto, TypeOK
    <3>2. hooks' = [hooks EXCEPT ![<<r, "post-receive", received[r]>>] = "running"] =>
             (Terminator(r)' => Terminator(r))
      BY <2>0 DEF Terminator
    <3> QED
      BY <1>t, <2>2, <3>1, <3>2, RequestHooks
  <2> QED
    BY <2>1, <2>2
<1>2. /\ upload = "gone" => upload' = "gone"
      /\ upload' = "gone" => upload = "gone" \/ (pc[r] = "terminate" /\ pc'[r] = "post-terminate")
      /\ pc'[r] = "post-terminate" =>
           \/ pc[r] = "post-terminate" \/ (pc[r] = "terminate" /\ upload' = "gone")
      /\ pc'[r] \in {"write", "pre-terminate", "terminate"} =>
           upload' = upload /\ (pc[r] \in {"write", "pre-terminate", "terminate"} \/ upload # "gone")
  <2>0. pc[r] = "create" => upload = "none"
    BY <1>0 DEF CreatorAlone
  <2> USE <1>0, <2>0 DEF TypeOK, Goto, reqVars, ctxVars
  <2>1. CASE PostFile(r) \/ Request(r) \/ Interrupted(r) \/ ReadBody(r) \/ DelayedCancel(r)
    BY <2>1 DEF PostFile, Request, Begin, Interrupted, ReadBody, DelayedCancel
  <2>2. CASE Callback(r) \/ CallbackReturns(r)
    BY <2>2 DEF Callback, CallbackReturns, AfterHook, PreHooks
  <2>3. CASE NewUpload(r) \/ Notify(r) \/ Respond(r)
    BY <2>3 DEF NewUpload, Notify, AfterNotification, Notifications, Respond
  <2>4. CASE lockUpload(r)
    <3>1. Fetched(r) \in {"respond", "pre-terminate", "write"} /\ (upload = "gone" => Fetched(r) = "respond")
      BY DEF Fetched
    <3> QED
      BY <2>4, <3>1 DEF lockUpload
  <2>5. CASE WriteChunkEnds(r) \/ terminateUpload(r) \/ finishUploadIfComplete(r)
    BY <2>5 DEF WriteChunkEnds, terminateUpload, finishUploadIfComplete
  <2>6. CASE ProgressTick(r) \/ ProgressEnds(r)
    BY <2>6 DEF ProgressTick, ProgressEnds
  <2> QED
    BY <2>1, <2>2, <2>3, <2>4, <2>5, <2>6 DEF RequestStep, HandlerStep
<1>3. \A p, q \in Requests : pc[p] \in HolderPCs /\ pc[q] \in HolderPCs => p = q
  BY <1>0 DEF LockInHand
<1>4. {"write", "pre-terminate", "terminate", "post-terminate"} \subseteq HolderPCs
  BY DEF HolderPCs
<1>5. ASSUME NEW p \in Requests, Terminator(p)' \/ pc'[p] = "post-terminate" PROVE upload' = "gone"
  BY <1>0, <1>1, <1>2, <1>5, <1>q DEF TerminatedByOne
<1>6. ASSUME NEW p \in Requests, pc'[p] \in {"write", "pre-terminate", "terminate"}
      PROVE  upload' # "gone"
  <2>1. CASE p = r
    BY <1>0, <1>2, <1>6, <2>1 DEF TerminatedByOne
  <2>2. CASE p # r
    <3>1. pc[p] \in {"write", "pre-terminate", "terminate"} /\ upload # "gone"
      BY <1>0, <1>6, <1>q, <2>2 DEF TerminatedByOne
    <3> QED
      BY <1>2, <1>3, <1>4, <2>2, <3>1
  <2> QED
    BY <2>1, <2>2
<1>7. ASSUME NEW p \in Requests, NEW q \in Requests, Terminator(p)'
      PROVE  pc'[q] # "post-terminate"
  <2>1. CASE Terminator(p)
    <3>1. upload = "gone" /\ pc[q] # "post-terminate"
      BY <1>0, <2>1 DEF TerminatedByOne
    <3>2. pc[q] # "terminate"
      BY <1>0, <3>1 DEF TerminatedByOne
    <3> QED
      BY <1>2, <1>q, <3>1, <3>2
  <2>2. CASE ~Terminator(p)
    <3>1. p = r /\ pc[r] = "post-terminate" /\ pc'[r] # "post-terminate"
      BY <1>1, <1>7, <1>q, <2>2
    <3> QED
      BY <1>3, <1>4, <1>q, <3>1
  <2> QED
    BY <2>1, <2>2
<1>8. ASSUME NEW p \in Requests, NEW q \in Requests, Terminator(p)', Terminator(q)'
      PROVE  q = p
  BY <1>0, <1>1, <1>8, <1>q DEF TerminatedByOne
<1> QED
  BY <1>5, <1>6, <1>7, <1>8 DEF TerminatedByOne

(* A DELETE comes to terminateUpload with the consent of pre-terminate, a  *)
(* writer because its context was stopped.                                 *)
LEMMA RequestStops == ASSUME HooksInv, NEW r \in Requests, RequestStep(r) PROVE StopsRecorded'
<1>0. TypeOK /\ StopsRecorded
  BY DEF HooksInv
<1>s. TerminateAgreed => TerminateAgreed'
  BY RequestGrows, AgreementsStay
<1>1. ASSUME NEW i \in Invocations, hooks'[i] = "stopped" PROVE i[2] = "post-receive"
  <2>1. hooks[i] = "stopped"
    BY <1>0, <1>1, RequestHooks DEF TypeOK
  <2> QED
    BY <1>0, <2>1 DEF StopsRecorded
<1>2. /\ upload' = "gone" => upload = "gone" \/ pc[r] = "terminate"
      /\ pc'[r] = "terminate" => TerminateAgreed
      /\ cause'[r] = "stop" => cause[r] = "stop"
  <2> USE <1>0 DEF TypeOK, Goto, reqVars, ctxVars
  <2>1. CASE PostFile(r) \/ Request(r) \/ Interrupted(r) \/ ReadBody(r) \/ DelayedCancel(r)
    BY <2>1 DEF PostFile, Request, Begin, Interrupted, ReadBody, DelayedCancel, StopsRecorded
  <2>2. CASE Callback(r)
    BY <2>2 DEF Callback, StopsRecorded
  <2>3. CASE CallbackReturns(r)
    <3>1. CASE pc[r] = "pre-terminate"
      BY <2>3, <3>1 DEF CallbackReturns, TerminateAgreed, Agreed
    <3>2. CASE pc[r] # "pre-terminate"
      BY <2>3, <3>2 DEF CallbackReturns, AfterHook, PreHooks
    <3> QED
      BY <3>1, <3>2
  <2>4. CASE NewUpload(r) \/ Notify(r) \/ Respond(r) \/ lockUpload(r)
    BY <2>4 DEF NewUpload, Notify, AfterNotification, Notifications, Respond, lockUpload, Fetched
  <2>5. CASE WriteChunkEnds(r)
    BY <2>5 DEF WriteChunkEnds, StopsRecorded, TerminateAgreed
  <2>6. CASE terminateUpload(r) \/ finishUploadIfComplete(r)
    BY <2>6 DEF terminateUpload, finishUploadIfComplete
  <2>7. CASE ProgressTick(r) \/ ProgressEnds(r)
    BY <2>7 DEF ProgressTick, ProgressEnds, StopsRecorded
  <2> QED
    BY <2>1, <2>2, <2>3, <2>4, <2>5, <2>6, <2>7 DEF RequestStep, HandlerStep
<1>3. upload' = "gone" => TerminateAgreed
  BY <1>0, <1>2 DEF StopsRecorded
<1>4. \A q \in Requests : pc'[q] = "terminate" => TerminateAgreed
  BY <1>0, <1>2, RequestFrame DEF StopsRecorded
<1>5. \A q \in Requests : cause'[q] = "stop" => \E i \in Invocations : hooks'[i] = "stopped"
  BY <1>0, <1>2, RequestFrame, RequestGrows DEF StopsRecorded, Grows
<1> QED
  BY <1>s, <1>1, <1>3, <1>4, <1>5 DEF StopsRecorded

(* What a request has received only grows, and lockUpload, which sets it,  *)
(* comes before the first progress event.                                  *)
LEMMA RequestProgress == ASSUME HooksInv, NEW r \in Requests, RequestStep(r) PROVE ProgressOnce'
<1>0. TypeOK /\ LockInHand /\ ProgressOnce
  BY DEF HooksInv
<1>q. ASSUME NEW q \in Requests, q # r
      PROVE  /\ progress'[q] <= received'[q]
             /\ progress'[q] >= 0 => pc'[q] \notin Early
             /\ \A o \in 1..FileSize :
                  hooks'[<<q, "post-receive", o>>] # "none" =>
                    /\ o <= received'[q]
                    /\ progress'[q] >= 0 => o <= progress'[q]
                    /\ pc'[q] \notin Early
  BY <1>0, <1>q, RequestFrame DEF ProgressOnce
<1>1. /\ progress[r] \in -1..FileSize /\ received[r] \in 0..FileSize
      /\ progress'[r] \in -1..FileSize /\ received'[r] \in 0..FileSize
      /\ progress[r] <= received[r] /\ FileSize \in Nat
      /\ progress[r] >= 0 => pc[r] \notin Early
  BY <1>0, RequestType, HooksAssumption DEF TypeOK, ProgressOnce
<1>2. ASSUME NEW o \in 1..FileSize, hooks'[<<r, "post-receive", o>>] # "none"
      PROVE  \/ hooks[<<r, "post-receive", o>>] # "none"
             \/ o = received[r] /\ progress[r] >= 0 /\ (ProgressTick(r) \/ ProgressEnds(r))
  <2>1. /\ <<r, "post-receive", o>> \in Invocations
        /\ "post-receive" \notin PreHooks /\ "post-receive" \notin Notifications
        /\ hooks \in [Invocations -> {"none", "started", "running", "stopped"} \cup Ended]
    BY <1>0, InvocationsOf DEF PreHooks, Notifications, TypeOK
  <2> QED
    BY <1>2, <2>1, RequestHooks
<1>3. CASE ProgressTick(r) \/ ProgressEnds(r)
  <2>1. /\ UNCHANGED <<pc, received>> /\ progress[r] >= 0
        /\ progress'[r] = received[r] \/ progress'[r] = -1
    BY <1>0, <1>3 DEF ProgressTick, ProgressEnds, TypeOK, reqVars
  <2>2. \A o \in 1..FileSize :
           hooks[<<r, "post-receive", o>>] # "none" => o <= received[r] /\ pc[r] \notin Early
    BY <1>0 DEF ProgressOnce
  <2>3. \A o \in 1..FileSize :
           hooks'[<<r, "post-receive", o>>] # "none" => o <= received[r] /\ pc[r] \notin Early
    BY <1>1, <1>2, <2>2
  <2> QED
    BY <1>1, <1>q, <2>1, <2>3 DEF ProgressOnce
<1>4. CASE ~(ProgressTick(r) \/ ProgressEnds(r))
  <2>1. \/ lockUpload(r) /\ pc[r] \in Early /\ pc'[r] \notin Early /\ progress'[r] \in {progress[r], 0}
        \/ /\ received[r] <= received'[r] /\ progress'[r] = progress[r]
           /\ pc'[r] \in Early => pc[r] \in Early
    <3> USE <1>0, <1>1 DEF TypeOK, Early, Goto, reqVars, ctxVars
    <3>1. CASE PostFile(r) \/ Request(r) \/ Interrupted(r) \/ DelayedCancel(r)
      BY <3>1 DEF PostFile, Request, Begin, Interrupted, DelayedCancel
    <3>2. CASE ReadBody(r)
      <4>1. received[r] = offset
        BY <3>2 DEF ReadBody, LockInHand, Writer
      <4> QED
        BY <3>2, <4>1 DEF ReadBody
    <3>3. CASE Callback(r) \/ CallbackReturns(r)
      BY <3>3 DEF Callback, CallbackReturns, AfterHook, PreHooks
    <3>4. CASE NewUpload(r) \/ Notify(r) \/ Respond(r)
      BY <3>4 DEF NewUpload, Notify, AfterNotification, Notifications, Respond
    <3>5. CASE lockUpload(r)
      BY <3>5 DEF lockUpload, Fetched
    <3>6. CASE WriteChunkEnds(r) \/ terminateUpload(r) \/ finishUploadIfComplete(r)
      BY <3>6 DEF WriteChunkEnds, terminateUpload, finishUploadIfComplete
    <3> QED
      BY <1>4, <3>1, <3>2, <3>3, <3>4, <3>5, <3>6 DEF RequestStep, HandlerStep
  <2>2. \A o \in 1..FileSize :
           hooks'[<<r, "post-receive", o>>] # "none" =>
              /\ o <= received[r] /\ pc[r] \notin Early
              /\ progress[r] >= 0 => o <= progress[r]
    BY <1>0, <1>2, <1>4 DEF ProgressOnce
  <2> QED
    BY <1>1, <1>q, <2>1, <2>2 DEF ProgressOnce
<1> QED
  BY <1>3, <1>4

-----------------------------------------------------------------------------

(* The steps of the hooks preserve the invariant. *)
LEMMA HookKeepsInv == ASSUME HooksInv, NEW i \in Invocations, HookStep(i) PROVE HooksInv'
<1> USE InvocationsOf, HookFrame
<1>s. (CreateAgreed => CreateAgreed') /\ (TerminateAgreed => TerminateAgreed')
  BY HookGrows, AgreementsStay
<1>t. {"pre-finish", "post-finish", "post-terminate"} \subseteq PreHooks \cup Notifications
  BY DEF PreHooks, Notifications
<1>o. \A q \in Requests : hooks[<<q, "pre-finish", 0>>] = "ok" => hooks'[<<q, "pre-finish", 0>>] = "ok"
  BY HookGrows DEF Grows, PreHooks
<1>1. ConsentFirst'
  BY <1>s DEF HooksInv, ConsentFirst
<1>2. CreatorAlone' /\ LockInHand'
  BY DEF HooksInv, CreatorAlone, LockInHand, Active, Writer
<1>3. \A q \in Requests : (Finisher(q)' <=> Finisher(q)) /\ (Writer(q)' <=> Writer(q))
                            /\ (Terminator(q)' <=> Terminator(q))
  BY <1>t DEF Finisher, Writer, Terminator
<1>4. FinishedByOne'
  <2>1. \A q \in Requests : hooks'[<<q, "post-finish", 0>>] = "none" <=> hooks[<<q, "post-finish", 0>>] = "none"
    BY <1>t
  <2>2. FinishedByOne /\ UNCHANGED <<pc, offset>>
    BY DEF HooksInv
  <2>3. ASSUME NEW q \in Requests, "pre-finish" \in Enabled,
               pc'[q] = "post-finish" \/ hooks'[<<q, "post-finish", 0>>] # "none"
        PROVE  hooks'[<<q, "pre-finish", 0>>] = "ok"
    <3>1. pc[q] = "post-finish" \/ hooks[<<q, "post-finish", 0>>] # "none"
      BY <2>1, <2>2, <2>3
    <3>2. hooks[<<q, "pre-finish", 0>>] = "ok"
      BY <2>2, <2>3, <3>1 DEF FinishedByOne
    <3> QED
      BY <1>o, <3>2
  <2>4. ASSUME NEW p \in Requests, NEW q \in Requests, Finisher(p)'
        PROVE  offset' = FileSize /\ (Writer(q)' \/ Finisher(q)' => q = p)
    <3>1. Finisher(p) /\ (Writer(q)' => Writer(q)) /\ (Finisher(q)' => Finisher(q))
      BY <1>3, <2>4
    <3> QED
      BY <2>2, <3>1 DEF FinishedByOne
  <2> QED
    BY <2>3, <2>4 DEF FinishedByOne
<1>5. TerminatedByOne'
  BY <1>3 DEF HooksInv, TerminatedByOne
<1>6. StopsRecorded'
  <2>1. (\E j \in Invocations : hooks[j] = "stopped") => \E j \in Invocations : hooks'[j] = "stopped"
    BY HookGrows DEF Grows
  <2> QED
    BY <1>s, <2>1 DEF HooksInv, StopsRecorded
<1>7. ProgressOnce'
  BY DEF HooksInv, ProgressOnce
<1> QED
  BY <1>1, <1>2, <1>4, <1>5, <1>6, <1>7 DEF HooksInv

(* The state of a server that has just started, or has exited. *)
Fresh ==
  /\ backend \in Backends /\ server \in {"up", "exited"}
  /\ upload = "none" /\ offset = 0 /\ holder = 0
  /\ kind = [r \in Requests |-> "none"]
  /\ pc = [r \in Requests |-> "idle"]
  /\ received = [r \in Requests |-> 0]
  /\ cause = [r \in Requests |-> "none"]
  /\ ctxDone = {}
  /\ progress = [r \in Requests |-> -1]
  /\ hooks = [i \in Invocations |-> "none"]

(* Nothing has run in it. *)
LEMMA FreshInv == Fresh => HooksInv
<1> SUFFICES ASSUME Fresh PROVE HooksInv
  OBVIOUS
<1>1. TypeOK
  BY HooksAssumption DEF Fresh, TypeOK
<1>2. /\ \A i \in Invocations : hooks[i] = "none"
      /\ \A r \in Requests : pc[r] = "idle" /\ progress[r] = -1 /\ received[r] = 0 /\ cause[r] = "none"
      /\ \A r \in Requests, typ \in PreHooks \cup Notifications : hooks[<<r, typ, 0>>] = "none"
      /\ \A r \in Requests, o \in 1..FileSize : hooks[<<r, "post-receive", o>>] = "none"
  BY InvocationsOf DEF Fresh
<1>3. \A r \in Requests : ~Finisher(r) /\ ~Writer(r) /\ ~Terminator(r)
  BY <1>2 DEF Finisher, Writer, Terminator, PreHooks, Notifications
<1>4. ConsentFirst /\ CreatorAlone /\ LockInHand
  BY <1>2, <1>3 DEF Fresh, ConsentFirst, CreatorAlone, LockInHand, PastCreate, HolderPCs
<1>5. \A r \in Requests : pc[r] = "idle" /\ hooks[<<r, "post-finish", 0>>] = "none"
  BY <1>2 DEF Notifications
<1>6. FinishedByOne
  BY <1>3, <1>5 DEF FinishedByOne
<1>7. TerminatedByOne
  BY <1>3, <1>5 DEF TerminatedByOne
<1>8. StopsRecorded /\ ProgressOnce
  BY <1>2 DEF Fresh, StopsRecorded, ProgressOnce
<1> QED
  BY <1>1, <1>4, <1>6, <1>7, <1>8 DEF HooksInv

(* A shutdown cancels requests, and it is no stop by a hook. *)
LEMMA ShutdownKeepsInv == ASSUME HooksInv, Shutdown PROVE HooksInv'
<1>1. UNCHANGED <<backend, upload, offset, kind, pc, received, holder, ctxDone, progress, hooks>>
  BY DEF Shutdown, reqVars
<1>2. \A r \in Requests : cause'[r] = "stop" => cause[r] = "stop"
  BY DEF Shutdown
<1>3. TypeOK'
  BY <1>1 DEF HooksInv, TypeOK, Shutdown
<1>4. StopsRecorded'
  BY <1>1, <1>2 DEF HooksInv, StopsRecorded, TerminateAgreed, Agreed
<1>5. ConsentFirst' /\ CreatorAlone' /\ LockInHand'
  BY <1>1 DEF HooksInv, ConsentFirst, CreateAgreed, Agreed, CreatorAlone, Active, LockInHand, Writer
<1>6. FinishedByOne' /\ TerminatedByOne' /\ ProgressOnce'
  BY <1>1
  DEF HooksInv, FinishedByOne, Finisher, Writer, TerminatedByOne, Terminator, ProgressOnce
<1> QED
  BY <1>3, <1>4, <1>5, <1>6 DEF HooksInv

(* A step that changes nothing preserves the invariant. *)
LEMMA StutterKeepsInv == ASSUME HooksInv, UNCHANGED vars PROVE HooksInv'
<1> USE DEF vars, reqVars, ctxVars
<1>1. TypeOK' /\ StopsRecorded'
  BY DEF HooksInv, TypeOK, StopsRecorded, TerminateAgreed, Agreed
<1>2. ConsentFirst' /\ CreatorAlone' /\ LockInHand'
  BY DEF HooksInv, ConsentFirst, CreateAgreed, Agreed, CreatorAlone, Active, LockInHand, Writer
<1>3. FinishedByOne' /\ TerminatedByOne' /\ ProgressOnce'
  BY DEF HooksInv, FinishedByOne, Finisher, Writer, TerminatedByOne, Terminator, ProgressOnce
<1> QED
  BY <1>1, <1>2, <1>3 DEF HooksInv

(* The invariant holds for any number of requests, any length, every       *)
(* backend and every choice of enabled hooks.                              *)
LEMMA Invariance == Spec => []HooksInv
<1>1. Init => HooksInv
  BY FreshInv DEF Init, Fresh
<1>2. ASSUME HooksInv, [Next]_vars PROVE HooksInv'
  <2>1. ASSUME NEW r \in Requests, RequestStep(r) PROVE HooksInv'
    BY <1>2, <2>1, RequestType, RequestConsent, RequestCreator, RequestLock, RequestFinish,
       RequestTerminate, RequestStops, RequestProgress DEF HooksInv
  <2>2. ASSUME NEW i \in Invocations, HookStep(i) PROVE HooksInv'
    BY <1>2, <2>2, HookKeepsInv
  <2>3. CASE ShutdownComplete
    <3>1. Fresh'
      BY <1>2, <2>3 DEF Fresh, ShutdownComplete, HooksInv, TypeOK
    <3> QED
      BY <3>1, FreshInv, PTL
  <2>4. Next => \/ \E r \in Requests : RequestStep(r)
                \/ \E i \in Invocations : HookStep(i)
                \/ Shutdown \/ ShutdownComplete
    BY DEF Next, RequestStep, HookStep
  <2> QED
    BY <1>2, <2>1, <2>2, <2>3, <2>4, ShutdownKeepsInv, StutterKeepsInv
<1> QED
  BY <1>1, <1>2, PTL DEF Spec

(* The types, for every value of the constants (TypeOK). *)
THEOREM TypeCorrect == Spec => []TypeOK
<1>1. HooksInv => TypeOK
  BY DEF HooksInv
<1> QED
  BY <1>1, Invariance, PTL

(* pre-create comes first and post-finish after pre-finish has agreed      *)
(* (HookOrder), as docs/_advanced-topics/hooks.md promises, however        *)
(* requests, hooks, cancellations and the shutdown interleave.             *)
THEOREM HookOrderCorrect == Spec => []HookOrder
<1>1. HooksInv => HookOrder
  BY DEF HooksInv, ConsentFirst, CreateAgreed, FinishedByOne, HookOrder, Ran, Agreed
<1> QED
  BY <1>1, Invariance, PTL

(* No upload exists or disappears without the consent of the hooks that    *)
(* are enabled for it (NothingWithoutConsent): a hook that fails, times    *)
(* out or outlives its request counts as one that refuses.                 *)
THEOREM ConsentCorrect == Spec => []NothingWithoutConsent
<1>1. HooksInv => NothingWithoutConsent
  BY DEF HooksInv, ConsentFirst, CreateAgreed, StopsRecorded, TerminateAgreed, NothingWithoutConsent
<1> QED
  BY <1>1, Invariance, PTL

(* A set whose elements are all equal has at most one. *)
LEMMA AtMostOne ==
  ASSUME NEW S, \A p, q \in S : p = q
  PROVE  Cardinality(S) <= 1
<1>1. CASE S = {}
  BY <1>1, FS_EmptySet
<1>2. CASE S # {}
  <2>1. PICK p \in S : TRUE
    BY <1>2
  <2>2. S = {p}
    BY <2>1
  <2>3. Cardinality({p}) = 1
    BY FS_Singleton
  <2> QED
    BY <2>2, <2>3
<1> QED
  BY <1>1, <1>2

(* pre-finish, post-finish and post-terminate run for one request each     *)
(* (AnnouncedOnce), however many requests race for the end of the upload.  *)
THEOREM AnnouncedOnceCorrect == Spec => []AnnouncedOnce
<1>1. HooksInv => AnnouncedOnce
  <2> SUFFICES ASSUME HooksInv,
                      NEW typ \in {"pre-finish", "post-finish", "post-terminate"}
               PROVE  Cardinality(Ran(typ)) <= 1
    BY DEF AnnouncedOnce
  <2>1. \A p, q \in Ran(typ) : p = q
    <3>1. FinishedByOne /\ TerminatedByOne
      BY DEF HooksInv
    <3>2. ASSUME NEW p \in Ran(typ), typ \in {"pre-finish", "post-finish"}
          PROVE  p \in Requests /\ Finisher(p)
      BY <3>2 DEF Ran, Finisher
    <3>3. ASSUME NEW p \in Ran(typ), typ = "post-terminate"
          PROVE  p \in Requests /\ Terminator(p)
      BY <3>3 DEF Ran, Terminator
    <3>4. CASE typ \in {"pre-finish", "post-finish"}
      BY <3>1, <3>2, <3>4 DEF FinishedByOne
    <3>5. CASE typ = "post-terminate"
      BY <3>1, <3>3, <3>5 DEF TerminatedByOne
    <3> QED
      BY <3>4, <3>5
  <2> QED
    BY <2>1, AtMostOne
<1> QED
  BY <1>1, Invariance, PTL

=============================================================================
