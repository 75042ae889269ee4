------------------------- MODULE UploadHandlerProofs ------------------------
(***************************************************************************)
(* Whatever implements the Lock interface is an exclusive lock.  For any   *)
(* number of requests and uploads, any inputs, any MaxSize and any faults: *)
(* the handler uses its Locker as the interface says, whoever works on an  *)
(* upload's files holds its lock, one request at a time is in the store    *)
(* with an upload, and none appends to a file that is gone; a download is  *)
(* of one state of the upload, and a terminated upload stays gone.  For    *)
(* the requests of protocol version 1 (TusV1): the stored bytes are a      *)
(* prefix of the client's file, the offsets in the responses are true,     *)
(* pre-finish is called once, and the handler implements the upload        *)
(* resource.                                                               *)
(***************************************************************************)
EXTENDS UploadHandler, TLAPS

(* Nobody holds a lock at first. *)
LEMMA LockInitIInv == LockInit => LockIInv
BY DEF LockInit, LockIInv, LockTypeOK, HoldersRecorded, Phases

(* Each operation of the interface, and a crash of any set of callers,     *)
(* preserves the inductive invariant.                                      *)
LEMMA LockNextIInv == LockIInv /\ [LockNext]_lockVars => LockIInv'
<1> SUFFICES ASSUME LockIInv, [LockNext]_lockVars PROVE LockIInv'
  OBVIOUS
<1> USE NoCallerAssumption DEF LockIInv, LockTypeOK, HoldersRecorded, Phases
<1>1. ASSUME NEW c \in Callers, Call(c) PROVE LockIInv'
  BY <1>1 DEF Call
<1>2. ASSUME NEW c \in Callers, Acquire(c) PROVE LockIInv'
  BY <1>2 DEF Acquire
<1>3. ASSUME NEW c \in Callers, GiveUp(c) PROVE LockIInv'
  BY <1>3 DEF GiveUp
<1>4. ASSUME NEW c \in Callers, Ask(c) PROVE LockIInv'
  BY <1>4 DEF Ask
<1>5. ASSUME NEW c \in Callers, Release(c) PROVE LockIInv'
  BY <1>5 DEF Release
<1>6. ASSUME NEW S \in SUBSET Callers, Crash(S) PROVE LockIInv'
  BY <1>6 DEF Crash
<1>7. ASSUME UNCHANGED lockVars PROVE LockIInv'
  BY <1>7 DEF lockVars
<1> QED
  BY <1>1, <1>2, <1>3, <1>4, <1>5, <1>6, <1>7 DEF LockNext

(* A lock has one recorded owner, so it has one holder. *)
LEMMA LockIInvExclusive == LockIInv => Exclusive
BY DEF LockIInv, HoldersRecorded, Exclusive

(* No implementation of the interface hands out a lock twice: with the     *)
(* theorem Refinement of each locker, the interface's promise.             *)
THEOREM InterfaceExclusive == LockSpec => [](LockTypeOK /\ Exclusive)
<1>1. LockIInv => LockTypeOK
  BY DEF LockIInv
<1> QED
  BY <1>1, LockInitIInv, LockNextIInv, LockIInvExclusive, PTL DEF LockSpec

-----------------------------------------------------------------------------

(* Every step of the handler leaves the locks alone or is one operation of *)
(* the interface: no handler calls Lock twice, or Unlock without a lock.   *)
LEMMA LockUse == Next => LockNext \/ UNCHANGED lockVars
<1> SUFFICES ASSUME Next PROVE LockNext \/ UNCHANGED lockVars
  OBVIOUS
<1> USE DEF lockVars
<1>1. ASSUME NEW r \in Callers, PostStep(r) PROVE LockNext \/ UNCHANGED lockVars
  <2>1. CASE PostNotify(r)
    BY <2>1 DEF PostNotify, LockNext
  <2> QED
    BY <1>1, <2>1 DEF PostStep, PostRefused, PostFile, PostCreated, PostFails
<1>2. ASSUME NEW r \in Callers, LockedStep(r) PROVE LockNext \/ UNCHANGED lockVars
  <2>1. CASE Begin(r) \/ LockAcquired(r) \/ LockFailed(r)
    BY <2>1 DEF Begin, LockAcquired, LockFailed, LockNext
  <2> QED
    BY <1>2, <2>1 DEF LockedStep, FetchFails, HeadFile, GetFile, ServeContent, DelFile, PatchFile,
                      PatchFetched, DeclareLength, LengthDeclared, DeclareFails
<1>3. ASSUME NEW r \in Callers, ChunkStep(r) PROVE LockNext \/ UNCHANGED lockVars
  <2>1. CASE Unlock(r)
    BY <2>1 DEF Unlock, LockNext
  <2> QED
    BY <1>3, <2>1 DEF ChunkStep, writeChunk, CopyByte, ReadFails, CopyEnds, WriteFails,
                      ChunkWritten, TerminateBin, TerminateInfo, TerminateFails,
                      finishUploadIfComplete, Respond
<1>4. ASSUME NEW r \in Callers, ContextStep(r) PROVE LockNext \/ UNCHANGED lockVars
  <2>1. CASE releaseLock(r)
    BY <2>1 DEF releaseLock, LockNext
  <2> QED
    BY <1>4, <2>1 DEF ContextStep, stopUpload, RequestCancelled, WatchContext
<1>5. ASSUME ProcessCrash PROVE LockNext
  <2> DEFINE D == {r \in Callers : pc[r] \notin {"idle", "dead"}}
  <2>1. Crash(D) /\ D \in SUBSET Callers
    BY <1>5 DEF ProcessCrash
  <2> HIDE DEF D
  <2> QED
    BY <2>1 DEF LockNext, Crash
<1> QED
  BY <1>1, <1>2, <1>3, <1>4, <1>5 DEF Next

(* The handler is a correct client of the Lock interface. *)
THEOREM UsesLockInterface == Spec => LockSpec
<1>1. Init => LockInit
  BY DEF Init
<1>2. [Next]_vars => [LockNext]_lockVars
  BY LockUse DEF vars, lockVars
<1> QED
  BY <1>1, <1>2, PTL DEF Spec, LockSpec

-----------------------------------------------------------------------------

UploadType == [size: Int, deferred: BOOLEAN, offset: Nat]

(* The offset after WriteChunk is a natural number. *)
LEMMA OffsetAdvanced ==
  ASSUME TypeOK, NEW r \in Callers, upload' = [upload EXCEPT ![r].offset = @ + written[r]]
  PROVE  upload' \in [Callers -> UploadType]
<1>1. upload[r] \in UploadType /\ written[r] \in Nat
  BY DEF TypeOK, UploadType
<1>2. [upload[r] EXCEPT !.offset = @ + written[r]] \in UploadType
  BY <1>1 DEF UploadType
<1> QED
  BY <1>2 DEF TypeOK, UploadType

(* The limit of a body reader is a natural number or none. *)
LEMMA MaxSizeType == ASSUME TypeOK, NEW r \in Callers PROVE maxSize(r) \in Nat \cup {NoLimit}
<1>1. input[r].contentLength \in Int /\ MaxSize \in Nat
  BY InputsAssumption DEF TypeOK, InputType
<1>2. upload[r].size \in Int /\ upload[r].offset \in Nat
  BY DEF TypeOK
<1>3. CASE input[r].contentLength > 0
  BY <1>1, <1>3 DEF maxSize
<1>4. CASE input[r].contentLength <= 0 /\ upload[r].deferred /\ MaxSize = 0
  BY <1>1, <1>4 DEF maxSize
<1>5. CASE /\ ~(input[r].contentLength > 0)
           /\ ~(input[r].contentLength <= 0 /\ upload[r].deferred /\ MaxSize = 0)
  <2> DEFINE rest == (IF upload[r].deferred THEN MaxSize ELSE upload[r].size) - upload[r].offset
  <2>1. maxSize(r) = IF rest < 0 THEN 0 ELSE rest
    BY <1>5 DEF maxSize
  <2>2. rest \in Int
    BY <1>1, <1>2
  <2> QED
    BY <2>1, <2>2
<1> QED
  BY <1>3, <1>4, <1>5

(* Before any request, there are no files and no locks. *)
LEMMA InitIInv == Init => IInv
BY NoCallerAssumption
   DEF Init, LockInit, StoreInit, IInv, TypeOK, LockTypeOK, StoreTypeOK, Phases, PCs, NoUpload,
       Errors, BodyErrors, Causes, OwnCauses, HoldersRecorded, WorkersHoldLock, OpenFilesStay,
       Locked

(* PostFile and PostFileV2 keep the types. *)
LEMMA PostStepTypeOK == ASSUME IInv, NEW r \in Callers, PostStep(r) PROVE TypeOK'
<1> USE NoCallerAssumption, InputsAssumption
<1>0. TypeOK
  BY DEF IInv
<1> USE <1>0
<1> USE DEF TypeOK, LockTypeOK, StoreTypeOK, Phases, PCs, InputType, Errors, BodyErrors,
            Causes, OwnCauses, NoLimit, reqVars, ctxVars, respVars, histVars, fileVars, lockVars
<1>1. CASE PostRefused(r)
  BY <1>1 DEF PostRefused, Fail, Goto
<1>2. CASE PostFile(r)
  BY <1>2 DEF PostFile, Goto, CreateBin
<1>3. CASE PostCreated(r)
  BY <1>3 DEF PostCreated, Goto, WriteInfo, InfoRecord, newLength
<1>4. CASE PostFails(r)
  BY <1>4 DEF PostFails, Fail, Goto, TruncateInfo
<1>5. CASE PostNotify(r)
  <2>1. published' \subseteq Uploads
    BY <1>5 DEF PostNotify
  <2>2. CASE input[r].chunk \/ input[r].method = "POSTV2"
    BY <1>5, <2>1, <2>2 DEF PostNotify, Goto, Call
  <2>3. CASE ~(input[r].chunk \/ input[r].method = "POSTV2")
    <3>1. UNCHANGED lockVars /\ (Goto(r, "finish") \/ Goto(r, "respond"))
      <4>1. Goto(r, IF Complete(upload[r]) THEN "finish" ELSE "respond") /\ UNCHANGED lockVars
        BY <1>5, <2>3 DEF PostNotify
      <4> QED
        BY <4>1
    <3> QED
      BY <1>5, <2>1, <3>1 DEF PostNotify, Goto
  <2> QED
    BY <2>2, <2>3
<1> QED
  BY <1>1, <1>2, <1>3, <1>4, <1>5 DEF PostStep

(* So do lockUpload and the handlers up to writeChunk: what PatchFile and  *)
(* HeadFile read from the store is an upload with an offset.               *)
LEMMA LockedStepTypeOK == ASSUME IInv, NEW r \in Callers, LockedStep(r) PROVE TypeOK'
<1> USE NoCallerAssumption, InputsAssumption
<1>0. TypeOK
  BY DEF IInv
<1> USE <1>0
<1> USE DEF TypeOK, LockTypeOK, StoreTypeOK, Phases, PCs, InputType, Errors, BodyErrors,
            Causes, OwnCauses, NoLimit, reqVars, ctxVars, respVars, histVars, fileVars, lockVars
<1>1. CASE Begin(r)
  BY <1>1 DEF Begin, Goto, Call
<1>2. CASE LockAcquired(r)
  BY <1>2 DEF LockAcquired, Goto, Acquire
<1>3. CASE LockFailed(r)
  <2>1. abandoned' \subseteq Uploads
    BY <1>3 DEF LockFailed, Abandon
  <2> QED
    BY <1>3, <2>1 DEF LockFailed, Fail, Goto, GiveUp
<1>4. CASE FetchFails(r)
  BY <1>4 DEF FetchFails, Fail, Goto
<1>5. CASE HeadFile(r)
  <2>1. GetUpload(target[r]).offset \in Nat
    BY <1>5 DEF HeadFile, Readable, Exists, GetUpload
  <2>2. ackOffset' \in [Callers -> Nat \cup {-1}]
    BY <1>5, <2>1 DEF HeadFile
  <2> QED
    BY <1>5, <2>2 DEF HeadFile, Goto
<1>6. CASE DelFile(r)
  BY <1>6 DEF DelFile, Goto, Fail
<1>7. CASE PatchFile(r)
  <2> DEFINE i == GetUpload(target[r])
  <2>1. i \in UploadType
    BY <1>7 DEF PatchFile, PatchFetched, GetUpload, Readable, Exists, InfoRecord, UploadType
  <2>2. upload' \in [Callers -> UploadType]
    BY <1>7, <2>1 DEF PatchFile, PatchFetched, UploadType
  <2>3. UNCHANGED <<input, written, room, ctxVars, histVars, fileVars, lockVars>>
    BY <1>7 DEF PatchFile, PatchFetched
  <2>4. \/ Fail(r, "ErrMismatchOffset")
        \/ PatchCompleted(r, i)
        \/ PatchOpen(r, MayDeclare(i, input[r].length))
    BY <1>7 DEF PatchFile
  <2>5. CASE Fail(r, "ErrMismatchOffset")
    BY <2>2, <2>3, <2>5 DEF Fail, Goto, UploadType
  <2>6. CASE PatchCompleted(r, i)
    <3>1. i.offset \in Nat
      BY <2>1 DEF UploadType
    <3>2. pc' \in [Callers -> PCs] /\ err' \in [Callers -> Errors]
      BY <2>6 DEF PatchCompleted, Goto
    <3>3. ackOffset' \in [Callers -> Nat \cup {-1}]
      BY <2>6, <3>1 DEF PatchCompleted
    <3> QED
      BY <2>2, <2>3, <3>2, <3>3 DEF UploadType
  <2>7. CASE PatchOpen(r, MayDeclare(i, input[r].length))
    <3>1. /\ pc' \in [Callers -> PCs]
          /\ err' \in [Callers -> Errors]
          /\ UNCHANGED ackOffset
      BY <2>7 DEF PatchOpen, Fail, Goto
    <3> QED
      BY <2>2, <2>3, <3>1 DEF UploadType
  <2> QED
    BY <2>4, <2>5, <2>6, <2>7
<1>8. CASE DeclareLength(r)
  <2> DEFINE n == IF r \in hasBody THEN upload[r].offset ELSE input[r].length
  <2>1. upload[r] \in UploadType
    BY DEF UploadType
  <2>2. n \in Int
    OBVIOUS
  <2>3. upload' = [upload EXCEPT ![r] = [upload[r] EXCEPT !.size = n, !.deferred = FALSE]]
    BY <1>8 DEF DeclareLength
  <2> HIDE DEF n
  <2>4. [upload[r] EXCEPT !.size = n, !.deferred = FALSE] \in UploadType
    BY <2>1, <2>2 DEF UploadType
  <2>5. upload' \in [Callers -> UploadType]
    BY <2>3, <2>4 DEF UploadType
  <2> QED
    BY <1>8, <2>5 DEF DeclareLength, Goto, TruncateInfo, UploadType
<1>9. CASE LengthDeclared(r)
  BY <1>9 DEF LengthDeclared, Goto, WriteInfo, InfoRecord
<1>10. CASE DeclareFails(r)
  BY <1>10 DEF DeclareFails, Goto, Fail
<1>11. CASE GetFile(r)
  <2>1. GetUpload(target[r]) \in UploadType
    BY <1>11 DEF GetFile, GetUpload, Readable, Exists, InfoRecord, UploadType
  <2>2. upload' \in [Callers -> UploadType]
    BY <1>11, <2>1 DEF GetFile, UploadType
  <2> QED
    BY <1>11, <2>2 DEF GetFile, Goto, UploadType
<1>12. CASE ServeContent(r)
  BY <1>12 DEF ServeContent, Goto
<1> QED
  BY <1>1, <1>2, <1>3, <1>4, <1>5, <1>6, <1>7, <1>8, <1>9, <1>10, <1>11, <1>12 DEF LockedStep

(* So do writeChunk, the copying of the body, where the file that is       *)
(* appended to exists by OpenFilesStay, and the end of a request.          *)
LEMMA ChunkStepTypeOK == ASSUME IInv, NEW r \in Callers, ChunkStep(r) PROVE TypeOK'
<1> USE NoCallerAssumption, InputsAssumption
<1>0. TypeOK
  BY DEF IInv
<1> USE <1>0
<1> USE DEF TypeOK, LockTypeOK, StoreTypeOK, Phases, PCs, InputType, Errors, BodyErrors,
            Causes, OwnCauses, NoLimit, reqVars, ctxVars, respVars, histVars, fileVars, lockVars
<1>1. CASE writeChunk(r)
  <2> DEFINE tooMuch == ~upload[r].deferred
                        /\ upload[r].offset + input[r].contentLength > upload[r].size
  <2>1. CASE tooMuch
    <3>1. /\ Fail(r, "ErrSizeExceeded")
          /\ abandoned' = Abandon(r)
          /\ UNCHANGED <<room, hasBody>>
      BY <1>1, <2>1 DEF writeChunk
    <3>2. abandoned' \subseteq Uploads
      BY <3>1 DEF Abandon
    <3> QED
      BY <1>1, <3>1, <3>2 DEF writeChunk, Goto, Fail
  <2>2. CASE ~tooMuch
    <3>1. /\ room' = [room EXCEPT ![r] = maxSize(r)]
          /\ hasBody' = hasBody \cup {r}
          /\ UNCHANGED abandoned
      BY <1>1, <2>2 DEF writeChunk
    <3>2. room' \in [Callers -> Nat \cup {NoLimit}] /\ hasBody' \subseteq Callers
      BY <3>1, MaxSizeType
    <3>3. CASE CanOpen(target[r])
      <4>1. Goto(r, "copy") /\ UNCHANGED respVars
        BY <1>1, <2>2, <3>3 DEF writeChunk
      <4> QED
        BY <1>1, <3>1, <3>2, <4>1 DEF writeChunk, Goto
    <3>4. CASE ~CanOpen(target[r])
      <4>1. /\ Goto(r, "wrote")
            /\ err' = [err EXCEPT ![r] = "ErrStore"]
            /\ UNCHANGED ackOffset
        BY <1>1, <2>2, <3>4 DEF writeChunk
      <4> QED
        BY <1>1, <3>1, <3>2, <4>1 DEF writeChunk, Goto
    <3> QED
      BY <3>3, <3>4
  <2> QED
    BY <2>1, <2>2
<1>2. CASE CopyByte(r)
  <2>1. bin[target[r]] \in Seq(Nat) /\ target[r] \in Uploads
    BY <1>2 DEF CopyByte, IInv, OpenFilesStay, CanOpen
  <2>2. input[r].offset + written[r] + 1 \in Nat
    OBVIOUS
  <2>3. StoreTypeOK'
    BY <1>2, <2>1, <2>2 DEF CopyByte, AppendByte
  <2>4. written' \in [Callers -> Nat]
    BY <1>2 DEF CopyByte
  <2> HIDE DEF StoreTypeOK
  <2> QED
    BY <1>2, <2>3, <2>4 DEF CopyByte
<1>3. CASE ReadFails(r)
  BY <1>3 DEF ReadFails
<1>4. CASE CopyEnds(r)
  <2>1. upload' \in [Callers -> UploadType]
    BY <1>4, OffsetAdvanced DEF CopyEnds
  <2> QED
    BY <1>4, <2>1 DEF CopyEnds, Goto, UploadType
<1>5. CASE WriteFails(r)
  <2>1. upload' \in [Callers -> UploadType]
    BY <1>5, OffsetAdvanced DEF WriteFails
  <2> QED
    BY <1>5, <2>1 DEF WriteFails, Goto, UploadType
<1>6. CASE ChunkWritten(r)
  BY <1>6 DEF ChunkWritten, Goto
<1>7. CASE TerminateBin(r)
  BY <1>7 DEF TerminateBin, Goto, RemoveBin
<1>8. CASE TerminateInfo(r)
  BY <1>8 DEF TerminateInfo, Goto, RemoveInfo
<1>9. CASE TerminateFails(r)
  <2>1. CASE input[r].method = "DELETE"
    BY <1>9, <2>1 DEF TerminateFails, Goto, Fail
  <2>2. CASE input[r].method # "DELETE"
    BY <1>9, <2>2 DEF TerminateFails, Goto
  <2> QED
    BY <2>1, <2>2
<1>10. CASE finishUploadIfComplete(r)
  <2>1. pc' \in [Callers -> PCs]
    BY <1>10 DEF finishUploadIfComplete, Goto
  <2>2. err' \in [Callers -> Errors]
    BY <1>10 DEF finishUploadIfComplete
  <2>3. preFinish' \in [Uploads -> Nat]
    BY <1>10 DEF finishUploadIfComplete
  <2> QED
    BY <1>10, <2>1, <2>2, <2>3 DEF finishUploadIfComplete
<1>11. CASE Respond(r)
  <2>1. pc' \in [Callers -> PCs] /\ published' \subseteq Uploads
    BY <1>11 DEF Respond, Goto
  <2>2. upload' \in [Callers -> [size: Int, deferred: BOOLEAN, offset: Nat]]
    BY <1>11 DEF Respond, Forget, NoUpload
  <2>3. written' \in [Callers -> Nat] /\ room' \in [Callers -> Nat \cup {NoLimit}]
    BY <1>11 DEF Respond, Forget
  <2>4. hasBody' \subseteq Callers /\ bodyErr' \in [Callers -> BodyErrors]
    BY <1>11 DEF Respond, Forget
  <2>5. cause' \in [Callers -> Causes] /\ watched' \subseteq Callers
    BY <1>11 DEF Respond, Forget
  <2>6. err' \in [Callers -> Errors] /\ ackOffset' \in [Callers -> Nat \cup {-1}]
    BY <1>11 DEF Respond, Forget
  <2> QED
    BY <1>11, <2>1, <2>2, <2>3, <2>4, <2>5, <2>6 DEF Respond
<1>12. CASE Unlock(r)
  BY <1>12 DEF Unlock, Release
<1> QED
  BY <1>1, <1>2, <1>3, <1>4, <1>5, <1>6, <1>7, <1>8, <1>9, <1>10, <1>11, <1>12 DEF ChunkStep

(* So do interruption, StopUpload and cancellation. *)
LEMMA ContextStepTypeOK == ASSUME IInv, NEW r \in Callers, ContextStep(r) PROVE TypeOK'
<1> USE NoCallerAssumption, InputsAssumption
<1>0. TypeOK
  BY DEF IInv
<1> USE <1>0
<1> USE DEF TypeOK, LockTypeOK, StoreTypeOK, Phases, PCs, InputType, Errors, BodyErrors,
            Causes, OwnCauses, NoLimit, reqVars, ctxVars, respVars, histVars, fileVars, lockVars
<1>1. CASE releaseLock(r)
  BY <1>1 DEF releaseLock, Ask, Cancel
<1>2. CASE stopUpload(r)
  BY <1>2 DEF stopUpload, Cancel
<1>3. CASE RequestCancelled(r)
  BY <1>3 DEF RequestCancelled, Cancel
<1>4. CASE WatchContext(r)
  BY <1>4 DEF WatchContext
<1> QED
  BY <1>1, <1>2, <1>3, <1>4 DEF ContextStep

(* So does a crash of the process. *)
LEMMA CrashTypeOK == ASSUME IInv, ProcessCrash PROVE TypeOK'
BY NoCallerAssumption
   DEF ProcessCrash, Crash, Forget, NoUpload, IInv, TypeOK, LockTypeOK, StoreTypeOK, Phases, PCs,
       Errors, BodyErrors, Causes, OwnCauses, NoLimit, histVars, fileVars

(* A POST touches no locked file before lockUpload. *)
LEMMA PostStepWork == ASSUME IInv, NEW r \in Callers, PostStep(r) PROVE WorkersHoldLock'
<1> USE InputsAssumption
<1> USE DEF IInv, TypeOK, LockTypeOK, WorkersHoldLock, Locked, IsPost, PCs, reqVars, lockVars
<1>1. CASE PostRefused(r)
  BY <1>1 DEF PostRefused, Fail, Goto
<1>2. CASE PostFile(r)
  BY <1>2 DEF PostFile, Goto
<1>3. CASE PostCreated(r)
  BY <1>3 DEF PostCreated, Goto
<1>4. CASE PostFails(r)
  BY <1>4 DEF PostFails, Fail, Goto, TruncateInfo
<1>5. CASE PostNotify(r)
  BY <1>5 DEF PostNotify, Goto, Call
<1> QED
  BY <1>1, <1>2, <1>3, <1>4, <1>5 DEF PostStep

(* The handlers fetch the upload with the lock that lockUpload returned. *)
LEMMA LockedStepWork == ASSUME IInv, NEW r \in Callers, LockedStep(r) PROVE WorkersHoldLock'
<1> USE InputsAssumption
<1> USE DEF IInv, TypeOK, LockTypeOK, WorkersHoldLock, Locked, IsPost, PCs, reqVars, lockVars
<1>1. CASE Begin(r)
  BY <1>1 DEF Begin, Goto, Call
<1>2. CASE LockAcquired(r)
  BY <1>2 DEF LockAcquired, Goto, Acquire
<1>3. CASE LockFailed(r)
  BY <1>3 DEF LockFailed, Fail, Goto, GiveUp
<1>4. CASE FetchFails(r)
  BY <1>4 DEF FetchFails, Goto, Fail
<1>5. CASE HeadFile(r)
  BY <1>5 DEF HeadFile, Goto
<1>6. CASE DelFile(r)
  BY <1>6 DEF DelFile, Goto, Fail
<1>7. CASE PatchFile(r)
  BY <1>7 DEF PatchFile, PatchFetched, PatchCompleted, PatchOpen, Goto, Fail
<1>8. CASE DeclareLength(r)
  BY <1>8 DEF DeclareLength, Goto
<1>9. CASE LengthDeclared(r)
  BY <1>9 DEF LengthDeclared, Goto
<1>10. CASE DeclareFails(r)
  BY <1>10 DEF DeclareFails, Goto, Fail
<1>11. CASE GetFile(r)
  BY <1>11 DEF GetFile, Goto
<1>12. CASE ServeContent(r)
  BY <1>12 DEF ServeContent, Goto
<1> QED
  BY <1>1, <1>2, <1>3, <1>4, <1>5, <1>6, <1>7, <1>8, <1>9, <1>10, <1>11, <1>12 DEF LockedStep

(* The lock is kept until the response has been sent. *)
LEMMA ChunkStepWork == ASSUME IInv, NEW r \in Callers, ChunkStep(r) PROVE WorkersHoldLock'
<1> USE InputsAssumption
<1> USE DEF IInv, TypeOK, LockTypeOK, WorkersHoldLock, Locked, IsPost, PCs, reqVars, lockVars
<1>1. CASE writeChunk(r)
  BY <1>1 DEF writeChunk, Goto, Fail
<1>2. CASE CopyByte(r)
  BY <1>2 DEF CopyByte
<1>3. CASE ReadFails(r)
  BY <1>3 DEF ReadFails
<1>4. CASE CopyEnds(r)
  BY <1>4 DEF CopyEnds, Goto
<1>5. CASE WriteFails(r)
  BY <1>5 DEF WriteFails, Goto
<1>6. CASE ChunkWritten(r)
  BY <1>6 DEF ChunkWritten, Goto
<1>7. CASE TerminateBin(r)
  BY <1>7 DEF TerminateBin, Goto
<1>8. CASE TerminateInfo(r)
  BY <1>8 DEF TerminateInfo, Goto
<1>9. CASE TerminateFails(r)
  BY <1>9 DEF TerminateFails, Goto, Fail
<1>10. CASE finishUploadIfComplete(r)
  BY <1>10 DEF finishUploadIfComplete, Goto
<1>11. CASE Respond(r)
  BY <1>11 DEF Respond, Goto
<1>12. CASE Unlock(r)
  BY <1>12 DEF Unlock, Release
<1> QED
  BY <1>1, <1>2, <1>3, <1>4, <1>5, <1>6, <1>7, <1>8, <1>9, <1>10, <1>11, <1>12 DEF ChunkStep

(* An interrupted request keeps its lock while it still works. *)
LEMMA ContextStepWork == ASSUME IInv, NEW r \in Callers, ContextStep(r) PROVE WorkersHoldLock'
<1> USE InputsAssumption
<1> USE DEF IInv, TypeOK, LockTypeOK, WorkersHoldLock, Locked, IsPost, PCs, reqVars, lockVars
<1>1. CASE releaseLock(r)
  BY <1>1 DEF releaseLock, Ask
<1>2. CASE stopUpload(r)
  BY <1>2 DEF stopUpload
<1>3. CASE RequestCancelled(r)
  BY <1>3 DEF RequestCancelled
<1>4. CASE WatchContext(r)
  BY <1>4 DEF WatchContext
<1> QED
  BY <1>1, <1>2, <1>3, <1>4 DEF ContextStep

(* A POST removes no file, and its new file belongs to no other request. *)
LEMMA PostStepOpen == ASSUME IInv, NEW r \in Callers, PostStep(r) PROVE OpenFilesStay'
<1> USE NoFileAssumption
<1> USE DEF IInv, TypeOK, LockTypeOK, StoreTypeOK, OpenFilesStay, CanOpen, PCs, fileVars, lockVars
<1>1. CASE PostRefused(r)
  BY <1>1 DEF PostRefused, Fail, Goto
<1>2. CASE PostFile(r)
  BY <1>2 DEF PostFile, Goto, CreateBin
<1>3. CASE PostCreated(r)
  BY <1>3 DEF PostCreated, Goto, WriteInfo
<1>4. CASE PostFails(r)
  BY <1>4 DEF PostFails, Fail, Goto, TruncateInfo
<1>5. CASE PostNotify(r)
  BY <1>5 DEF PostNotify, Goto, Call
<1> QED
  BY <1>1, <1>2, <1>3, <1>4, <1>5 DEF PostStep

(* No handler removes a file before terminateUpload. *)
LEMMA LockedStepOpen == ASSUME IInv, NEW r \in Callers, LockedStep(r) PROVE OpenFilesStay'
<1> USE NoFileAssumption
<1> USE DEF IInv, TypeOK, LockTypeOK, StoreTypeOK, OpenFilesStay, CanOpen, PCs, fileVars, lockVars
<1>1. CASE Begin(r)
  BY <1>1 DEF Begin, Goto, Call
<1>2. CASE LockAcquired(r)
  BY <1>2 DEF LockAcquired, Goto, Acquire
<1>3. CASE LockFailed(r)
  BY <1>3 DEF LockFailed, Fail, Goto, GiveUp
<1>4. CASE FetchFails(r)
  BY <1>4 DEF FetchFails, Goto, Fail
<1>5. CASE HeadFile(r)
  BY <1>5 DEF HeadFile, Goto
<1>6. CASE DelFile(r)
  BY <1>6 DEF DelFile, Goto, Fail
<1>7. CASE PatchFile(r)
  BY <1>7 DEF PatchFile, PatchFetched, PatchCompleted, PatchOpen, Goto, Fail
<1>8. CASE DeclareLength(r)
  BY <1>8 DEF DeclareLength, Goto, TruncateInfo
<1>9. CASE LengthDeclared(r)
  BY <1>9 DEF LengthDeclared, Goto, WriteInfo
<1>10. CASE DeclareFails(r)
  BY <1>10 DEF DeclareFails, Goto, Fail
<1>11. CASE GetFile(r)
  BY <1>11 DEF GetFile, Goto
<1>12. CASE ServeContent(r)
  BY <1>12 DEF ServeContent, Goto
<1> QED
  BY <1>1, <1>2, <1>3, <1>4, <1>5, <1>6, <1>7, <1>8, <1>9, <1>10, <1>11, <1>12 DEF LockedStep

(* A request that terminates an upload holds its lock, so that no other    *)
(* request is copying to the file.                                         *)
LEMMA ChunkStepOpen == ASSUME IInv, NEW r \in Callers, ChunkStep(r) PROVE OpenFilesStay'
<1> USE NoFileAssumption
<1> USE DEF IInv, TypeOK, LockTypeOK, StoreTypeOK, OpenFilesStay, CanOpen, PCs, fileVars, lockVars
<1>1. CASE writeChunk(r)
  BY <1>1 DEF writeChunk, Goto, Fail
<1>2. CASE CopyByte(r)
  <2>1. bin[target[r]] \in Seq(Nat) /\ target[r] \in Uploads
    BY <1>2 DEF CopyByte
  <2>2. input[r].offset + written[r] + 1 \in Nat
    BY InputsAssumption DEF InputType
  <2>3. Append(bin[target[r]], input[r].offset + written[r] + 1) \in Seq(Nat)
    BY <2>1, <2>2
  <2> QED
    BY <1>2, <2>3 DEF CopyByte, AppendByte
<1>3. CASE ReadFails(r)
  BY <1>3 DEF ReadFails
<1>4. CASE CopyEnds(r)
  BY <1>4 DEF CopyEnds, Goto
<1>5. CASE WriteFails(r)
  BY <1>5 DEF WriteFails, Goto
<1>6. CASE ChunkWritten(r)
  BY <1>6 DEF ChunkWritten, Goto
<1>7. CASE TerminateBin(r)
  <2>1. ASSUME NEW q \in Callers, pc'[q] = "copy" PROVE target[q] # target[r]
    <3>1. q # r /\ pc[q] = "copy" /\ pc[r] = "removeBin"
      BY <1>7, <2>1 DEF TerminateBin, Goto
    <3>2. phase[q] = "held" /\ phase[r] = "held"
      BY <3>1 DEF WorkersHoldLock, Locked
    <3> QED
      BY <3>1, <3>2 DEF HoldersRecorded
  <2> QED
    BY <1>7, <2>1 DEF TerminateBin, Goto, RemoveBin
<1>8. CASE TerminateInfo(r)
  BY <1>8 DEF TerminateInfo, Goto, RemoveInfo
<1>9. CASE TerminateFails(r)
  BY <1>9 DEF TerminateFails, Goto, Fail
<1>10. CASE finishUploadIfComplete(r)
  BY <1>10 DEF finishUploadIfComplete, Goto
<1>11. CASE Respond(r)
  BY <1>11 DEF Respond, Goto
<1>12. CASE Unlock(r)
  BY <1>12 DEF Unlock, Release
<1> QED
  BY <1>1, <1>2, <1>3, <1>4, <1>5, <1>6, <1>7, <1>8, <1>9, <1>10, <1>11, <1>12 DEF ChunkStep

(* An interruption removes no file. *)
LEMMA ContextStepOpen == ASSUME IInv, NEW r \in Callers, ContextStep(r) PROVE OpenFilesStay'
<1> USE NoFileAssumption
<1> USE DEF IInv, TypeOK, LockTypeOK, StoreTypeOK, OpenFilesStay, CanOpen, PCs, fileVars, lockVars
<1>1. CASE releaseLock(r)
  BY <1>1 DEF releaseLock, Ask
<1>2. CASE stopUpload(r)
  BY <1>2 DEF stopUpload
<1>3. CASE RequestCancelled(r)
  BY <1>3 DEF RequestCancelled
<1>4. CASE WatchContext(r)
  BY <1>4 DEF WatchContext
<1> QED
  BY <1>1, <1>2, <1>3, <1>4 DEF ContextStep

(* Every step of the handler, and a crash, preserves the invariant. *)
LEMMA NextIInv == IInv /\ [Next]_vars => IInv'
<1> SUFFICES ASSUME IInv, [Next]_vars PROVE IInv'
  OBVIOUS
<1>1. CASE UNCHANGED vars
  BY <1>1 DEF IInv, TypeOK, LockTypeOK, StoreTypeOK, HoldersRecorded, WorkersHoldLock,
              OpenFilesStay, IsPost, CanOpen, vars, reqVars, ctxVars, respVars, histVars, fileVars,
              lockVars
<1>2. CASE Next
  <2>1. LockIInv'
    BY <1>2, LockUse, LockNextIInv DEF IInv, TypeOK, LockIInv
  <2>2. TypeOK'
    BY <1>2, PostStepTypeOK, LockedStepTypeOK, ChunkStepTypeOK, ContextStepTypeOK, CrashTypeOK
       DEF Next
  <2>3. WorkersHoldLock'
    <3>1. CASE ProcessCrash
      BY <3>1 DEF ProcessCrash, Crash, IInv, TypeOK, WorkersHoldLock, Locked, IsPost
    <3> QED
      BY <1>2, <3>1, PostStepWork, LockedStepWork, ChunkStepWork, ContextStepWork DEF Next
  <2>4. OpenFilesStay'
    <3>1. CASE ProcessCrash
      BY <3>1 DEF ProcessCrash, Crash, IInv, TypeOK, OpenFilesStay, CanOpen, fileVars
    <3> QED
      BY <1>2, <3>1, PostStepOpen, LockedStepOpen, ChunkStepOpen, ContextStepOpen DEF Next
  <2> QED
    BY <2>1, <2>2, <2>3, <2>4 DEF IInv, LockIInv
<1> QED
  BY <1>1, <1>2

(* The inductive invariant holds in every reachable state. *)
THEOREM Invariance == Spec => []IInv
BY InitIInv, NextIInv, PTL DEF Spec

(* Type correctness: bytes are only ever appended to a file that exists,   *)
(* which rests on the locks, and an Upload-Offset that is sent and the     *)
(* limit of a body reader, a difference of a size and an offset, are never *)
(* negative.                                                               *)
THEOREM TypeCorrect == Spec => []TypeOK
<1>1. IInv => TypeOK
  BY DEF IInv
<1> QED
  BY <1>1, Invariance, PTL

-----------------------------------------------------------------------------
(***************************************************************************)
(* The data of the uploads.                                                *)
(***************************************************************************)

(* What a step of request r leaves alone: the variables of every other     *)
(* request, and the files and the history of every other upload.           *)
Apart(r) ==
  /\ UNCHANGED <<input, target>>
  /\ \A q \in Callers \ {r} :
       /\ pc'[q] = pc[q] /\ phase'[q] = phase[q] /\ upload'[q] = upload[q]
       /\ written'[q] = written[q] /\ room'[q] = room[q] /\ err'[q] = err[q]
       /\ ackOffset'[q] = ackOffset[q] /\ cause'[q] = cause[q] /\ bodyErr'[q] = bodyErr[q]
       /\ q \in hasBody' <=> q \in hasBody
  /\ \A u \in Uploads \ {target[r]} :
       /\ bin'[u] = bin[u] /\ info'[u] = info[u] /\ preFinish'[u] = preFinish[u]
       /\ u \in created' <=> u \in created
       /\ u \in published' <=> u \in published

(* The step changes no file, and no URL becomes known. *)
Quiet == UNCHANGED <<bin, info, created, published, preFinish>>

(* PostFile and PostFileV2 work on their own upload. *)
LEMMA PostFootprint == ASSUME TypeOK, NEW r \in Callers, PostStep(r) PROVE Apart(r)
<1> USE DEF Apart, TypeOK, LockTypeOK, StoreTypeOK, reqVars, ctxVars, respVars, histVars, fileVars,
            lockVars, Goto, Fail
<1>1. CASE PostRefused(r)
  BY <1>1 DEF PostRefused
<1>2. CASE PostFile(r)
  BY <1>2 DEF PostFile, CreateBin
<1>3. CASE PostCreated(r)
  BY <1>3 DEF PostCreated, WriteInfo
<1>4. CASE PostFails(r)
  BY <1>4 DEF PostFails, TruncateInfo
<1>5. CASE PostNotify(r)
  BY <1>5 DEF PostNotify, Call
<1> QED
  BY <1>1, <1>2, <1>3, <1>4, <1>5 DEF PostStep

(* So do lockUpload and the handlers up to writeChunk, ... *)
LEMMA LockedFootprint == ASSUME TypeOK, NEW r \in Callers, LockedStep(r) PROVE Apart(r)
<1> USE DEF Apart, TypeOK, LockTypeOK, StoreTypeOK, reqVars, ctxVars, respVars, histVars, fileVars,
            lockVars, Goto, Fail
<1>1. CASE Begin(r) \/ LockAcquired(r) \/ LockFailed(r)
  BY <1>1 DEF Begin, LockAcquired, LockFailed, Call, Acquire, GiveUp
<1>2. CASE FetchFails(r) \/ HeadFile(r) \/ GetFile(r) \/ ServeContent(r) \/ DelFile(r)
  BY <1>2 DEF FetchFails, HeadFile, GetFile, ServeContent, DelFile
<1>3. CASE PatchFile(r)
  BY <1>3 DEF PatchFile, PatchFetched, PatchCompleted, PatchOpen
<1>4. CASE DeclareLength(r) \/ LengthDeclared(r) \/ DeclareFails(r)
  BY <1>4 DEF DeclareLength, LengthDeclared, DeclareFails, TruncateInfo, WriteInfo
<1> QED
  BY <1>1, <1>2, <1>3, <1>4 DEF LockedStep

(* ... and writeChunk and what follows it. *)
LEMMA ChunkFootprint == ASSUME TypeOK, NEW r \in Callers, ChunkStep(r) PROVE Apart(r)
<1> USE DEF Apart, TypeOK, LockTypeOK, StoreTypeOK, reqVars, ctxVars, respVars, histVars, fileVars,
            lockVars, Goto, Fail
<1>1. CASE writeChunk(r)
  BY <1>1 DEF writeChunk
<1>2. CASE CopyByte(r) \/ ReadFails(r) \/ CopyEnds(r) \/ WriteFails(r)
  BY <1>2 DEF CopyByte, ReadFails, CopyEnds, WriteFails, AppendByte
<1>3. CASE ChunkWritten(r) \/ TerminateBin(r) \/ TerminateInfo(r) \/ TerminateFails(r)
  BY <1>3 DEF ChunkWritten, TerminateBin, TerminateInfo, TerminateFails, RemoveBin, RemoveInfo
<1>4. CASE finishUploadIfComplete(r)
  BY <1>4 DEF finishUploadIfComplete
<1>5. CASE Respond(r)
  BY <1>5 DEF Respond, Forget
<1>6. CASE Unlock(r)
  BY <1>6 DEF Unlock, Release
<1> QED
  BY <1>1, <1>2, <1>3, <1>4, <1>5, <1>6 DEF ChunkStep

(* Interruption and cancellation touch one request and no file. *)
LEMMA ContextFootprint ==
  ASSUME TypeOK, NEW r \in Callers, ContextStep(r) PROVE Apart(r) /\ Quiet
BY DEF Quiet, Apart, TypeOK, LockTypeOK, StoreTypeOK, reqVars, ctxVars, respVars, histVars,
       fileVars, lockVars, ContextStep, releaseLock, stopUpload, RequestCancelled, WatchContext, Ask, Cancel

(* The steps that change a file, create an upload or call the pre-finish   *)
(* hook are these nine.                                                    *)
LEMMA FilesWritten ==
  ASSUME NEW r \in Callers, PostStep(r) \/ LockedStep(r) \/ ChunkStep(r) \/ ContextStep(r)
  PROVE  \/ UNCHANGED <<bin, info, created, preFinish>>
         \/ PostFile(r) \/ PostCreated(r) \/ PostFails(r)
         \/ DeclareLength(r) \/ LengthDeclared(r)
         \/ CopyByte(r) \/ TerminateBin(r) \/ TerminateInfo(r) \/ finishUploadIfComplete(r)
<1> USE DEF fileVars, histVars
<1>1. CASE PostStep(r)
  BY <1>1 DEF PostStep, PostRefused, PostNotify
<1>2. CASE LockedStep(r)
  BY <1>2 DEF LockedStep, Begin, LockAcquired, LockFailed, FetchFails, HeadFile, GetFile,
              ServeContent, DelFile, PatchFile, PatchFetched, DeclareFails
<1>3. CASE ChunkStep(r)
  BY <1>3 DEF ChunkStep, writeChunk, ReadFails, CopyEnds, WriteFails, ChunkWritten, TerminateFails,
              Respond, Unlock
<1>4. CASE ContextStep(r)
  BY <1>4 DEF ContextStep, releaseLock, stopUpload, RequestCancelled, WatchContext
<1> QED
  BY <1>1, <1>2, <1>3, <1>4

(* Three of them change a binary file. *)
LEMMA BinWritten ==
  ASSUME NEW r \in Callers, PostStep(r) \/ LockedStep(r) \/ ChunkStep(r) \/ ContextStep(r)
  PROVE  UNCHANGED bin \/ PostFile(r) \/ CopyByte(r) \/ TerminateBin(r)
BY FilesWritten
   DEF PostCreated, PostFails, DeclareLength, LengthDeclared, TerminateInfo, finishUploadIfComplete,
       WriteInfo, TruncateInfo, RemoveInfo, fileVars

-----------------------------------------------------------------------------

(* While r serves a file, whoever could append to it or remove it would    *)
(* have to hold the lock that r holds, and a POST never creates a file     *)
(* that exists.                                                            *)
LEMMA NextStable == ASSUME IInv, DownloadIsStable, [Next]_vars PROVE DownloadIsStable'
<1>0. TypeOK
  BY DEF IInv
<1>1. CASE UNCHANGED vars \/ ProcessCrash
  BY <1>0, <1>1 DEF DownloadIsStable, CanOpen, vars, reqVars, fileVars, lockVars, ProcessCrash,
                    Forget, Crash
<1>2. ASSUME NEW r \in Callers, PostStep(r) \/ LockedStep(r) \/ ChunkStep(r) \/ ContextStep(r),
             NEW q \in Callers, pc'[q] = "serve"
      PROVE  CanOpen(target[q])' /\ Len(bin[target[q]])' = upload'[q].offset
  <2>1. Apart(r)
    BY <1>0, <1>2, PostFootprint, LockedFootprint, ChunkFootprint, ContextFootprint
  <2>2. CASE q = r
    <3>1. GetFile(r) \/ ContextStep(r) \/ Unlock(r)
      BY <1>0, <1>2, <2>2
         DEF TypeOK, PostStep, PostRefused, PostFile, PostCreated, PostFails, PostNotify,
             LockedStep, Begin, LockAcquired, LockFailed, FetchFails, HeadFile, ServeContent, DelFile, PatchFile,
             PatchFetched, PatchOpen, PatchCompleted, DeclareLength, LengthDeclared, DeclareFails,
             ChunkStep, writeChunk, CopyByte, ReadFails, CopyEnds, WriteFails, ChunkWritten, TerminateBin,
             TerminateInfo, TerminateFails, finishUploadIfComplete, Respond, Goto, Fail
    <3>2. CASE GetFile(r)
      BY <1>0, <2>2, <3>2
         DEF GetFile, GetUpload, Readable, Exists, CanOpen, TypeOK, LockTypeOK, fileVars, lockVars
    <3>3. CASE ContextStep(r)
      BY <1>2, <2>2, <3>3
         DEF ContextStep, releaseLock, stopUpload, RequestCancelled, WatchContext, Ask, CanOpen,
             DownloadIsStable, reqVars, fileVars, lockVars
    <3>4. CASE Unlock(r)
      BY <1>2, <2>2, <3>4 DEF Unlock
    <3> QED
      BY <3>1, <3>2, <3>3, <3>4
  <2>3. CASE q # r
    <3>1. /\ pc[q] = "serve" /\ upload'[q] = upload[q] /\ target'[q] = target[q]
          /\ target[q] \in Uploads
      BY <1>0, <1>2, <2>1, <2>3 DEF Apart, TypeOK, LockTypeOK
    <3>2. bin'[target[q]] = bin[target[q]]
      <4>1. CASE target[q] # target[r]
        BY <2>1, <3>1, <4>1 DEF Apart
      <4>2. CASE target[q] = target[r]
        <5>1. phase[q] = "held"
          BY <3>1 DEF IInv, WorkersHoldLock, Locked
        <5>2. phase[r] # "held"
          BY <2>3, <4>2, <5>1 DEF IInv, HoldersRecorded
        <5>3. ~CopyByte(r) /\ ~TerminateBin(r)
          BY <5>2 DEF IInv, WorkersHoldLock, Locked, CopyByte, TerminateBin
        <5>4. ~PostFile(r)
          BY <3>1, <4>2 DEF PostFile, DownloadIsStable, CanOpen
        <5> QED
          BY <1>2, <5>3, <5>4, BinWritten
      <4> QED
        BY <4>1, <4>2
    <3> QED
      BY <3>1, <3>2 DEF DownloadIsStable, CanOpen
  <2> QED
    BY <2>2, <2>3
<1> QED
  BY <1>1, <1>2 DEF Next, DownloadIsStable

(* Where a request is with its upload: a POST that is creating it has the  *)
(* binary file and nobody else knows of it; any other step in the store is *)
(* made with an upload that has been created.                              *)
Placed(r) ==
  /\ pc[r] = "newInfo" => target[r] \notin created /\ bin[target[r]] # NoFile
  /\ pc[r] \in Locked \cup {"created", "waiting", "finish"} => target[r] \in created
  /\ pc[r] = "respond" /\ err[r] = "none" => target[r] \in created

CreatesAlone ==
  \A r, q \in Callers : pc[r] = "newInfo" /\ pc[q] = "newInfo" /\ target[r] = target[q] => r = q

PlaceInv == published \subseteq created /\ CreatesAlone /\ \A r \in Callers : Placed(r)

(* What a step of r does to its own place, and to what is known. *)
MovesOn(r) ==
  /\ created \subseteq created'
  /\ published \subseteq created => published' \subseteq created'
  /\ Placed(r)'

(* A POST names a fresh upload, and creates it before anybody knows it. *)
LEMMA PostMoves ==
  ASSUME TypeOK, PlaceInv, NEW r \in Callers, PostStep(r) PROVE MovesOn(r)
<1> USE DEF MovesOn, PlaceInv, Placed, TypeOK, LockTypeOK, StoreTypeOK, PCs, Locked, Goto, Fail,
            reqVars, ctxVars, respVars, histVars, fileVars, lockVars
<1>1. CASE PostRefused(r)
  <2>1. pc'[r] = "respond" /\ err'[r] # "none" /\ UNCHANGED <<target, created, published>>
    BY <1>1 DEF PostRefused
  <2> QED
    BY <2>1
<1>2. CASE PostFile(r)
  <2>1. bin'[target[r]] = <<>> /\ target[r] \notin created
    BY <1>2 DEF PostFile, CreateBin
  <2>2. bin'[target[r]] # NoFile
    <3>1. <<>> \in Seq(Nat)
      OBVIOUS
    <3> QED
      BY <2>1, <3>1, NoFileAssumption
  <2>3. pc'[r] = "newInfo" /\ UNCHANGED <<target, created, published>>
    BY <1>2 DEF PostFile
  <2> QED
    BY <2>1, <2>2, <2>3
<1>3. CASE PostCreated(r)
  BY <1>3 DEF PostCreated, WriteInfo
<1>4. CASE PostFails(r)
  BY <1>4 DEF PostFails, TruncateInfo
<1>5. CASE PostNotify(r)
  BY <1>5 DEF PostNotify, Call
<1> QED
  BY <1>1, <1>2, <1>3, <1>4, <1>5 DEF PostStep

(* The others begin with a published upload, ... *)
LEMMA LockedMoves ==
  ASSUME TypeOK, PlaceInv, NEW r \in Callers, LockedStep(r) PROVE MovesOn(r)
<1> USE DEF MovesOn, PlaceInv, Placed, TypeOK, LockTypeOK, StoreTypeOK, PCs, Locked, Goto, Fail,
            reqVars, ctxVars, respVars, histVars, fileVars, lockVars
<1>1. CASE Begin(r) \/ LockAcquired(r) \/ LockFailed(r)
  BY <1>1 DEF Begin, LockAcquired, LockFailed, Call, Acquire, GiveUp
<1>2. CASE FetchFails(r) \/ HeadFile(r) \/ GetFile(r) \/ ServeContent(r) \/ DelFile(r)
  BY <1>2 DEF FetchFails, HeadFile, GetFile, ServeContent, DelFile
<1>3. CASE PatchFile(r)
  BY <1>3 DEF PatchFile, PatchFetched, PatchCompleted, PatchOpen
<1>4. CASE DeclareLength(r) \/ LengthDeclared(r) \/ DeclareFails(r)
  BY <1>4 DEF DeclareLength, LengthDeclared, DeclareFails, TruncateInfo, WriteInfo
<1> QED
  BY <1>1, <1>2, <1>3, <1>4 DEF LockedStep

(* ... and stay with it; only a POST that created one publishes its URL. *)
LEMMA ChunkMoves ==
  ASSUME TypeOK, PlaceInv, NEW r \in Callers, ChunkStep(r) PROVE MovesOn(r)
<1> USE DEF MovesOn, PlaceInv, Placed, TypeOK, LockTypeOK, StoreTypeOK, PCs, Locked, Goto, Fail,
            reqVars, ctxVars, respVars, histVars, fileVars, lockVars
<1>1. CASE writeChunk(r)
  BY <1>1 DEF writeChunk
<1>2. CASE CopyByte(r) \/ ReadFails(r) \/ CopyEnds(r) \/ WriteFails(r)
  BY <1>2 DEF CopyByte, ReadFails, CopyEnds, WriteFails, AppendByte
<1>3. CASE ChunkWritten(r) \/ TerminateBin(r) \/ TerminateInfo(r) \/ TerminateFails(r)
  BY <1>3 DEF ChunkWritten, TerminateBin, TerminateInfo, TerminateFails, RemoveBin, RemoveInfo
<1>4. CASE finishUploadIfComplete(r)
  BY <1>4 DEF finishUploadIfComplete
<1>5. CASE Respond(r)
  BY <1>5 DEF Respond
<1>6. CASE Unlock(r)
  BY <1>6 DEF Unlock, Release
<1> QED
  BY <1>1, <1>2, <1>3, <1>4, <1>5, <1>6 DEF ChunkStep

(* Interruption and cancellation move nobody. *)
LEMMA ContextMoves ==
  ASSUME TypeOK, PlaceInv, NEW r \in Callers, ContextStep(r) PROVE MovesOn(r)
BY DEF MovesOn, PlaceInv, Placed, ContextStep, releaseLock, stopUpload, RequestCancelled,
       WatchContext, Ask, respVars, histVars, fileVars, lockVars

(* Only PostFile begins to create an upload. *)
LEMMA EnterNewInfo ==
  ASSUME TypeOK, NEW r \in Callers, pc[r] # "newInfo", ~PostFile(r),
         PostStep(r) \/ LockedStep(r) \/ ChunkStep(r) \/ ContextStep(r)
  PROVE  pc'[r] # "newInfo"
<1> USE DEF TypeOK, reqVars, ctxVars, respVars, Goto, Fail
<1>1. CASE PostStep(r)
  BY <1>1 DEF PostStep, PostRefused, PostCreated, PostFails, PostNotify
<1>2. CASE LockedStep(r)
  BY <1>2 DEF LockedStep, Begin, LockAcquired, LockFailed, FetchFails, HeadFile, GetFile,
              ServeContent, DelFile, PatchFile, PatchFetched, PatchCompleted, PatchOpen,
              DeclareLength, LengthDeclared, DeclareFails
<1>3. CASE ChunkStep(r)
  BY <1>3 DEF ChunkStep, writeChunk, CopyByte, ReadFails, CopyEnds, WriteFails, ChunkWritten,
              TerminateBin, TerminateInfo, TerminateFails, finishUploadIfComplete, Respond, Unlock
<1>4. CASE ContextStep(r)
  BY <1>4 DEF ContextStep, releaseLock, stopUpload, RequestCancelled, WatchContext
<1> QED
  BY <1>1, <1>2, <1>3, <1>4

(* A step of r disturbs no other request: the file of an upload that is    *)
(* being created is neither removed nor created a second time.             *)
LEMMA NextPlaceInv == ASSUME IInv, PlaceInv, [Next]_vars PROVE PlaceInv'
<1>0. TypeOK
  BY DEF IInv
<1>1. CASE UNCHANGED vars
  BY <1>1 DEF PlaceInv, CreatesAlone, Placed, vars, respVars, histVars, fileVars, lockVars
<1>2. CASE ProcessCrash
  <2>1. UNCHANGED <<created, published>>
    BY <1>2 DEF ProcessCrash, histVars
  <2>2. ASSUME NEW r \in Callers PROVE pc'[r] \in {"dead", "idle"}
    BY <1>2 DEF ProcessCrash
  <2> QED
    BY <2>1, <2>2 DEF PlaceInv, CreatesAlone, Placed, Locked
<1>3. ASSUME NEW r \in Callers, PostStep(r) \/ LockedStep(r) \/ ChunkStep(r) \/ ContextStep(r)
      PROVE  PlaceInv'
  <2>1. Apart(r)
    BY <1>0, <1>3, PostFootprint, LockedFootprint, ChunkFootprint, ContextFootprint
  <2>2. MovesOn(r)
    BY <1>0, <1>3, PostMoves, LockedMoves, ChunkMoves, ContextMoves
  <2>3. ASSUME NEW q \in Callers, q # r, pc'[q] = "newInfo"
        PROVE  /\ target'[q] \notin created' /\ bin'[target'[q]] # NoFile
               /\ pc'[r] = "newInfo" => target'[r] # target'[q]
    <3>1. /\ pc[q] = "newInfo" /\ target'[q] = target[q] /\ target'[r] = target[r]
          /\ target[q] \in Uploads
          /\ target[q] \notin created /\ bin[target[q]] # NoFile
      BY <1>0, <2>1, <2>3 DEF Apart, PlaceInv, Placed, TypeOK, LockTypeOK
    <3>2. CASE target[q] # target[r]
      BY <2>1, <3>1, <3>2 DEF Apart
    <3>3. CASE target[q] = target[r]
      <4>1. pc[r] # "newInfo"
        BY <2>3, <3>1, <3>3 DEF PlaceInv, CreatesAlone
      <4>2. pc[r] \notin Locked \cup {"created", "waiting", "finish"}
        BY <3>1, <3>3 DEF PlaceInv, Placed
      <4>3. ~PostFile(r)
        BY <3>1, <3>3 DEF PostFile
      <4>4. /\ ~PostCreated(r) /\ ~PostFails(r) /\ ~DeclareLength(r) /\ ~LengthDeclared(r)
            /\ ~CopyByte(r) /\ ~TerminateBin(r) /\ ~TerminateInfo(r) /\ ~finishUploadIfComplete(r)
        BY <4>1, <4>2
           DEF PostCreated, PostFails, DeclareLength, LengthDeclared, CopyByte, TerminateBin,
               TerminateInfo, finishUploadIfComplete, Locked
      <4>5. UNCHANGED <<bin, created>>
        BY <1>3, <4>3, <4>4, FilesWritten
      <4>6. pc'[r] # "newInfo"
        BY <2>2, <3>1, <3>3, <4>3, <4>5, <1>0, <1>3, <4>1, EnterNewInfo
      <4> QED
        BY <3>1, <3>3, <4>5, <4>6
    <3> QED
      BY <3>2, <3>3
  <2>4. \A q \in Callers : Placed(q)'
    <3>1. ASSUME NEW q \in Callers, q # r PROVE Placed(q)'
      BY <2>1, <2>2, <2>3, <3>1 DEF Apart, MovesOn, PlaceInv, Placed
    <3> QED
      BY <2>2, <3>1 DEF MovesOn
  <2>5. CreatesAlone'
    <3>1. ASSUME NEW p \in Callers, NEW q \in Callers, p # q,
                 pc'[p] = "newInfo", pc'[q] = "newInfo", target'[p] = target'[q]
          PROVE  FALSE
      <4>1. CASE p = r \/ q = r
        BY <2>3, <3>1, <4>1
      <4>2. CASE p # r /\ q # r
        BY <2>1, <3>1, <4>2 DEF Apart, PlaceInv, CreatesAlone
      <4> QED
        BY <4>1, <4>2
    <3> QED
      BY <3>1 DEF CreatesAlone
  <2> QED
    BY <2>2, <2>4, <2>5 DEF PlaceInv, MovesOn
<1> QED
  BY <1>1, <1>2, <1>3 DEF Next

(* For every input, every configuration and every fault: one request at a  *)
(* time is in the store with an upload, and unless it is creating it, it   *)
(* has the lock.  Two that go through lockUpload hold the same lock, so    *)
(* they are one; a POST that is creating an upload is alone with it since  *)
(* no other POST has its ID and no client its URL.                         *)
THEOREM OneWorkerCorrect == Spec => []OneWorker
<1>1. Init => PlaceInv
  BY DEF Init, PlaceInv, CreatesAlone, Placed, Locked
<1>2. IInv /\ PlaceInv /\ [Next]_vars => PlaceInv'
  BY NextPlaceInv
<1>3. IInv /\ PlaceInv => OneWorker
  <2> SUFFICES ASSUME IInv, PlaceInv PROVE OneWorker
    OBVIOUS
  <2>1. \A r \in Callers : pc[r] \in Locked => owner[target[r]] = r
    BY DEF IInv, WorkersHoldLock, HoldersRecorded
  <2>2. ASSUME NEW r \in Callers, NEW s \in Callers,
               pc[r] \in Locked \cup {"newInfo"}, pc[s] \in Locked \cup {"newInfo"},
               target[r] = target[s]
        PROVE  r = s
    <3>1. CASE pc[r] \in Locked /\ pc[s] \in Locked
      BY <2>1, <2>2, <3>1
    <3>2. CASE pc[r] = "newInfo" /\ pc[s] = "newInfo"
      BY <2>2, <3>2 DEF PlaceInv, CreatesAlone
    <3>3. CASE \/ pc[r] = "newInfo" /\ pc[s] \in Locked
               \/ pc[r] \in Locked /\ pc[s] = "newInfo"
      BY <2>2, <3>3 DEF PlaceInv, Placed
    <3> QED
      BY <2>2, <3>1, <3>2, <3>3
  <2> QED
    BY <2>1, <2>2 DEF OneWorker
<1> QED
  BY <1>1, <1>2, <1>3, Invariance, PTL DEF Spec

(* For every input, every configuration and every fault: a download is of  *)
(* one state of the upload (DownloadIsStable), because GetFile keeps its   *)
(* lock until http.ServeFile returns.                                      *)
THEOREM DownloadIsStableCorrect == Spec => []DownloadIsStable
<1>1. Init => DownloadIsStable
  BY DEF Init, DownloadIsStable
<1> QED
  BY <1>1, NextStable, Invariance, PTL DEF Spec

(* For every input, every configuration and every fault: the data of a     *)
(* terminated upload never comes back.  A POST only creates files that     *)
(* have no upload yet, and WriteChunk only appends to a file it has open,  *)
(* which by OpenFilesStay is not gone.                                     *)
THEOREM GoneForGoodCorrect == Spec => GoneForGood
<1>1. ASSUME IInv, [Next]_vars
      PROVE  [\A u \in created : bin[u] = NoFile => bin'[u] = NoFile]_vars
  <2>1. CASE UNCHANGED vars
    BY <2>1
  <2>2. CASE ProcessCrash
    BY <2>2 DEF ProcessCrash, fileVars
  <2>3. ASSUME NEW r \in Callers, PostStep(r) \/ LockedStep(r) \/ ChunkStep(r) \/ ContextStep(r),
               NEW u \in created, bin[u] = NoFile
        PROVE  bin'[u] = NoFile
    <3>1. bin \in [Uploads -> Seq(Nat) \cup {NoFile}] /\ u \in Uploads
      BY <1>1, <2>3 DEF IInv, TypeOK, StoreTypeOK
    <3>2. CASE PostFile(r) \/ CopyByte(r) \/ TerminateBin(r)
      BY <1>1, <2>3, <3>1, <3>2
         DEF PostFile, CopyByte, TerminateBin, CreateBin, AppendByte, RemoveBin, IInv,
             OpenFilesStay, CanOpen
    <3> QED
      BY <2>3, <3>2, BinWritten
  <2> QED
    BY <1>1, <2>1, <2>2, <2>3 DEF Next
<1> QED
  BY <1>1, Invariance, PTL DEF Spec, GoneForGood

-----------------------------------------------------------------------------

(* The cause and the error of a body that StopUpload has closed. *)
Stopped == "ErrUploadStoppedByServer"

(* What the theorems below assume of the requests and the configuration:   *)
(* protocol version 1, where a client learns the URL from the response to  *)
(* its POST and from nothing else (PostFileV2 sends it in the 104          *)
(* response, Config.NotifyCreatedUploads gives it to the application),     *)
(* where the body of a POST is the beginning of the file, and an           *)
(* Upload-Length is not negative (validateUploadLength).  V1Inputs of      *)
(* MCUploadHandler are such requests; run UploadHandler_draft shows that   *)
(* StoredPrefix fails without the first part.                              *)
TusV1 ==
  /\ ~NotifyCreated
  /\ \A i \in Inputs : /\ i.method # "POSTV2"
                       /\ i.method = "POST" => i.offset = 0
                       /\ i.length >= -1

(* Request r is the only one that may work on its upload: it creates it,   *)
(* or it works under the lock, or it is about to answer with what it knows *)
(* of the upload.                                                          *)
Owns(r) ==
  \/ pc[r] \in {"newInfo", "created", "finish"} \cup (Locked \ {"fetch"})
  \/ pc[r] = "waiting" /\ IsPost(r)
  \/ pc[r] = "respond" /\ err[r] = "none" /\ (IsPost(r) \/ ackOffset[r] # -1)

(* Why an owner is alone.  A POST is the only one to know the upload it    *)
(* creates until its response is sent; any other request addresses a       *)
(* published upload and holds its lock.                                    *)
Place(r) ==
  /\ IsPost(r) => pc[r] \notin {"fetch", "declare", "writeInfo", "serve"}
  /\ ~IsPost(r) /\ pc[r] \notin {"idle", "done", "dead"} => target[r] \in published
  /\ ~IsPost(r) /\ Owns(r) => phase[r] = "held"
  /\ IsPost(r) /\ Owns(r) => target[r] \notin published
  /\ IsPost(r) /\ Owns(r) /\ pc[r] # "newInfo" => target[r] \in created

(* No two POSTs create the same upload: the IDs are fresh. *)
CreatorsApart ==
  \A r, q \in Callers :
     IsPost(r) /\ Owns(r) /\ IsPost(q) /\ Owns(q) /\ target[r] = target[q] => r = q

(* The upload of r has a binary file of n bytes. *)
Stores(r, n) == CanOpen(target[r]) /\ Len(bin[target[r]]) = n

(* The FileInfo in the memory of r is what `.info` says. *)
InfoRead(r) == info[target[r]] = [size |-> upload[r].size, deferred |-> upload[r].deferred]

(* r has written nothing yet, and the Upload-Offset of the request is the  *)
(* offset it read.                                                         *)
Ready(r) == ackOffset[r] = -1 /\ written[r] = 0 /\ input[r].offset = upload[r].offset

(* The FileInfo in the memory of r is that of the stored upload. *)
Current(r) == Stores(r, upload[r].offset) /\ InfoRead(r)

(* The upload was terminated for r by StopUpload, which r will report. *)
Gone(r) == ~CanOpen(target[r]) /\ "stop" \in Faults /\ err[r] # "none"

(* What a request may rely on at each of its steps about the files of its  *)
(* upload: what it read before it got to this step is still true.          *)
Knows(r) ==
  /\ pc[r] = "newInfo" => Stores(r, 0) /\ target[r] \notin created
  /\ pc[r] \in {"created", "write"} \/ (IsPost(r) /\ pc[r] = "waiting") => Current(r) /\ Ready(r)
  /\ pc[r] = "copy" =>
       /\ Stores(r, upload[r].offset + written[r]) /\ InfoRead(r)
       /\ input[r].offset = upload[r].offset
       /\ ~upload[r].deferred =>
            room[r] # NoLimit /\ (room[r] = 0 \/ upload[r].offset + room[r] <= upload[r].size)
  /\ pc[r] = "wrote" => Current(r) /\ input[r].method \in {"POST", "PATCH"}
  /\ pc[r] = "serve" => Stores(r, upload[r].offset)
  /\ pc[r] = "declare" =>
       /\ Current(r) /\ upload[r].deferred /\ ackOffset[r] \in {-1, upload[r].offset}
       /\ r \notin hasBody => Ready(r) /\ input[r].length >= upload[r].offset
  /\ pc[r] = "writeInfo" =>
       /\ Stores(r, upload[r].offset) /\ info[target[r]] = Truncated
       /\ ~upload[r].deferred /\ upload[r].size >= upload[r].offset
       /\ ackOffset[r] \in {-1, upload[r].offset}
       /\ r \notin hasBody => Ready(r)
  /\ pc[r] = "finish" =>
       /\ Current(r) \/ Gone(r)
       /\ ackOffset[r] \in {-1, upload[r].offset}
  /\ pc[r] = "removeBin" /\ input[r].method # "DELETE" =>
       Current(r) /\ err[r] # "none" /\ "stop" \in Faults /\ ackOffset[r] = upload[r].offset
  /\ pc[r] = "removeInfo" => ~CanOpen(target[r])
  /\ pc[r] = "removeInfo" /\ input[r].method # "DELETE" =>
       Gone(r) /\ ackOffset[r] = upload[r].offset
  /\ pc[r] = "respond" /\ err[r] = "none" /\ ackOffset[r] # -1 => Stores(r, ackOffset[r])

(* The course of a request: what it has not done yet at which step, which  *)
(* methods get to which step, and that only StopUpload stops an upload.    *)
Course(r) ==
  /\ \/ pc[r] \in {"idle", "newInfo", "created", "waiting", "fetch", "write", "serve"}
     \/ input[r].method = "DELETE"
     => ackOffset[r] = -1
  /\ pc[r] \in {"idle", "newInfo", "created", "waiting", "fetch", "write"} => written[r] = 0
  /\ pc[r] \in {"declare", "writeInfo", "write", "copy", "wrote", "finish"} =>
       input[r].method \in {"POST", "PATCH"}
  /\ pc[r] \in {"removeBin", "removeInfo"} => input[r].method \in {"POST", "PATCH", "DELETE"}
  /\ /\ pc[r] \in {"copy", "wrote", "finish", "removeBin", "removeInfo"}
     /\ input[r].method = "PATCH"
     => r \in hasBody
  /\ cause[r] = Stopped \/ bodyErr[r] = Stopped => "stop" \in Faults

(* Request r may still get to finishUploadIfComplete. *)
MayFinish(r) ==
  \/ Owns(r) /\ pc[r] \in {"newInfo", "created", "waiting", "declare", "writeInfo", "write", "copy",
                           "wrote", "finish"}
  \/ pc[r] \in {"removeBin", "removeInfo"} /\ input[r].method # "DELETE"

(* Then the pre-finish hook has not been called for its upload. *)
Unfinished(r) == MayFinish(r) => preFinish[target[r]] = 0

(* The pre-finish hook was called at most once, and the upload has not     *)
(* changed since but for its removal.  A created upload that has a binary  *)
(* file has an `.info`.                                                    *)
FileOK(u) ==
  /\ preFinish[u] <= 1
  /\ preFinish[u] > 0 => u \in created
  /\ preFinish[u] > 0 /\ CanOpen(u) =>
       info[u] \in InfoRecord /\ ~info[u].deferred /\ info[u].size = Len(bin[u])
  /\ u \in created /\ CanOpen(u) => info[u] \in InfoRecord \cup {Truncated}
  /\ u \in published => u \in created

(* StoredPrefix for one upload. *)
InOrder(u) == CanOpen(u) => \A k \in 1..Len(bin[u]) : bin[u][k] = k

(* The inductive invariant. *)
DataInv ==
  /\ IInv
  /\ \A r \in Callers : Place(r) /\ Course(r) /\ Knows(r) /\ Unfinished(r)
  /\ CreatorsApart
  /\ \A u \in Uploads : FileOK(u)
  /\ StoredPrefix

-----------------------------------------------------------------------------

(* Nobody has used the ID that PostFile draws. *)
Fresh(r) == bin[target[r]] = NoFile /\ target[r] \notin created

(* What a step of r has to show for the invariant to be preserved: only r  *)
(* and its upload are mentioned.                                           *)
Keeps(r) ==
  /\ created \subseteq created' /\ published \subseteq published'
  /\ Quiet \/ Owns(r) \/ Fresh(r)
  /\ Owns(r)' /\ IsPost(r) => Owns(r) \/ Fresh(r)
  /\ (Place(r) /\ Course(r) /\ Knows(r) /\ Unfinished(r))'
  /\ FileOK(target[r])' /\ InOrder(target[r])'

(* The part of it that is about request r, its upload and its input. *)
Given(r) ==
  /\ Place(r) /\ Course(r) /\ Knows(r) /\ Unfinished(r)
  /\ FileOK(target[r]) /\ InOrder(target[r]) /\ target[r] \in Uploads
  /\ input[r] \in InputType /\ input[r].method # "POSTV2" /\ input[r].length >= -1
  /\ input[r].method = "POST" => input[r].offset = 0
  /\ input[r].complete => input[r].method = "PATCH"
  /\ IsPost(r) <=> input[r].method = "POST"

(* The invariant, the assumptions on the inputs and TusV1, for one request. *)
LEMMA Facts == ASSUME DataInv, TusV1, NEW r \in Callers PROVE Given(r)
<1>1. target[r] \in Uploads /\ input[r] \in Inputs
  BY DEF DataInv, IInv, TypeOK, LockTypeOK
<1> QED
  BY <1>1, InputsAssumption DEF DataInv, StoredPrefix, InOrder, TusV1, IsPost, Given

(* Two owners of one upload are the same request: locks are exclusive,     *)
(* creators have their uploads to themselves, and a published upload has   *)
(* no creator any more.                                                    *)
LEMMA SoleOwner ==
  ASSUME DataInv, NEW r \in Callers, NEW q \in Callers, Owns(r), Owns(q), target[r] = target[q]
  PROVE  r = q
<1>1. Place(r) /\ Place(q) /\ HoldersRecorded /\ CreatorsApart
  BY DEF DataInv, IInv
<1>2. CASE IsPost(r) /\ IsPost(q)
  BY <1>1, <1>2 DEF CreatorsApart
<1>3. CASE ~IsPost(r) /\ ~IsPost(q)
  BY <1>1, <1>3 DEF Place, HoldersRecorded
<1>4. ASSUME NEW a \in Callers, NEW b \in Callers, Place(a), Place(b), Owns(a), Owns(b),
             target[a] = target[b], IsPost(a), ~IsPost(b)
      PROVE  FALSE
  BY <1>4 DEF Place, Owns, Locked
<1> QED
  BY <1>1, <1>2, <1>3, <1>4

(* A step of r disturbs nothing that another request knows: if the step    *)
(* changes a file, r owns the upload, and nobody else does.                *)
LEMMA OthersUndisturbed ==
  ASSUME DataInv, NEW r \in Callers, Apart(r),
         created \subseteq created', published \subseteq published',
         Quiet \/ Owns(r) \/ Fresh(r),
         NEW q \in Callers, q # r
  PROVE  Place(q)' /\ Course(q)' /\ Knows(q)' /\ Unfinished(q)' /\ (Owns(q)' <=> Owns(q))
<1>1. Place(q) /\ Course(q) /\ Knows(q) /\ Unfinished(q) /\ target[q] \in Uploads
  BY DEF DataInv, IInv, TypeOK, LockTypeOK
<1>2. /\ pc'[q] = pc[q] /\ phase'[q] = phase[q] /\ upload'[q] = upload[q]
      /\ written'[q] = written[q] /\ room'[q] = room[q] /\ err'[q] = err[q]
      /\ ackOffset'[q] = ackOffset[q] /\ cause'[q] = cause[q] /\ bodyErr'[q] = bodyErr[q]
      /\ (q \in hasBody') <=> (q \in hasBody)
      /\ input' = input /\ target' = target
  BY DEF Apart
<1>3. (Owns(q)' <=> Owns(q)) /\ (IsPost(q)' <=> IsPost(q)) /\ (MayFinish(q)' <=> MayFinish(q))
  BY <1>2 DEF Owns, IsPost, MayFinish
<1>4. Course(q)'
  BY <1>1, <1>2 DEF Course
<1>5. CASE Quiet \/ target[q] # target[r]
  <2>1. /\ bin'[target[q]] = bin[target[q]] /\ info'[target[q]] = info[target[q]]
        /\ preFinish'[target[q]] = preFinish[target[q]]
        /\ target[q] \in created' <=> target[q] \in created
        /\ target[q] \in published' <=> target[q] \in published
    BY <1>1, <1>5 DEF Apart, Quiet
  <2>2. Place(q)'
    BY <1>1, <1>2, <1>3, <2>1 DEF Place
  <2>3. Knows(q)'
    BY <1>1, <1>2, <1>3, <2>1 DEF Knows, Stores, InfoRead, Ready, Current, Gone, CanOpen
  <2>4. Unfinished(q)'
    BY <1>1, <1>2, <1>3, <2>1 DEF Unfinished
  <2> QED
    BY <1>3, <1>4, <2>2, <2>3, <2>4
<1>6. CASE ~Quiet /\ target[q] = target[r]
  <2>1. ~Owns(q)
    <3>1. CASE Owns(r)
      BY <1>6, <3>1, SoleOwner
    <3>2. CASE Fresh(r)
      <4>1. FileOK(target[q])
        BY <1>1 DEF DataInv
      <4> QED
        BY <1>1, <1>6, <3>2, <4>1 DEF Fresh, Place, Knows, Stores, CanOpen, Owns, Locked, FileOK
    <3> QED
      BY <1>6, <3>1, <3>2
  <2>2. Place(q)'
    BY <1>1, <1>2, <1>3, <2>1 DEF Place
  <2>3. Knows(q)'
    BY <1>2, <1>3, <2>1 DEF Knows, Owns, Locked
  <2>4. Unfinished(q)'
    BY <1>3, <2>1 DEF Unfinished, MayFinish, Owns, Locked
  <2> QED
    BY <1>3, <1>4, <2>2, <2>3, <2>4
<1> QED
  BY <1>5, <1>6

(* So what r shows for itself and its upload is enough. *)
LEMMA StepPreserves ==
  ASSUME DataInv, IInv', NEW r \in Callers, Apart(r), Keeps(r)
  PROVE  DataInv'
<1> USE DEF Keeps, Fresh
<1>1. ASSUME NEW q \in Callers PROVE (Place(q) /\ Course(q) /\ Knows(q) /\ Unfinished(q))'
  <2>1. CASE q = r
    BY <2>1
  <2>2. CASE q # r
    BY <2>2, OthersUndisturbed
  <2> QED
    BY <2>1, <2>2
<1>2. CreatorsApart'
  <2>1. SUFFICES ASSUME NEW q \in Callers, q # r, IsPost(r)', Owns(r)', IsPost(q)', Owns(q)',
                        target[r] = target[q]
                 PROVE  FALSE
    <3>1. ASSUME NEW a \in Callers, NEW b \in Callers, a # r, b # r,
                 IsPost(a)', Owns(a)', IsPost(b)', Owns(b)', target[a] = target[b]
          PROVE  a = b
      BY <3>1, OthersUndisturbed DEF DataInv, CreatorsApart, Apart, IsPost
    <3> QED
      BY <2>1, <3>1 DEF CreatorsApart, Apart
  <2>2. IsPost(r) /\ IsPost(q) /\ Owns(q)
    BY <2>1, OthersUndisturbed DEF Apart, IsPost
  <2>3. CASE Owns(r)
    BY <2>1, <2>2, <2>3, SoleOwner
  <2>4. CASE bin[target[r]] = NoFile /\ target[r] \notin created
    <3>1. Place(q) /\ Knows(q)
      BY DEF DataInv
    <3> QED
      BY <2>1, <2>2, <2>4, <3>1 DEF Place, Knows, Stores, CanOpen
  <2> QED
    BY <2>1, <2>2, <2>3, <2>4
<1>3. ASSUME NEW u \in Uploads PROVE FileOK(u)' /\ InOrder(u)'
  <2>1. CASE u = target[r]
    BY <2>1 DEF Apart
  <2>2. CASE u # target[r]
    <3>1. FileOK(u) /\ InOrder(u)
      BY DEF DataInv, StoredPrefix, InOrder
    <3>2. /\ bin'[u] = bin[u] /\ info'[u] = info[u] /\ preFinish'[u] = preFinish[u]
          /\ u \in created' <=> u \in created
          /\ u \in published' <=> u \in published
      BY <2>2 DEF Apart
    <3> QED
      BY <3>1, <3>2 DEF FileOK, InOrder, CanOpen
  <2> QED
    BY <2>1, <2>2
<1> QED
  BY <1>1, <1>2, <1>3 DEF DataInv, StoredPrefix, InOrder

(* The steps of PostFile. *)
LEMMA PostKeeps ==
  ASSUME DataInv, TusV1, IInv', NEW r \in Callers, PostStep(r) PROVE Keeps(r)
<1> DEFINE u == target[r]
<1>0. TypeOK /\ WorkersHoldLock /\ WorkersHoldLock'
  BY DEF DataInv, IInv
<1>00. Given(r)
  BY Facts
<1> USE <1>0, <1>00
<1> USE DEF Keeps, Given, Fresh, Place, Course, Knows, Unfinished, FileOK, InOrder, Owns,
            MayFinish, Quiet, Locked, WorkersHoldLock, Stores, InfoRead, Ready, Current, Gone,
            CanOpen, IsPost, TypeOK, LockTypeOK, StoreTypeOK, reqVars, ctxVars, respVars,
            histVars, fileVars, lockVars, Goto, Fail
<1>1. CASE PostRefused(r)
  BY <1>1 DEF PostRefused
<1>2. CASE PostFile(r)
  <2>1. created \subseteq created' /\ published \subseteq published' /\ Fresh(r)
    BY <1>2 DEF PostFile
  <2>2. Place(r)' /\ Course(r)'
    BY <1>2 DEF PostFile
  <2>3. Knows(r)'
    <3>1. bin'[u] = <<>>
      BY <1>2 DEF PostFile, CreateBin
    <3>2. pc'[r] = "newInfo" /\ UNCHANGED <<target, created>> /\ u \notin created
      BY <1>2 DEF PostFile
    <3>3. <<>> # NoFile /\ Len(<<>>) = 0
      <4>1. <<>> \in Seq(Nat)
        OBVIOUS
      <4> QED
        BY <4>1, NoFileAssumption
    <3> QED
      BY <3>1, <3>2, <3>3
  <2>4. Unfinished(r)' 
    BY <1>2 DEF PostFile
  <2>5. FileOK(u)' /\ InOrder(u)'
    BY <1>2 DEF PostFile, CreateBin
  <2> QED
    BY <2>1, <2>2, <2>3, <2>4, <2>5
<1>3. CASE PostCreated(r)
  <2>1. created \subseteq created' /\ published \subseteq published' /\ Owns(r)
    BY <1>3 DEF PostCreated
  <2>2. Place(r)' /\ Course(r)'
    BY <1>3 DEF PostCreated
  <2>3. Knows(r)'
    <3> DEFINE n == newLength(r)
    <3>1. /\ upload'[r] = [size |-> IF n = -1 THEN 0 ELSE n, deferred |-> n = -1, offset |-> 0]
          /\ info'[u] = [size |-> IF n = -1 THEN 0 ELSE n, deferred |-> n = -1]
          /\ pc'[r] = "created" /\ pc[r] = "newInfo"
          /\ UNCHANGED <<target, bin, input, written, ackOffset>>
      BY <1>3 DEF PostCreated, WriteInfo
    <3> HIDE DEF n
    <3>2. Current(r)'
      BY <3>1
    <3>3. Ready(r)'
      BY <3>1
    <3> QED
      BY <3>1, <3>2, <3>3
  <2>4. Unfinished(r)' 
    BY <1>3 DEF PostCreated
  <2>5. FileOK(u)' /\ InOrder(u)'
    BY <1>3 DEF PostCreated, WriteInfo, InfoRecord, newLength, InputType
  <2> QED
    BY <2>1, <2>2, <2>3, <2>4, <2>5
<1>4. CASE PostFails(r)
  <2>1. created \subseteq created' /\ published \subseteq published' /\ Owns(r)
    BY <1>4 DEF PostFails
  <2>2. Place(r)' /\ Course(r)'
    BY <1>4 DEF PostFails, TruncateInfo
  <2>3. Knows(r)'
    BY <1>4, NoFileAssumption DEF PostFails
  <2>4. Unfinished(r)' 
    BY <1>4 DEF PostFails, TruncateInfo
  <2>5. FileOK(u)' /\ InOrder(u)'
    BY <1>4 DEF PostFails, TruncateInfo
  <2> QED
    BY <2>1, <2>2, <2>3, <2>4, <2>5
<1>5. CASE PostNotify(r)
  <2>1. Quiet /\ Owns(r)
    BY <1>5 DEF PostNotify, TusV1
  <2>2. Place(r)' /\ Course(r)'
    BY <1>5, <2>1 DEF PostNotify, Call
  <2>3. Knows(r)'
    BY <1>5 DEF PostNotify, Call
  <2>4. Unfinished(r)' 
    BY <1>5 DEF PostNotify, Call
  <2>5. FileOK(u)' /\ InOrder(u)'
    BY <1>5, <2>1 DEF PostNotify, Call
  <2> QED
    BY <2>1, <2>2, <2>3, <2>4, <2>5
<1> QED
  BY <1>1, <1>2, <1>3, <1>4, <1>5 DEF PostStep

(* The steps from lockUpload to writeChunk. *)
LEMMA LockedKeeps ==
  ASSUME DataInv, TusV1, IInv', NEW r \in Callers, LockedStep(r) PROVE Keeps(r)
<1> DEFINE u == target[r]
<1>0. TypeOK /\ WorkersHoldLock /\ WorkersHoldLock'
  BY DEF DataInv, IInv
<1>00. Given(r)
  BY Facts
<1> USE <1>0, <1>00
<1> USE DEF Keeps, Given, Fresh, Place, Course, Knows, Unfinished, FileOK, InOrder, Owns,
            MayFinish, Quiet, Locked, WorkersHoldLock, Stores, InfoRead, Ready, Current, Gone,
            CanOpen, IsPost, TypeOK, LockTypeOK, StoreTypeOK, reqVars, ctxVars, respVars,
            histVars, fileVars, lockVars, Goto, Fail
<1>1. CASE Begin(r)
  BY <1>1 DEF Begin, Call
<1>2. CASE LockAcquired(r)
  BY <1>2 DEF LockAcquired, Acquire
<1>3. CASE LockFailed(r)
  BY <1>3 DEF LockFailed, GiveUp
<1>4. CASE FetchFails(r)
  BY <1>4 DEF FetchFails
<1>5. CASE HeadFile(r)
  BY <1>5 DEF HeadFile, Readable, Exists, GetUpload
<1>6. CASE DelFile(r)
  BY <1>6 DEF DelFile
<1>7. CASE PatchFile(r)
  <2> DEFINE i == GetUpload(u)
  <2>1. /\ Quiet /\ pc[r] = "fetch" /\ input[r].method = "PATCH"
        /\ UNCHANGED <<input, target, written, hasBody, bodyErr, cause, phase>>
    BY <1>7 DEF PatchFile, PatchFetched
  <2>2. /\ upload'[r] = [size |-> info[u].size, deferred |-> info[u].deferred,
                         offset |-> Len(bin[u])]
        /\ bin[u] # NoFile /\ info[u] \in InfoRecord
    BY <1>7 DEF PatchFile, PatchFetched, GetUpload, Readable, Exists
  <2>3. Current(r)'
    BY <2>1, <2>2 DEF InfoRecord
  <2>4. CASE Fail(r, "ErrMismatchOffset") \/ Fail(r, "ErrInvalidUploadLength")
    BY <2>1, <2>4
  <2>5. CASE input[r].offset = i.offset /\ PatchCompleted(r, i)
    <3>1. ackOffset'[r] = Len(bin[u]) /\ pc'[r] = "respond"
      BY <2>5 DEF PatchCompleted, GetUpload
    <3> QED
      BY <2>1, <2>2, <3>1
  <2>6. CASE /\ input[r].offset = i.offset /\ ~Complete(i)
             /\ \/ Goto(r, "write")
                \/ MayDeclare(i, input[r].length) /\ Goto(r, "declare")
             /\ UNCHANGED respVars
    <3>1. /\ \/ pc'[r] = "write"
             \/ /\ pc'[r] = "declare" /\ info[u].deferred /\ input[r].length >= Len(bin[u])
          /\ UNCHANGED <<err, ackOffset>>
      BY <2>2, <2>6 DEF MayDeclare, GetUpload
    <3>2. Ready(r)'
      BY <2>1, <2>2, <2>6 DEF GetUpload
    <3>3. preFinish[u] = 0
      BY <2>2, <2>6 DEF Complete, GetUpload
    <3> QED
      BY <2>1, <2>2, <2>3, <3>1, <3>2, <3>3
  <2> QED
    BY <1>7, <2>4, <2>5, <2>6 DEF PatchFile, PatchOpen
<1>8. CASE DeclareLength(r)
  BY <1>8 DEF DeclareLength, TruncateInfo
<1>9. CASE LengthDeclared(r)
  <2>1. /\ UNCHANGED <<input, target, upload, written, hasBody, bodyErr, cause, phase, err,
                        ackOffset, bin, created, published, preFinish>>
        /\ info'[u] = [size |-> upload[r].size, deferred |-> FALSE]
        /\ pc[r] = "writeInfo" /\ pc'[r] = IF r \in hasBody THEN "finish" ELSE "write"
    BY <1>9 DEF LengthDeclared, WriteInfo
  <2>2. upload[r].size \in Int /\ upload[r].deferred = FALSE /\ input[r].method = "PATCH"
    BY <2>1
  <2>3. info'[u] = [size |-> upload[r].size, deferred |-> upload[r].deferred]
    BY <2>1, <2>2, Zenon
  <2>4. Current(r)'
    BY <2>1, <2>3
  <2>5. Place(r)' /\ Course(r)'
    BY <2>1, <2>2
  <2>6. Knows(r)'
    BY <2>1, <2>2, <2>4
  <2>7. FileOK(u)' /\ InOrder(u)'
    BY <2>1, <2>2 DEF InfoRecord
  <2> QED
    BY <2>1, <2>5, <2>6, <2>7
<1>10. CASE DeclareFails(r)
  BY <1>10 DEF DeclareFails
<1>11. CASE GetFile(r)
  BY <1>11 DEF GetFile, Readable, Exists, GetUpload
<1>12. CASE ServeContent(r)
  BY <1>12 DEF ServeContent
<1> QED
  BY <1>1, <1>2, <1>3, <1>4, <1>5, <1>6, <1>7, <1>8, <1>9, <1>10, <1>11, <1>12 DEF LockedStep

(* The steps from writeChunk to the end of the request. *)
LEMMA ChunkKeeps ==
  ASSUME DataInv, TusV1, IInv', NEW r \in Callers, ChunkStep(r) PROVE Keeps(r)
<1> DEFINE u == target[r]
<1>0. TypeOK /\ WorkersHoldLock /\ WorkersHoldLock'
  BY DEF DataInv, IInv
<1>00. Given(r)
  BY Facts
<1> USE <1>0, <1>00
<1> USE DEF Keeps, Given, Fresh, Place, Course, Knows, Unfinished, FileOK, InOrder, Owns,
            MayFinish, Quiet, Locked, WorkersHoldLock, Stores, InfoRead, Ready, Current, Gone,
            CanOpen, IsPost, TypeOK, LockTypeOK, StoreTypeOK, reqVars, ctxVars, respVars,
            histVars, fileVars, lockVars, Goto, Fail, Stopped
<1>1. CASE writeChunk(r)
  <2> DEFINE tooMuch == ~upload[r].deferred
                        /\ upload[r].offset + input[r].contentLength > upload[r].size
  <2>1. CASE tooMuch
    BY <1>1, <2>1 DEF writeChunk
  <2>2. CASE ~tooMuch
    <3>1. /\ Quiet /\ pc[r] = "write" /\ pc'[r] = "copy" /\ room'[r] = maxSize(r)
          /\ UNCHANGED <<input, target, upload, written, bodyErr, cause, phase, err, ackOffset>>
          /\ r \in hasBody'
      BY <1>1, <2>2 DEF writeChunk
    <3>2. ~upload[r].deferred =>
            /\ maxSize(r) # NoLimit
            /\ maxSize(r) = 0 \/ upload[r].offset + maxSize(r) <= upload[r].size
      BY <2>2 DEF maxSize, NoLimit, InputType
    <3> QED
      BY <3>1, <3>2
  <2> QED
    BY <2>1, <2>2
<1>2. CASE CopyByte(r)
  <2>1. /\ UNCHANGED <<pc, input, target, upload, room, hasBody, bodyErr, cause, phase, err,
                        ackOffset, info, created, published, preFinish>>
        /\ bin'[u] = Append(bin[u], upload[r].offset + written[r] + 1)
        /\ pc[r] = "copy" /\ written'[r] = written[r] + 1
        /\ bin[u] \in Seq(Nat) /\ Len(bin[u]) = upload[r].offset + written[r]
        /\ upload[r].offset \in Nat /\ written[r] \in Nat
    BY <1>2 DEF CopyByte, AppendByte
  <2>2. bin'[u] \in Seq(Nat) /\ Len(bin'[u]) = Len(bin[u]) + 1 /\ bin'[u] # NoFile
    <3>1. upload[r].offset + written[r] + 1 \in Nat
      BY <2>1
    <3>2. bin'[u] \in Seq(Nat) /\ Len(bin'[u]) = Len(bin[u]) + 1
      BY <2>1, <3>1
    <3> QED
      BY <3>2, NoFileAssumption
  <2>3. InOrder(u)'
    <3>1. /\ u \in Uploads /\ bin'[u] = Append(bin[u], Len(bin[u]) + 1) /\ bin[u] \in Seq(Nat)
          /\ \A k \in 1..Len(bin[u]) : bin[u][k] = k
      BY <2>1
    <3>2. \A k \in 1..Len(bin'[u]) : bin'[u][k] = k
      BY ONLY <3>1
    <3>3. target'[r] = u
      BY <2>1
    <3> QED
      BY ONLY <3>2, <3>3 DEF InOrder
  <2>4. Knows(r)'
    <3>1. upload'[r].offset + written'[r] = Len(bin'[u]) /\ target'[r] = u
      BY <2>1, <2>2
    <3>2. InfoRead(r)' /\ upload'[r] = upload[r] /\ input'[r] = input[r] /\ room'[r] = room[r]
      BY <2>1
    <3> QED
      BY <2>1, <2>2, <3>1, <3>2
  <2>5. Place(r)' /\ Course(r)' /\ Unfinished(r)'
    BY <2>1
  <2>6. FileOK(u)'
    BY <2>1, <2>2
  <2> QED
    BY <2>1, <2>3, <2>4, <2>5, <2>6
<1>3. CASE ReadFails(r)
  BY <1>3 DEF ReadFails
<1>4. CASE CopyEnds(r) \/ WriteFails(r)
  <2>1. /\ Quiet /\ pc[r] = "copy" /\ pc'[r] = "wrote"
        /\ upload'[r].size = upload[r].size /\ upload'[r].deferred = upload[r].deferred
        /\ upload'[r].offset = upload[r].offset + written[r]
        /\ UNCHANGED <<input, target, written, hasBody, bodyErr, cause, phase, ackOffset>>
    BY <1>4 DEF CopyEnds, WriteFails
  <2> QED
    BY <2>1
<1>5. CASE ChunkWritten(r)
  BY <1>5 DEF ChunkWritten
<1>6. CASE TerminateBin(r)
  BY <1>6 DEF TerminateBin, RemoveBin
<1>7. CASE TerminateInfo(r)
  BY <1>7 DEF TerminateInfo, RemoveInfo
<1>8. CASE TerminateFails(r)
  BY <1>8 DEF TerminateFails
<1>9. CASE finishUploadIfComplete(r)
  <2>1. /\ UNCHANGED <<input, target, upload, written, hasBody, bodyErr, cause, phase, ackOffset,
                        bin, info, created, published>>
        /\ pc[r] = "finish"
    BY <1>9 DEF finishUploadIfComplete
  <2>2. \/ pc'[r] = "respond"
        \/ /\ pc'[r] = "declare" /\ err'[r] = "none"
           /\ input[r].complete /\ upload[r].deferred
    BY <1>9 DEF finishUploadIfComplete
  <2>3. err'[r] = "none" => err[r] = "none"
    BY <1>9 DEF finishUploadIfComplete
  <2>4. preFinish'[u] = IF Complete(upload[r]) THEN 1 ELSE 0
    BY <1>9 DEF finishUploadIfComplete
  <2>5. Place(r)' /\ Course(r)'
    BY <2>1, <2>2, <2>3
  <2>6. Knows(r)'
    BY <2>1, <2>2, <2>3
  <2>7. Unfinished(r)'
    BY <2>1, <2>2, <2>4 DEF Complete
  <2>8. FileOK(u)' /\ InOrder(u)'
    BY <2>1, <2>4 DEF Complete, InfoRecord
  <2> QED
    BY <2>1, <2>5, <2>6, <2>7, <2>8
<1>10. CASE Respond(r)
  BY <1>10 DEF Respond, Forget
<1>11. CASE Unlock(r)
  BY <1>11 DEF Unlock, Release
<1> QED
  BY <1>1, <1>2, <1>3, <1>4, <1>5, <1>6, <1>7, <1>8, <1>9, <1>10, <1>11 DEF ChunkStep

(* Interruption, StopUpload and cancellation. *)
LEMMA ContextKeeps ==
  ASSUME DataInv, TusV1, IInv', NEW r \in Callers, ContextStep(r) PROVE Keeps(r)
<1>0. TypeOK /\ WorkersHoldLock'
  BY DEF DataInv, IInv
<1>00. Given(r)
  BY Facts
<1> USE <1>0, <1>00
<1> USE DEF Keeps, Given, Fresh, Place, Course, Knows, Unfinished, FileOK, InOrder, Owns,
            MayFinish, Quiet, Locked, WorkersHoldLock, Stores, InfoRead, Ready, Current, Gone,
            CanOpen, IsPost, TypeOK, LockTypeOK, StoreTypeOK, reqVars, ctxVars, respVars,
            histVars, fileVars, lockVars, Goto, Fail, Stopped
<1>1. CASE releaseLock(r)
  BY <1>1 DEF releaseLock, Ask, Cancel, Stopped
<1>2. CASE stopUpload(r)
  BY <1>2 DEF stopUpload, Cancel
<1>3. CASE RequestCancelled(r)
  BY <1>3 DEF RequestCancelled, Cancel, Stopped
<1>4. CASE WatchContext(r)
  BY <1>4 DEF WatchContext
<1> QED
  BY <1>1, <1>2, <1>3, <1>4 DEF ContextStep

(* A crash leaves the files as they are, in the middle of whatever step,   *)
(* and nobody who knows anything about them.                               *)
LEMMA CrashKeeps == ASSUME DataInv, IInv', ProcessCrash PROVE DataInv'
<1>1. /\ UNCHANGED <<input, target, bin, info, created, published, preFinish>>
      /\ \A q \in Callers :
            /\ pc'[q] \in {"idle", "dead"}
            /\ pc'[q] = "idle" => pc[q] = "idle"
            /\ cause'[q] \in {"none", cause[q]} /\ bodyErr'[q] \in {"none", bodyErr[q]}
            /\ ackOffset'[q] \in {-1, ackOffset[q]} /\ written'[q] \in {0, written[q]}
  BY DEF ProcessCrash, Crash, Forget, histVars, fileVars
<1>2. ASSUME NEW q \in Callers
      PROVE  (Place(q) /\ Course(q) /\ Knows(q) /\ Unfinished(q))' /\ ~Owns(q)'
  <2>1. Place(q) /\ Course(q)
    BY DEF DataInv
  <2>2. pc'[q] \in {"idle", "dead"}
    BY <1>1
  <2>3. ~Owns(q)' /\ ~MayFinish(q)'
    BY <2>2 DEF Owns, MayFinish, Locked
  <2>4. Place(q)' /\ Knows(q)' /\ Unfinished(q)'
    BY <2>2, <2>3 DEF Place, Knows, Unfinished
  <2>5. Course(q)'
    <3>1. pc'[q] = "idle" => ackOffset'[q] = -1 /\ written'[q] = 0
      BY <1>1, <2>1 DEF Course
    <3>2. input[q].method = "DELETE" => ackOffset'[q] = -1
      BY <1>1, <2>1 DEF Course
    <3>3. cause'[q] = Stopped \/ bodyErr'[q] = Stopped => "stop" \in Faults
      BY <1>1, <2>1 DEF Course, Stopped
    <3> QED
      BY <1>1, <2>2, <3>1, <3>2, <3>3 DEF Course
  <2> QED
    BY <2>3, <2>4, <2>5
<1>3. CreatorsApart'
  BY <1>2 DEF CreatorsApart
<1>4. (\A u \in Uploads : FileOK(u))' /\ StoredPrefix'
  BY <1>1 DEF DataInv, FileOK, StoredPrefix, CanOpen
<1> QED
  BY <1>2, <1>3, <1>4 DEF DataInv

(* There are no uploads in the beginning. *)
LEMMA InitDataInv == Init => DataInv
<1> SUFFICES ASSUME Init PROVE DataInv
  OBVIOUS
<1>1. IInv
  BY InitIInv
<1>2. ASSUME NEW q \in Callers PROVE Place(q) /\ Course(q) /\ Knows(q) /\ Unfinished(q) /\ ~Owns(q)
  BY DEF Init, Place, Course, Knows, Unfinished, MayFinish, Owns, Locked, Stopped
<1>3. \A u \in Uploads : FileOK(u) /\ ~CanOpen(u)
  BY DEF Init, StoreInit, FileOK, CanOpen
<1> QED
  BY <1>1, <1>2, <1>3 DEF DataInv, CreatorsApart, StoredPrefix

(* Every step preserves the invariant. *)
LEMMA NextDataInv == ASSUME TusV1, DataInv, [Next]_vars PROVE DataInv'
<1>1. IInv' /\ TypeOK
  BY NextIInv DEF DataInv, IInv
<1>2. CASE UNCHANGED vars
  BY <1>1, <1>2
     DEF DataInv, Place, Course, Knows, Unfinished, MayFinish, Owns, IsPost, CreatorsApart, FileOK,
         StoredPrefix, Stores, InfoRead, Ready, Current, Gone, CanOpen, vars, reqVars, ctxVars,
         respVars, histVars, fileVars, lockVars
<1>3. ASSUME NEW r \in Callers, PostStep(r) \/ LockedStep(r) \/ ChunkStep(r) \/ ContextStep(r)
      PROVE  DataInv'
  <2>1. Apart(r)
    BY <1>1, <1>3, PostFootprint, LockedFootprint, ChunkFootprint, ContextFootprint
  <2>2. Keeps(r)
    BY <1>1, <1>3, PostKeeps, LockedKeeps, ChunkKeeps, ContextKeeps
  <2> QED
    BY <1>1, <2>1, <2>2, StepPreserves DEF Keeps, Fresh
<1>4. CASE ProcessCrash
  BY <1>1, <1>4, CrashKeeps
<1> QED
  BY <1>2, <1>3, <1>4 DEF Next

(* In every reachable state, what each request believes of its upload is so. *)
THEOREM DataInvariance == ASSUME TusV1 PROVE Spec => []DataInv
BY InitDataInv, NextDataInv, PTL DEF Spec

(* The stored bytes are a prefix of the client's file, for any number of   *)
(* requests and uploads, any sizes, and whatever connections break, store  *)
(* calls fail, uploads are stopped and processes die.                      *)
THEOREM StoredPrefixCorrect == ASSUME TusV1 PROVE Spec => []StoredPrefix
<1>1. DataInv => StoredPrefix
  BY DEF DataInv
<1> QED
  BY <1>1, DataInvariance, PTL

(* The Upload-Offset of a successful response is the number of bytes       *)
(* stored when it is sent.                                                 *)
THEOREM TruthfulOffsetCorrect == ASSUME TusV1 PROVE Spec => []TruthfulOffset
<1>1. DataInv => TruthfulOffset
  BY DEF DataInv, Knows, Stores, TruthfulOffset
<1> QED
  BY <1>1, DataInvariance, PTL

(* The pre-finish hook is called at most once per upload: a request that   *)
(* finds the upload complete does not get to finishUploadIfComplete, and   *)
(* no other request is on the way there.                                   *)
THEOREM FinishedOnceCorrect == ASSUME TusV1 PROVE Spec => []FinishedOnce
<1>1. DataInv => FinishedOnce
  BY DEF DataInv, FileOK, FinishedOnce
<1> QED
  BY <1>1, DataInvariance, PTL

-----------------------------------------------------------------------------

(* The upload resource, upload by upload (see Resource). *)
dataOf(u) == IF stateOf(u) = "open" THEN bin[u] ELSE <<>>

sizeOf(u) == IF Known(u) THEN info[u].size ELSE 0

finishedOf(u) == preFinish[u] > 0

(* A step that a client cannot see in upload u. *)
SameView(u) ==
  /\ stateOf(u)' = stateOf(u) /\ dataOf(u)' = dataOf(u) /\ sizeOf(u)' = sizeOf(u)
  /\ Known(u)' <=> Known(u)
  /\ finishedOf(u)' <=> finishedOf(u)

SameKnown(u) == (~Known(u))' = ~Known(u)

(* The resource is a function of the files and the history. *)
LEMMA SameFilesSameView ==
  ASSUME NEW u \in Uploads, bin'[u] = bin[u], info'[u] = info[u], preFinish'[u] = preFinish[u],
         u \in created' <=> u \in created
  PROVE  SameView(u)
BY DEF SameView, stateOf, dataOf, sizeOf, finishedOf, Known

(* A step that is unseen in every upload is a stuttering step. *)
LEMMA Unseen == ASSUME \A u \in Uploads : SameView(u) PROVE UNCHANGED Resource!resourceVars
<1>1. \A u \in Uploads : (~Known(u))' = ~Known(u)
  BY DEF SameView
<1> QED
  BY <1>1 DEF SameView, dataOf, sizeOf, finishedOf, Resource!resourceVars

(* There are no resources in the beginning. *)
LEMMA InitResource == Init => Resource!ResourceInit
<1> SUFFICES ASSUME Init PROVE Resource!ResourceInit
  OBVIOUS
<1>1. \A u \in Uploads : stateOf(u) = "none" /\ ~Known(u) /\ ~(preFinish[u] > 0)
  BY DEF Init, stateOf, Known
<1> QED
  BY <1>1 DEF Resource!ResourceInit

(* A step of r is unseen in every upload but its own. *)
LEMMA OtherViews ==
  ASSUME NEW r \in Callers, Apart(r) PROVE \A u \in Uploads \ {target[r]} : SameView(u)
BY SameFilesSameView DEF Apart

(* NewUpload creates the resource with its second file. *)
LEMMA CreateStep ==
  ASSUME DataInv, TusV1, NEW r \in Callers, PostCreated(r), Apart(r),
         NEW u \in Uploads, u = target[r]
  PROVE  Resource!Create(u)
<1> DEFINE n == newLength(r)
<1>0. /\ Knows(r) /\ FileOK(u) /\ u \in Uploads /\ input[r] \in InputType
      /\ input[r].length >= -1 /\ input[r].method # "POSTV2" /\ TypeOK
  BY Facts DEF Given, DataInv, IInv
<1>1. n \in Int /\ n >= -1
  BY <1>0 DEF newLength, InputType
<1>2. /\ pc[r] = "newInfo" /\ u \notin created
      /\ bin[u] # NoFile /\ Len(bin[u]) = 0 /\ preFinish[u] = 0
  BY <1>0 DEF PostCreated, Knows, Stores, CanOpen, FileOK, TypeOK
<1>3. bin[u] = <<>>
  BY <1>0, <1>2 DEF TypeOK, StoreTypeOK
<1>4. /\ u \in created' /\ UNCHANGED <<bin, preFinish>>
      /\ info'[u] = [size |-> IF n = -1 THEN 0 ELSE n, deferred |-> n = -1]
  BY <1>0 DEF PostCreated, WriteInfo, TypeOK, StoreTypeOK
<1> HIDE DEF n
<1>5. info'[u].deferred <=> n = -1
  <2> DEFINE b == n = -1
  <2>1. info'[u].deferred = b
    <3> HIDE DEF b
    <3> QED
      BY <1>4 DEF b
  <2> QED
    BY <2>1
<1>6. n # -1 => info'[u].size = n
  BY <1>4
<1>7. info'[u] # Truncated
  <2>1. info'[u] \in InfoRecord
    BY <1>1, <1>4 DEF InfoRecord
  <2> QED
    BY <2>1, TruncatedAssumption
<1>8. stateOf(u) = "none" /\ stateOf(u)' = "open" /\ ~finishedOf(u) /\ ~finishedOf(u)'
  BY <1>2, <1>3, <1>4 DEF stateOf, finishedOf
<1>9. dataOf(u) = <<>> /\ dataOf(u)' = <<>>
  BY <1>3, <1>4, <1>8 DEF dataOf
<1>10. ~Known(u) /\ (Known(u)' <=> n # -1)
  BY <1>5, <1>7, <1>8 DEF Known
<1>11. sizeOf(u) = 0 /\ sizeOf(u)' = IF n = -1 THEN 0 ELSE n
  BY <1>6, <1>10 DEF sizeOf
<1>12. \A v \in Uploads \ {u} : SameView(v)
  BY OtherViews
<1>13. /\ [v \in Uploads |-> stateOf(v)]' = [[v \in Uploads |-> stateOf(v)] EXCEPT ![u] = "open"]
       /\ [v \in Uploads |-> dataOf(v)]' = [v \in Uploads |-> dataOf(v)]
       /\ {v \in Uploads : finishedOf(v)}' = {v \in Uploads : finishedOf(v)}
  BY <1>0, <1>8, <1>9, <1>12 DEF SameView
<1>14. \/ /\ [v \in Uploads |-> sizeOf(v)]' = [v \in Uploads |-> sizeOf(v)]
          /\ [v \in Uploads |-> ~Known(v)]' = [v \in Uploads |-> ~Known(v)]
       \/ /\ sizeOf(u)' \in Nat
          /\ [v \in Uploads |-> sizeOf(v)]' =
               [[v \in Uploads |-> sizeOf(v)] EXCEPT ![u] = sizeOf(u)']
          /\ [v \in Uploads |-> ~Known(v)]' = [[v \in Uploads |-> ~Known(v)] EXCEPT ![u] = FALSE]
  <2>1. CASE n = -1
    <3>1. \A v \in Uploads : SameKnown(v) /\ sizeOf(v)' = sizeOf(v)
      BY <1>10, <1>11, <1>12, <2>1 DEF SameView, SameKnown
    <3> QED
      BY <3>1 DEF SameKnown
  <2>2. CASE n # -1
    <3>1. \A v \in Uploads \ {u} : SameKnown(v)
      BY <1>12 DEF SameView, SameKnown
    <3>2. (~Known(u))' = FALSE
      BY <1>10, <2>2
    <3>3. [v \in Uploads |-> ~Known(v)]' = [[v \in Uploads |-> ~Known(v)] EXCEPT ![u] = FALSE]
      BY <3>1, <3>2 DEF SameKnown
    <3>4. sizeOf(u)' \in Nat
      BY <1>1, <1>11, <2>2
    <3>5. [v \in Uploads |-> sizeOf(v)]' = [[v \in Uploads |-> sizeOf(v)] EXCEPT ![u] = sizeOf(u)']
      BY <1>12 DEF SameView
    <3> QED
      BY <3>3, <3>4, <3>5
  <2> QED
    BY <2>1, <2>2
<1> QED
  BY <1>0, <1>8, <1>13, <1>14 DEF Resource!Create, dataOf, sizeOf, finishedOf

(* Every byte that io.Copy appends is the next one of the client's file,   *)
(* and there is room for it: the limit of the body reader was computed     *)
(* from an offset and a size that still hold.                              *)
LEMMA GrowStep ==
  ASSUME DataInv, TusV1, NEW r \in Callers, CopyByte(r), Apart(r),
         NEW u \in Uploads, u = target[r]
  PROVE  Resource!Grow(u)
<1>0. /\ Place(r) /\ Knows(r) /\ FileOK(u) /\ input[r] \in InputType
      /\ input[r].method # "POSTV2" /\ TypeOK
  BY Facts DEF Given, DataInv, IInv
<1>1. /\ pc[r] = "copy" /\ u \in created /\ bin[u] \in Seq(Nat) /\ bin[u] # NoFile
      /\ upload[r].offset \in Nat /\ written[r] \in Nat /\ room[r] \in Nat \cup {-1}
      /\ input[r].offset = upload[r].offset /\ Len(bin[u]) = upload[r].offset + written[r]
      /\ info[u].size = upload[r].size /\ info[u].deferred = upload[r].deferred
      /\ upload[r].size \in Int
  BY <1>0 DEF CopyByte, Knows, Place, Owns, Locked, Stores, CanOpen, InfoRead, FileOK, TypeOK,
              StoreTypeOK, NoLimit
<1>2. ~upload[r].deferred => Len(bin[u]) < upload[r].size
  BY <1>0, <1>1 DEF CopyByte, Knows, NoLimit
<1>3. /\ bin'[u] = Append(bin[u], Len(bin[u]) + 1) /\ UNCHANGED <<info, created, preFinish>>
  BY <1>0, <1>1 DEF CopyByte, AppendByte, TypeOK, StoreTypeOK, histVars
<1>4. bin'[u] # NoFile
  <2>1. Append(bin[u], Len(bin[u]) + 1) \in Seq(Nat)
    BY <1>1
  <2> QED
    BY <1>3, <2>1, NoFileAssumption
<1>5. stateOf(u) = "open" /\ stateOf(u)' = "open" /\ (finishedOf(u)' <=> finishedOf(u))
  BY <1>1, <1>3, <1>4 DEF stateOf, finishedOf
<1>6. dataOf(u) = bin[u] /\ dataOf(u)' = Append(dataOf(u), Len(dataOf(u)) + 1)
  BY <1>3, <1>5 DEF dataOf
<1>7. (Known(u)' <=> Known(u)) /\ sizeOf(u)' = sizeOf(u) /\ (Known(u) => Len(dataOf(u)) < sizeOf(u))
  BY <1>1, <1>2, <1>3, <1>5, <1>6 DEF Known, sizeOf
<1>8. \A v \in Uploads \ {u} : SameView(v)
  BY OtherViews
<1>9. /\ [v \in Uploads |-> stateOf(v)]' = [v \in Uploads |-> stateOf(v)]
      /\ [v \in Uploads |-> dataOf(v)]' = [[v \in Uploads |-> dataOf(v)] EXCEPT
                                             ![u] = Append(@, Len(@) + 1)]
      /\ [v \in Uploads |-> sizeOf(v)]' = [v \in Uploads |-> sizeOf(v)]
      /\ {v \in Uploads : finishedOf(v)}' = {v \in Uploads : finishedOf(v)}
  BY <1>5, <1>6, <1>7, <1>8 DEF SameView
<1>10. [v \in Uploads |-> ~Known(v)]' = [v \in Uploads |-> ~Known(v)]
  <2>1. \A v \in Uploads : SameKnown(v)
    BY <1>7, <1>8 DEF SameView, SameKnown
  <2> QED
    BY <2>1 DEF SameKnown
<1> QED
  BY <1>5, <1>7, <1>9, <1>10 DEF Resource!Grow, dataOf, sizeOf, finishedOf

(* The length becomes known when `.info` is written again, and is not      *)
(* below the stored bytes.                                                 *)
LEMMA DeclareStep ==
  ASSUME DataInv, TusV1, NEW r \in Callers, LengthDeclared(r), Apart(r),
         NEW u \in Uploads, u = target[r]
  PROVE  Resource!DeclareLength(u)
<1>0. /\ Place(r) /\ Knows(r) /\ FileOK(u) /\ TypeOK
  BY Facts DEF Given, DataInv, IInv
<1>1. /\ pc[r] = "writeInfo" /\ u \in created /\ bin[u] # NoFile /\ info[u] = Truncated
      /\ upload[r].offset \in Nat /\ upload[r].size \in Int /\ upload[r].size >= upload[r].offset
      /\ Len(bin[u]) = upload[r].offset
  BY <1>0 DEF LengthDeclared, Knows, Place, Owns, Locked, Stores, CanOpen, FileOK, TypeOK
<1>2. /\ info'[u] = [size |-> upload[r].size, deferred |-> FALSE]
      /\ UNCHANGED <<bin, created, preFinish>>
  BY <1>0, <1>1 DEF LengthDeclared, WriteInfo, TypeOK, StoreTypeOK, histVars
<1>3. info'[u] # Truncated /\ ~info'[u].deferred /\ info'[u].size = upload[r].size
  <2>1. info'[u] \in InfoRecord
    BY <1>1, <1>2 DEF InfoRecord
  <2>2. info'[u].deferred = FALSE /\ info'[u].size = upload[r].size
    BY <1>2
  <2>3. info'[u] # Truncated
    BY <2>1, TruncatedAssumption
  <2> QED
    BY <2>2, <2>3
<1>4. stateOf(u) = "open" /\ stateOf(u)' = "open" /\ (finishedOf(u)' <=> finishedOf(u))
  BY <1>1, <1>2 DEF stateOf, finishedOf
<1>5. dataOf(u) = bin[u] /\ dataOf(u)' = dataOf(u)
  BY <1>2, <1>4 DEF dataOf
<1>6. ~Known(u) /\ Known(u)' /\ sizeOf(u)' = upload[r].size
  BY <1>1, <1>3, <1>4 DEF Known, sizeOf
<1>7. \A v \in Uploads \ {u} : SameView(v)
  BY OtherViews
<1>8. /\ [v \in Uploads |-> stateOf(v)]' = [v \in Uploads |-> stateOf(v)]
      /\ [v \in Uploads |-> dataOf(v)]' = [v \in Uploads |-> dataOf(v)]
      /\ [v \in Uploads |-> sizeOf(v)]' = [[v \in Uploads |-> sizeOf(v)] EXCEPT ![u] = sizeOf(u)']
      /\ {v \in Uploads : finishedOf(v)}' = {v \in Uploads : finishedOf(v)}
  BY <1>4, <1>5, <1>7 DEF SameView
<1>9. [v \in Uploads |-> ~Known(v)]' = [[v \in Uploads |-> ~Known(v)] EXCEPT ![u] = FALSE]
  <2>1. \A v \in Uploads \ {u} : SameKnown(v)
    BY <1>7 DEF SameView, SameKnown
  <2>2. (~Known(u))' = FALSE
    BY <1>6
  <2> QED
    BY <2>1, <2>2 DEF SameKnown
<1>10. sizeOf(u)' >= Len(dataOf(u))
  BY <1>1, <1>5, <1>6
<1> QED
  BY <1>4, <1>6, <1>8, <1>9, <1>10 DEF Resource!DeclareLength, dataOf, sizeOf, finishedOf

(* The resource is gone with the binary file. *)
LEMMA TerminateStep ==
  ASSUME DataInv, TusV1, NEW r \in Callers, TerminateBin(r), Apart(r),
         NEW u \in Uploads, u = target[r]
  PROVE  Resource!Terminate(u) \/ UNCHANGED Resource!resourceVars
<1>0. /\ Place(r) /\ Knows(r) /\ FileOK(u) /\ TypeOK
  BY Facts DEF Given, DataInv, IInv
<1>1. u \in created /\ UNCHANGED <<info, created, preFinish>> /\ bin'[u] = NoFile
  BY <1>0 DEF TerminateBin, RemoveBin, Place, Owns, Locked, FileOK, TypeOK, StoreTypeOK, histVars
<1>2. \A v \in Uploads \ {u} : SameView(v)
  BY OtherViews
<1>3. /\ stateOf(u)' = "gone" /\ dataOf(u)' = <<>> /\ ~Known(u)' /\ sizeOf(u)' = 0
      /\ finishedOf(u)' <=> finishedOf(u)
  BY <1>1 DEF stateOf, dataOf, Known, sizeOf, finishedOf
<1>4. CASE bin[u] = NoFile
  <2>1. SameView(u)
    BY <1>1, <1>4, SameFilesSameView
  <2> QED
    BY <1>2, <2>1, Unseen
<1>5. CASE bin[u] # NoFile
  <2>1. stateOf(u) = "open"
    BY <1>1, <1>5 DEF stateOf
  <2>2. /\ [v \in Uploads |-> stateOf(v)]' = [[v \in Uploads |-> stateOf(v)] EXCEPT ![u] = "gone"]
        /\ [v \in Uploads |-> dataOf(v)]' = [[v \in Uploads |-> dataOf(v)] EXCEPT ![u] = <<>>]
        /\ [v \in Uploads |-> sizeOf(v)]' = [[v \in Uploads |-> sizeOf(v)] EXCEPT ![u] = 0]
        /\ {v \in Uploads : finishedOf(v)}' = {v \in Uploads : finishedOf(v)}
    BY <1>2, <1>3 DEF SameView
  <2>3. [v \in Uploads |-> ~Known(v)]' = [[v \in Uploads |-> ~Known(v)] EXCEPT ![u] = TRUE]
    <3>1. \A v \in Uploads \ {u} : SameKnown(v)
      BY <1>2 DEF SameView, SameKnown
    <3>2. (~Known(u))' = TRUE
      BY <1>3
    <3> QED
      BY <3>1, <3>2 DEF SameKnown
  <2> QED
    BY <2>1, <2>2, <2>3 DEF Resource!Terminate, dataOf, sizeOf, finishedOf
<1> QED
  BY <1>4, <1>5

(* The pre-finish hook is called for an upload that exists, is complete    *)
(* and was not announced before.                                           *)
LEMMA AnnounceStep ==
  ASSUME DataInv, TusV1, "stop" \notin Faults, NEW r \in Callers, finishUploadIfComplete(r),
         Apart(r), NEW u \in Uploads, u = target[r]
  PROVE  Resource!Announce(u) \/ UNCHANGED Resource!resourceVars
<1>0. /\ Place(r) /\ Knows(r) /\ Unfinished(r) /\ FileOK(u) /\ TypeOK
  BY Facts DEF Given, DataInv, IInv
<1>1. pc[r] = "finish" /\ u \in created /\ UNCHANGED <<bin, info, created>> /\ preFinish[u] = 0
  BY <1>0 DEF finishUploadIfComplete, Place, Owns, Locked, FileOK, Unfinished, MayFinish, fileVars
<1>2. \A v \in Uploads \ {u} : SameView(v)
  BY OtherViews
<1>3. CASE ~Complete(upload[r])
  <2>1. SameView(u)
    BY <1>1, <1>3, SameFilesSameView DEF finishUploadIfComplete
  <2> QED
    BY <1>2, <2>1, Unseen
<1>4. CASE Complete(upload[r])
  <2>1. Current(r)
    BY <1>0, <1>1 DEF Knows, Gone
  <2>2. /\ bin[u] # NoFile /\ Len(bin[u]) = upload[r].size
        /\ info[u] = [size |-> upload[r].size, deferred |-> upload[r].deferred]
        /\ ~upload[r].deferred
    BY <1>0, <1>4, <2>1 DEF Current, Stores, InfoRead, CanOpen, Complete
  <2>3. info[u] # Truncated /\ ~info[u].deferred /\ info[u].size = upload[r].size
    <3>1. info[u] \in InfoRecord
      BY <1>0, <2>2 DEF InfoRecord, TypeOK
    <3> QED
      BY <2>2, <3>1, TruncatedAssumption
  <2>4. stateOf(u) = "open" /\ dataOf(u) = bin[u] /\ Known(u) /\ sizeOf(u) = Len(dataOf(u))
    BY <1>1, <2>2, <2>3 DEF stateOf, dataOf, Known, sizeOf
  <2>5. stateOf(u)' = stateOf(u) /\ dataOf(u)' = dataOf(u) /\ Known(u)' /\ sizeOf(u)' = sizeOf(u)
    BY <1>1, <2>4 DEF stateOf, dataOf, Known, sizeOf
  <2>6. ~finishedOf(u) /\ finishedOf(u)'
    BY <1>0, <1>1, <1>4 DEF finishedOf, finishUploadIfComplete, TypeOK
  <2>7. /\ [v \in Uploads |-> stateOf(v)]' = [v \in Uploads |-> stateOf(v)]
        /\ [v \in Uploads |-> dataOf(v)]' = [v \in Uploads |-> dataOf(v)]
        /\ [v \in Uploads |-> sizeOf(v)]' = [v \in Uploads |-> sizeOf(v)]
        /\ {v \in Uploads : finishedOf(v)}' = {v \in Uploads : finishedOf(v)} \cup {u}
    BY <1>2, <2>5, <2>6 DEF SameView
  <2>8. [v \in Uploads |-> ~Known(v)]' = [v \in Uploads |-> ~Known(v)]
    <3>1. \A v \in Uploads : SameKnown(v)
      BY <1>2, <2>4, <2>5 DEF SameView, SameKnown
    <3> QED
      BY <3>1 DEF SameKnown
  <2> QED
    BY <2>4, <2>6, <2>7, <2>8 DEF Resource!Announce, dataOf, sizeOf, finishedOf
<1> QED
  BY <1>3, <1>4

(* No other step is seen: not the first file of a new upload, the emptying *)
(* of `.info` or its removal.                                              *)
LEMMA HiddenStep ==
  ASSUME DataInv, TusV1, NEW r \in Callers, Apart(r), NEW u \in Uploads, u = target[r],
         \/ UNCHANGED <<bin, info, created, preFinish>>
         \/ PostFile(r) \/ PostFails(r) \/ DeclareLength(r) \/ TerminateInfo(r)
  PROVE  UNCHANGED Resource!resourceVars
<1>0. /\ Place(r) /\ Knows(r) /\ Unfinished(r) /\ FileOK(u) /\ TypeOK
  BY Facts DEF Given, DataInv, IInv
<1>1. SameView(u)
  <2>1. CASE UNCHANGED <<bin, info, created, preFinish>>
    BY <2>1, SameFilesSameView
  <2>2. CASE u \notin created /\ u \notin created' /\ UNCHANGED preFinish
    BY <2>2 DEF SameView, stateOf, dataOf, Known, sizeOf, finishedOf
  <2>3. CASE /\ u \in created /\ ~Known(u) /\ ~Known(u)' /\ UNCHANGED <<bin, created, preFinish>>
    BY <2>3 DEF SameView, stateOf, dataOf, sizeOf, finishedOf
  <2>4. CASE PostFile(r) \/ PostFails(r)
    BY <1>0, <2>2, <2>4 DEF PostFile, PostFails, Knows, histVars
  <2>5. CASE DeclareLength(r)
    <3>1. /\ pc[r] = "declare" /\ u \in created /\ UNCHANGED <<bin, created, preFinish>>
          /\ info'[u] = Truncated
      BY <1>0, <2>5
         DEF DeclareLength, TruncateInfo, Place, Owns, Locked, FileOK, TypeOK, StoreTypeOK, histVars
    <3>2. info[u].deferred
      BY <1>0, <3>1 DEF Knows, Current, InfoRead
    <3> QED
      BY <2>3, <3>1, <3>2 DEF Known
  <2>6. CASE TerminateInfo(r)
    <3>1. /\ pc[r] = "removeInfo" /\ u \in created /\ UNCHANGED <<bin, created, preFinish>>
      BY <1>0, <2>6 DEF TerminateInfo, RemoveInfo, Place, Owns, Locked, FileOK, histVars
    <3>2. bin[u] = NoFile
      BY <1>0, <3>1 DEF Knows, CanOpen
    <3> QED
      BY <2>3, <3>1, <3>2 DEF Known, stateOf
  <2> QED
    BY <2>1, <2>4, <2>5, <2>6
<1>2. \A v \in Uploads \ {u} : SameView(v)
  BY OtherViews
<1> QED
  BY <1>1, <1>2, Unseen

(* The handler, a Locker and the file store implement the upload resource: *)
(* step by step, whatever fails or crashes, an upload only is created,     *)
(* grows by the next byte within its length, has its length declared once, *)
(* is announced once when complete, or is terminated for good.  With       *)
(* StopUpload an upload may be announced after its termination, so that    *)
(* fault is excluded.                                                      *)
THEOREM ResourceRefinement ==
  ASSUME TusV1, "stop" \notin Faults PROVE Spec => ImplementsUploadResource
<1>1. Init => Resource!ResourceInit
  BY InitResource
<1>2. DataInv /\ [Next]_vars => [Resource!ResourceNext]_(Resource!resourceVars)
  <2> SUFFICES ASSUME DataInv, [Next]_vars
               PROVE  [Resource!ResourceNext]_(Resource!resourceVars)
    OBVIOUS
  <2>1. CASE UNCHANGED vars \/ ProcessCrash
    <3>1. UNCHANGED <<bin, info, created, preFinish>>
      BY <2>1 DEF vars, ProcessCrash, fileVars, histVars
    <3> QED
      BY <3>1, SameFilesSameView, Unseen
  <2>2. ASSUME NEW r \in Callers, PostStep(r) \/ LockedStep(r) \/ ChunkStep(r) \/ ContextStep(r)
        PROVE  [Resource!ResourceNext]_(Resource!resourceVars)
    <3>1. TypeOK /\ target[r] \in Uploads
      BY DEF DataInv, IInv, TypeOK, LockTypeOK
    <3>2. Apart(r)
      BY <2>2, <3>1, PostFootprint, LockedFootprint, ChunkFootprint, ContextFootprint
    <3>3. PICK u \in Uploads : u = target[r]
      BY <3>1
    <3>4. \/ Resource!Create(u) \/ Resource!Grow(u) \/ Resource!DeclareLength(u)
          \/ Resource!Announce(u) \/ Resource!Terminate(u)
          \/ UNCHANGED Resource!resourceVars
      BY <2>2, <3>2, <3>3, FilesWritten, HiddenStep, CreateStep, GrowStep, DeclareStep,
         TerminateStep, AnnounceStep
    <3> QED
      BY <3>4 DEF Resource!ResourceNext
  <2> QED
    BY <2>1, <2>2 DEF Next
<1> QED
  BY <1>1, <1>2, DataInvariance, PTL DEF Spec, ImplementsUploadResource, Resource!ResourceSpec
=============================================================================
