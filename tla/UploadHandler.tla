--------------------------- MODULE UploadHandler ----------------------------
(***************************************************************************)
(* pkg/handler/unrouted_handler.go on top of a Locker (UploadLock) and the *)
(* file store (FileStore): PostFile, PostFileV2, PatchFile, HeadFile,      *)
(* GetFile and DelFile, with writeChunk, finishUploadIfComplete,           *)
(* terminateUpload, the request context of context.go and the body reader  *)
(* of body_reader.go.                                                      *)
(*                                                                         *)
(* A caller is an HTTP request; every request runs once, in a goroutine of *)
(* its own, and every store call, lock call, hook and read of the body is  *)
(* a step.  Concatenation (Upload-Concat) is a module of its own.          *)
(***************************************************************************)
EXTENDS UploadLock, Integers, Sequences

CONSTANTS NoFile, Truncated,   \* of FileStore
          Inputs,         \* the requests a client may send
          MaxSize,        \* Config.MaxSize; 0 is no limit
          NotifyCreated,  \* Config.NotifyCreatedUploads: the upload's URL is known early
          Faults          \* what may go wrong besides the connection: see AllFaults

Methods == {"POST", "POSTV2", "PATCH", "HEAD", "GET", "DELETE"}

(* Upload-Length (-1: absent, so deferred in a POST), Upload-Offset, the   *)
(* Content-Length (-1: chunked), the bytes the client really sends, and    *)
(* whether the request says that it completes the upload (IETF draft).     *)
InputType == [method: Methods, length: Int, offset: Nat, contentLength: Int,
              sends: Nat, chunk: BOOLEAN, complete: BOOLEAN]

(* A hook calls StopUpload, a system call of the store fails, a request is *)
(* cancelled from outside, the process dies.                               *)
AllFaults == {"stop", "store", "cancel", "crash"}

ASSUME InputsAssumption ==
  /\ Inputs \subseteq InputType
  /\ \A i \in Inputs : /\ i.contentLength # -1 => i.sends <= i.contentLength
                       /\ i.complete => i.method \in {"POSTV2", "PATCH"}
  /\ MaxSize \in Nat
  /\ NotifyCreated \in BOOLEAN
  /\ Faults \subseteq AllFaults

ASSUME NoFileAssumption == NoFile \notin Seq(Nat)

VARIABLES bin, info      \* the files of FileStore

INSTANCE FileStore

ASSUME TruncatedAssumption == Truncated \notin InfoRecord

VARIABLES pc,          \* the next step of a request
          input,       \* what the request says
          upload,      \* its fileUpload / FileInfo, as last read
          written,     \* bytesWritten
          room,        \* maxSize of its body reader
          hasBody,     \* requests whose httpContext.body is set
          bodyErr,     \* bodyReader.err
          cause,       \* the cause its context was cancelled with
          watched,     \* requests whose newContext goroutine has run
          err,         \* the error the handler is going to return
          ackOffset,   \* the Upload-Offset of its response; -1: none
          created,     \* uploads that NewUpload has created
          published,   \* uploads whose URL a client may know
          preFinish,   \* history: how often pre-finish was called for an upload
          abandoned    \* history: complete uploads whose request failed before it read its body

fileVars == <<bin, info>>
reqVars == <<input, upload, written, room>>
ctxVars == <<hasBody, bodyErr, cause, watched>>
respVars == <<err, ackOffset>>
histVars == <<created, published, preFinish, abandoned>>
vars == <<pc, reqVars, ctxVars, respVars, histVars, fileVars, lockVars>>

PCs == {"idle", "newInfo", "created", "waiting", "fetch", "declare", "writeInfo",
        "write", "copy", "wrote", "serve", "removeBin", "removeInfo", "finish",
        "respond", "done", "dead"}

(* What closeWithError is called with. *)
OwnCauses == {"ErrUploadInterrupted", "ErrUploadStoppedByServer", "ErrServerShutdown"}

Causes == OwnCauses \cup {"none", "Canceled"}

BodyErrors == OwnCauses \cup {"none", "ErrSizeExceeded", "ErrUnexpectedEOF"}

Errors == BodyErrors \cup
  {"ErrMaxSizeExceeded", "ErrInvalidUploadLength", "ErrUploadRejectedByServer", "ErrStore",
   "ErrLockTimeout", "ErrNotFound", "ErrUploadTerminationRejected", "ErrMismatchOffset", "ErrHook"}

NoUpload == [size |-> -1, deferred |-> FALSE, offset |-> 0]

Init ==
  /\ LockInit
  /\ StoreInit
  /\ input \in [Callers -> Inputs]
  /\ pc = [r \in Callers |-> "idle"]
  /\ upload = [r \in Callers |-> NoUpload]
  /\ written = [r \in Callers |-> 0]
  /\ room = [r \in Callers |-> 0]
  /\ hasBody = {}
  /\ bodyErr = [r \in Callers |-> "none"]
  /\ cause = [r \in Callers |-> "none"]
  /\ watched = {}
  /\ err = [r \in Callers |-> "none"]
  /\ ackOffset = [r \in Callers |-> -1]
  /\ created = {}
  /\ published = {}
  /\ preFinish = [u \in Uploads |-> 0]
  /\ abandoned = {}

Goto(r, p) == pc' = [pc EXCEPT ![r] = p]

(* sendError follows: the request answers with error e. *)
Fail(r, e) ==
  /\ err' = [err EXCEPT ![r] = e]
  /\ Goto(r, "respond")
  /\ UNCHANGED ackOffset

IsPost(r) == input[r].method \in {"POST", "POSTV2"}

Complete(i) == ~i.deferred /\ i.offset = i.size

(* The length of a new upload, -1 if it is deferred: the Upload-Length     *)
(* header, or in the IETF draft (getIETFDraftUploadLength) the             *)
(* Content-Length of a request that completes the upload.                  *)
newLength(r) ==
  LET i == input[r]
  IN  IF i.method = "POSTV2" /\ i.length = -1 /\ i.complete
      THEN i.contentLength ELSE i.length

LengthsDiffer(i) ==
  i.method = "POSTV2" /\ i.complete /\ i.contentLength # -1 /\ i.length \notin {-1, i.contentLength}

(* The request has completed the upload, by a length of 0 or by declaring  *)
(* the offset as the length, and returns without finishing it.             *)
Abandon(r) == IF Complete(upload[r]) THEN abandoned \cup {target[r]} ELSE abandoned

-----------------------------------------------------------------------------
(* POST: PostFile and PostFileV2. *)

(* Everything before NewUpload, and its first file.  PostFile compares the *)
(* length with MaxSize, PostFileV2 does not.  The pre-create hook may      *)
(* reject the upload.  The ID is a fresh one.                              *)
TooLarge(i) == i.method = "POST" /\ MaxSize > 0 /\ i.length > MaxSize

PostRefused(r) ==
  /\ pc[r] = "idle" /\ IsPost(r)
  /\ Fail(r, CASE TooLarge(input[r])      -> "ErrMaxSizeExceeded"
               [] LengthsDiffer(input[r]) -> "ErrInvalidUploadLength"
               [] OTHER                   -> "ErrUploadRejectedByServer")
  /\ UNCHANGED <<reqVars, ctxVars, histVars, fileVars, lockVars>>

PostFile(r) ==
  /\ pc[r] = "idle" /\ IsPost(r)
  /\ ~TooLarge(input[r]) /\ ~LengthsDiffer(input[r])
  /\ bin[target[r]] = NoFile /\ target[r] \notin created
  /\ CreateBin(target[r])
  /\ Goto(r, "newInfo")
  /\ UNCHANGED <<reqVars, ctxVars, respVars, histVars, lockVars>>

(* The second file of NewUpload, GetInfo, and for PostFileV2 the 104       *)
(* response, which tells the client the URL.                               *)
PostCreated(r) ==
  LET rec == [size     |-> IF newLength(r) = -1 THEN 0 ELSE newLength(r),
              deferred |-> newLength(r) = -1]
  IN  /\ pc[r] = "newInfo"
      /\ WriteInfo(target[r], rec)
      /\ upload' = [upload EXCEPT ![r] = [size |-> rec.size, deferred |-> rec.deferred,
                                          offset |-> 0]]
      /\ created' = created \cup {target[r]}
      /\ published' = IF input[r].method = "POSTV2" THEN published \cup {target[r]}
                                                     ELSE published
      /\ Goto(r, "created")
      /\ UNCHANGED <<input, written, room, ctxVars, respVars, preFinish, abandoned, lockVars>>

(* NewUpload fails: sendError, and the binary file stays, with no `.info`  *)
(* or an empty one; nobody knows the ID.                                   *)
PostFails(r) ==
  /\ "store" \in Faults
  /\ pc[r] = "newInfo"
  /\ UNCHANGED fileVars \/ TruncateInfo(target[r])
  /\ Fail(r, "ErrStore")
  /\ UNCHANGED <<reqVars, ctxVars, histVars, lockVars>>

(* The CreatedUploads notification, then lockUpload if data follows. *)
PostNotify(r) ==
  /\ pc[r] = "created"
  /\ published' = IF NotifyCreated THEN published \cup {target[r]} ELSE published
  /\ IF input[r].chunk \/ input[r].method = "POSTV2"
     THEN Call(r) /\ Goto(r, "waiting")
     ELSE /\ Goto(r, IF Complete(upload[r]) THEN "finish" ELSE "respond")
          /\ UNCHANGED lockVars
  /\ UNCHANGED <<reqVars, ctxVars, respVars, created, preFinish, abandoned, fileVars>>

-----------------------------------------------------------------------------
(* lockUpload and the other methods. *)

(* Mutant: a download does not wait for the lock. *)
BeginGetUnlocked(r) ==
  /\ pc[r] = "idle" /\ ~IsPost(r)
  /\ target[r] \in published
  /\ IF input[r].method = "GET"
     THEN Goto(r, "fetch") /\ UNCHANGED lockVars
     ELSE Goto(r, "waiting") /\ Call(r)
  /\ UNCHANGED <<reqVars, ctxVars, respVars, histVars, fileVars>>

(* PATCH, HEAD, GET and DELETE go for the lock first. *)
Begin(r) ==
  /\ pc[r] = "idle" /\ ~IsPost(r)
  /\ target[r] \in published
  /\ Call(r)
  /\ Goto(r, "waiting")
  /\ UNCHANGED <<reqVars, ctxVars, respVars, histVars, fileVars>>

(* POST goes on with the info it read before it had the lock. *)
LockAcquired(r) ==
  /\ pc[r] = "waiting"
  /\ Acquire(r)
  /\ Goto(r, IF IsPost(r) THEN "write" ELSE "fetch")
  /\ UNCHANGED <<reqVars, ctxVars, respVars, histVars, fileVars>>

LockFailed(r) ==
  /\ pc[r] = "waiting"
  /\ GiveUp(r)
  /\ Fail(r, "ErrLockTimeout")
  /\ abandoned' = Abandon(r)
  /\ UNCHANGED <<reqVars, ctxVars, created, published, preFinish, fileVars>>

(* GetUpload fails: a JSON error for a truncated `.info`, else ErrNotFound.*)
FetchFails(r) ==
  /\ pc[r] = "fetch"
  /\ ~Readable(target[r])
  /\ Fail(r, IF info[target[r]] = Truncated THEN "ErrStore" ELSE "ErrNotFound")
  /\ UNCHANGED <<reqVars, ctxVars, histVars, fileVars, lockVars>>

HeadFile(r) ==
  /\ pc[r] = "fetch" /\ input[r].method = "HEAD"
  /\ Readable(target[r])
  /\ ackOffset' = [ackOffset EXCEPT ![r] = GetUpload(target[r]).offset]
  /\ Goto(r, "respond")
  /\ UNCHANGED <<reqVars, ctxVars, err, histVars, fileVars, lockVars>>

(* GetFile reads the info and leaves the response to the file store, which *)
(* sends the file with http.ServeFile, ...                                 *)
GetFile(r) ==
  /\ pc[r] = "fetch" /\ input[r].method = "GET"
  /\ Readable(target[r])
  /\ upload' = [upload EXCEPT ![r] = GetUpload(target[r])]
  /\ Goto(r, "serve")
  /\ UNCHANGED <<input, written, room, ctxVars, respVars, histVars, fileVars, lockVars>>

(* ... to the end or until the connection fails.  A download that is asked *)
(* to release its lock has no body to close: it goes on.                   *)
ServeContent(r) ==
  /\ pc[r] = "serve"
  /\ Goto(r, "respond")
  /\ UNCHANGED <<reqVars, ctxVars, respVars, histVars, fileVars, lockVars>>

(* DelFile: the pre-terminate hook may reject the termination. *)
DelFile(r) ==
  /\ pc[r] = "fetch" /\ input[r].method = "DELETE"
  /\ Readable(target[r])
  /\ \/ Goto(r, "removeBin") /\ UNCHANGED respVars
     \/ Fail(r, "ErrUploadTerminationRejected")
  /\ UNCHANGED <<reqVars, ctxVars, histVars, fileVars, lockVars>>

(* A PATCH may only declare a length that is unknown, not below the offset *)
(* and within MaxSize.                                                     *)
MayDeclare(i, len) == i.deferred /\ len >= i.offset /\ (MaxSize > 0 => len <= MaxSize)

(* PatchFile after its check of the offset: it answers for a completed     *)
(* upload, and looks at the Upload-Length header of any other.             *)
PatchCompleted(r, i) ==
  /\ Complete(i)
  /\ ackOffset' = [ackOffset EXCEPT ![r] = i.offset]
  /\ Goto(r, "respond")
  /\ UNCHANGED err

PatchOpen(r, mayDeclare) ==
  \/ /\ input[r].length = -1
     /\ Goto(r, "write") /\ UNCHANGED respVars
  \/ /\ input[r].length # -1 /\ mayDeclare
     /\ Goto(r, "declare") /\ UNCHANGED respVars
  \/ /\ input[r].length # -1 /\ ~mayDeclare
     /\ Fail(r, "ErrInvalidUploadLength")

PatchFetched(r, i) ==
  /\ pc[r] = "fetch" /\ input[r].method = "PATCH"
  /\ Readable(target[r])
  /\ upload' = [upload EXCEPT ![r] = i]
  /\ UNCHANGED <<input, written, room, ctxVars, histVars, fileVars, lockVars>>

(* Mutants of PatchFile: no ErrMismatchOffset; a completed upload is       *)
(* written to again.                                                       *)
PatchAnyOffset(r) ==
  LET i == GetUpload(target[r])
  IN  /\ PatchFetched(r, i)
      /\ \/ PatchCompleted(r, i)
         \/ ~Complete(i) /\ PatchOpen(r, MayDeclare(i, input[r].length))

PatchCompletedToo(r) ==
  LET i == GetUpload(target[r])
  IN  /\ PatchFetched(r, i)
      /\ \/ input[r].offset # i.offset /\ Fail(r, "ErrMismatchOffset")
         \/ input[r].offset = i.offset /\ PatchOpen(r, MayDeclare(i, input[r].length))

(* PatchFile up to writeChunk: the checks on the offset, on a completed    *)
(* upload and on the Upload-Length header.                                 *)
PatchFile(r) ==
  LET i == GetUpload(target[r])
  IN  /\ PatchFetched(r, i)
      /\ \/ input[r].offset # i.offset /\ Fail(r, "ErrMismatchOffset")
         \/ input[r].offset = i.offset /\ PatchCompleted(r, i)
         \/ /\ input[r].offset = i.offset /\ ~Complete(i)
            /\ PatchOpen(r, MayDeclare(i, input[r].length))

(* DeclareLength: with the length of the Upload-Length header before any   *)
(* data, or with the offset reached when an IETF draft request completes   *)
(* an upload of unknown length.  `.info` is emptied and then written.      *)
DeclareLength(r) ==
  /\ pc[r] = "declare"
  /\ TruncateInfo(target[r])
  /\ upload' = [upload EXCEPT ![r].size = IF r \in hasBody THEN upload[r].offset
                                                           ELSE input[r].length,
                              ![r].deferred = FALSE]
  /\ Goto(r, "writeInfo")
  /\ UNCHANGED <<input, written, room, ctxVars, respVars, histVars, lockVars>>

LengthDeclared(r) ==
  /\ pc[r] = "writeInfo"
  /\ WriteInfo(target[r], [size |-> upload[r].size, deferred |-> FALSE])
  /\ Goto(r, IF r \in hasBody THEN "finish" ELSE "write")
  /\ UNCHANGED <<reqVars, ctxVars, respVars, histVars, lockVars>>

(* A store call fails: opening or writing `.info`. *)
DeclareFails(r) ==
  /\ "store" \in Faults
  /\ pc[r] \in {"declare", "writeInfo"}
  /\ Fail(r, "ErrStore")
  /\ UNCHANGED <<reqVars, ctxVars, histVars, fileVars, lockVars>>

-----------------------------------------------------------------------------
(* writeChunk. *)

NoLimit == -1

(* maxSize, the limit of the body reader; a Content-Length overrides it,   *)
(* and http.MaxBytesReader takes a negative one for 0.                     *)
maxSize(r) ==
  LET i == upload[r]
      rest == (IF i.deferred THEN MaxSize ELSE i.size) - i.offset
  IN  CASE input[r].contentLength > 0                               -> input[r].contentLength
        [] input[r].contentLength <= 0 /\ i.deferred /\ MaxSize = 0 -> NoLimit
        [] OTHER                                                    -> IF rest < 0 THEN 0 ELSE rest

(* Mutant: WriteChunk creates the file if it is missing. *)
writeChunkCreates(r) ==
  /\ pc[r] = "write"
  /\ hasBody' = hasBody \cup {r}
  /\ room' = [room EXCEPT ![r] = maxSize(r)]
  /\ bin' = IF CanOpen(target[r]) THEN bin ELSE [bin EXCEPT ![target[r]] = <<>>]
  /\ Goto(r, "copy")
  /\ UNCHANGED <<input, upload, written, bodyErr, cause, watched, respVars, histVars, info, lockVars>>

writeChunk(r) ==
  LET i == upload[r]
  IN  /\ pc[r] = "write"
      /\ IF ~i.deferred /\ i.offset + input[r].contentLength > i.size
         THEN /\ Fail(r, "ErrSizeExceeded")
              /\ abandoned' = Abandon(r)
              /\ UNCHANGED <<room, hasBody>>
         ELSE /\ hasBody' = hasBody \cup {r}
              /\ room' = [room EXCEPT ![r] = maxSize(r)]
              /\ UNCHANGED abandoned
              /\ IF CanOpen(target[r])
                 THEN Goto(r, "copy") /\ UNCHANGED respVars
                 ELSE /\ Goto(r, "wrote")
                      /\ err' = [err EXCEPT ![r] = "ErrStore"]
                      /\ UNCHANGED ackOffset
      /\ UNCHANGED <<input, upload, written, bodyErr, cause, watched, created, published, preFinish,
                     fileVars, lockVars>>

(* io.Copy: Read finds no error, gets the next byte from the client, and   *)
(* the byte is appended.  (A Read that is under way while the body is      *)
(* closed is a Read before the closing.)                                   *)
CopyByte(r) ==
  /\ pc[r] = "copy"
  /\ bodyErr[r] = "none"
  /\ written[r] < input[r].sends
  /\ room[r] = NoLimit \/ written[r] < room[r]
  /\ AppendByte(target[r], input[r].offset + written[r] + 1)
  /\ written' = [written EXCEPT ![r] = @ + 1]
  /\ UNCHANGED <<pc, input, upload, room, ctxVars, respVars, histVars, lockVars>>

(* Read fails: the limit is reached and there is more data, or the         *)
(* connection breaks or times out.  The first error stays.                 *)
ReadFails(r) ==
  /\ pc[r] = "copy"
  /\ bodyErr[r] = "none"
  /\ written[r] < input[r].sends \/ input[r].contentLength # input[r].sends
  /\ bodyErr' = [bodyErr EXCEPT ![r] =
        IF room[r] # NoLimit /\ written[r] = room[r] /\ written[r] < input[r].sends
        THEN "ErrSizeExceeded" ELSE "ErrUnexpectedEOF"]
  /\ UNCHANGED <<pc, reqVars, hasBody, cause, watched, respVars, histVars, fileVars, lockVars>>

(* io.Copy ends: with the error of the body or at the end of the body, ... *)
EndOfBody(r) ==
  /\ written[r] = input[r].sends
  /\ input[r].contentLength \in {-1, input[r].sends}

(* Mutants of CopyEnds: the error of the body goes unnoticed; the offset   *)
(* is not advanced.                                                        *)
CopyEndsAtEOF(r) ==
  /\ pc[r] = "copy"
  /\ EndOfBody(r)
  /\ upload' = [upload EXCEPT ![r].offset = @ + written[r]]
  /\ Goto(r, "wrote")
  /\ UNCHANGED <<input, written, room, ctxVars, respVars, histVars, fileVars, lockVars>>

CopyEndsOldOffset(r) ==
  /\ pc[r] = "copy"
  /\ bodyErr[r] # "none" \/ EndOfBody(r)
  /\ Goto(r, "wrote")
  /\ UNCHANGED <<reqVars, ctxVars, respVars, histVars, fileVars, lockVars>>

CopyEnds(r) ==
  /\ pc[r] = "copy"
  /\ bodyErr[r] # "none" \/ EndOfBody(r)
  /\ upload' = [upload EXCEPT ![r].offset = @ + written[r]]
  /\ Goto(r, "wrote")
  /\ UNCHANGED <<input, written, room, ctxVars, respVars, histVars, fileVars, lockVars>>

(* ... or because the file cannot be written, or closed in the end. *)
WriteFails(r) ==
  /\ "store" \in Faults
  /\ pc[r] = "copy"
  /\ written[r] < input[r].sends \/ bodyErr[r] # "none" \/ EndOfBody(r)
  /\ err' = [err EXCEPT ![r] = "ErrStore"]
  /\ upload' = [upload EXCEPT ![r].offset = @ + written[r]]
  /\ Goto(r, "wrote")
  /\ UNCHANGED <<input, written, room, ctxVars, ackOffset, histVars, fileVars, lockVars>>

(* Mutant: an error of the body skips finishUploadIfComplete. *)
ChunkWrittenErrorSkips(r) ==
  /\ pc[r] = "wrote"
  /\ err' = [err EXCEPT ![r] = IF @ = "none" THEN bodyErr[r] ELSE @]
  /\ ackOffset' = [ackOffset EXCEPT ![r] = upload[r].offset]
  /\ Goto(r, IF err'[r] = "none" THEN "finish" ELSE "respond")
  /\ UNCHANGED <<reqVars, ctxVars, histVars, fileVars, lockVars>>

(* hasError decides the error of the response and whether the upload is    *)
(* terminated; the new offset goes into the response.                      *)
ChunkWritten(r) ==
  /\ pc[r] = "wrote"
  /\ err' = [err EXCEPT ![r] = IF @ = "none" THEN bodyErr[r] ELSE @]
  /\ ackOffset' = [ackOffset EXCEPT ![r] = upload[r].offset]
  /\ Goto(r, IF bodyErr[r] = "ErrUploadStoppedByServer" THEN "removeBin" ELSE "finish")
  /\ UNCHANGED <<reqVars, ctxVars, histVars, fileVars, lockVars>>

(* terminateUpload, for DELETE and for a stopped upload. *)
TerminateBin(r) ==
  /\ pc[r] = "removeBin"
  /\ RemoveBin(target[r])
  /\ Goto(r, "removeInfo")
  /\ UNCHANGED <<reqVars, ctxVars, respVars, histVars, lockVars>>

TerminateInfo(r) ==
  /\ pc[r] = "removeInfo"
  /\ RemoveInfo(target[r])
  /\ Goto(r, IF input[r].method = "DELETE" THEN "respond" ELSE "finish")
  /\ UNCHANGED <<reqVars, ctxVars, respVars, histVars, lockVars>>

(* Terminate fails: DELETE answers with the error, a stopped upload only   *)
(* logs it.                                                                *)
TerminateFails(r) ==
  /\ "store" \in Faults
  /\ pc[r] \in {"removeBin", "removeInfo"}
  /\ IF input[r].method = "DELETE" THEN Fail(r, "ErrStore")
                                   ELSE Goto(r, "finish") /\ UNCHANGED respVars
  /\ UNCHANGED <<reqVars, ctxVars, histVars, fileVars, lockVars>>

(* finishUploadIfComplete: also after an error, and also after the upload  *)
(* was terminated.  The pre-finish hook may fail.  Then, if the request    *)
(* completes an upload of unknown length, DeclareLength.                   *)
finishUploadIfComplete(r) ==
  /\ pc[r] = "finish"
  /\ preFinish' = IF Complete(upload[r]) THEN [preFinish EXCEPT ![target[r]] = @ + 1] ELSE preFinish
  /\ \/ UNCHANGED err
     \/ /\ Complete(upload[r]) /\ err[r] = "none"
        /\ err' = [err EXCEPT ![r] = "ErrHook"]
  /\ Goto(r, IF err'[r] = "none" /\ input[r].complete /\ upload[r].deferred
             THEN "declare" ELSE "respond")
  /\ UNCHANGED <<reqVars, ctxVars, ackOffset, created, published, abandoned, fileVars, lockVars>>

-----------------------------------------------------------------------------
(* The response, and the deferred Unlock.  An error response carries       *)
(* neither Upload-Offset nor Location.  The handler returns: its variables,*)
(* its context and its body reader are gone.                               *)
Forget(S) ==
  /\ upload' = [r \in Callers |-> IF r \in S THEN NoUpload ELSE upload[r]]
  /\ written' = [r \in Callers |-> IF r \in S THEN 0 ELSE written[r]]
  /\ room' = [r \in Callers |-> IF r \in S THEN 0 ELSE room[r]]
  /\ hasBody' = hasBody \ S
  /\ bodyErr' = [r \in Callers |-> IF r \in S THEN "none" ELSE bodyErr[r]]
  /\ cause' = [r \in Callers |-> IF r \in S THEN "none" ELSE cause[r]]
  /\ watched' = watched \ S
  /\ err' = [r \in Callers |-> IF r \in S THEN "none" ELSE err[r]]
  /\ ackOffset' = [r \in Callers |-> IF r \in S THEN -1 ELSE ackOffset[r]]

Respond(r) ==
  /\ pc[r] = "respond"
  /\ published' = IF IsPost(r) /\ err[r] = "none" THEN published \cup {target[r]} ELSE published
  /\ Forget({r})
  /\ Goto(r, "done")
  /\ UNCHANGED <<input, created, preFinish, abandoned, fileVars, lockVars>>

(* Mutant: Unlock is deferred before the error of Lock is looked at. *)
UnlockAnyway(r) ==
  /\ pc[r] = "done"
  /\ phase[r] \in {"held", "failed"}
  /\ phase' = [phase EXCEPT ![r] = "released"]
  /\ owner' = [owner EXCEPT ![target[r]] = NoCaller]
  /\ UNCHANGED <<pc, reqVars, ctxVars, respVars, histVars, fileVars, target, asked>>

Unlock(r) ==
  /\ pc[r] = "done"
  /\ Release(r)
  /\ UNCHANGED <<pc, reqVars, ctxVars, respVars, histVars, fileVars>>

-----------------------------------------------------------------------------
(* Cancellation: the first cause wins, and the goroutine of newContext     *)
(* closes the body only if there is one when the goroutine runs.           *)

Running(r) == pc[r] \notin {"idle", "done", "dead"}

Cancel(r, why) ==
  cause' = IF Running(r) /\ cause[r] = "none" THEN [cause EXCEPT ![r] = why] ELSE cause

(* The Locker calls releaseLock for another request. *)
releaseLock(r) ==
  /\ r \notin asked
  /\ Ask(r)
  /\ Cancel(r, "ErrUploadInterrupted")
  /\ UNCHANGED <<pc, reqVars, hasBody, bodyErr, watched, respVars, histVars, fileVars>>

(* A hook calls StopUpload on the info it got with a progress event.       *)
stopUpload(r) ==
  /\ "stop" \in Faults
  /\ r \in hasBody /\ Running(r)
  /\ cause[r] # "ErrUploadStoppedByServer"
  /\ Cancel(r, "ErrUploadStoppedByServer")
  /\ UNCHANGED <<pc, reqVars, hasBody, bodyErr, watched, respVars, histVars, fileVars, lockVars>>

(* The client goes away, or the server shuts down.  (A request without a   *)
(* body would not notice.)                                                 *)
RequestCancelled(r) ==
  /\ "cancel" \in Faults
  /\ Running(r) /\ cause[r] = "none"
  /\ input[r].sends > 0
  /\ \E why \in {"Canceled", "ErrServerShutdown"} : Cancel(r, why)
  /\ UNCHANGED <<pc, reqVars, hasBody, bodyErr, watched, respVars, histVars, fileVars, lockVars>>

(* The goroutine of newContext, with closeWithError. *)
WatchContext(r) ==
  /\ Running(r) /\ cause[r] # "none" /\ r \notin watched
  /\ watched' = watched \cup {r}
  /\ bodyErr' = IF cause[r] \in OwnCauses /\ r \in hasBody
                THEN [bodyErr EXCEPT ![r] = cause[r]] ELSE bodyErr
  /\ UNCHANGED <<pc, reqVars, hasBody, cause, respVars, histVars, fileVars, lockVars>>

(* The process dies: the files stay, the requests and their locks do not.  *)
(* Requests that have not begun are served by the next process.            *)
ProcessCrash ==
  LET S == {r \in Callers : pc[r] \notin {"idle", "dead"}}
  IN  /\ "crash" \in Faults
      /\ \E r \in Callers : Running(r)
      /\ Crash(S)
      /\ Forget(S)
      /\ pc' = [r \in Callers |-> IF r \in S THEN "dead" ELSE pc[r]]
      /\ UNCHANGED <<input, histVars, fileVars>>

-----------------------------------------------------------------------------

PostStep(r) ==
  PostRefused(r) \/ PostFile(r) \/ PostCreated(r) \/ PostFails(r) \/ PostNotify(r)

LockedStep(r) ==
  \/ Begin(r) \/ LockAcquired(r) \/ LockFailed(r) \/ FetchFails(r) \/ HeadFile(r)
  \/ GetFile(r) \/ ServeContent(r) \/ DelFile(r) \/ PatchFile(r) \/ DeclareLength(r)
  \/ LengthDeclared(r) \/ DeclareFails(r)

ChunkStep(r) ==
  \/ writeChunk(r) \/ CopyByte(r) \/ ReadFails(r) \/ CopyEnds(r) \/ WriteFails(r) \/ ChunkWritten(r)
  \/ TerminateBin(r) \/ TerminateInfo(r) \/ TerminateFails(r) \/ finishUploadIfComplete(r)
  \/ Respond(r) \/ Unlock(r)

ContextStep(r) ==
  releaseLock(r) \/ stopUpload(r) \/ RequestCancelled(r) \/ WatchContext(r)

Next ==
  \/ \E r \in Callers : PostStep(r) \/ LockedStep(r) \/ ChunkStep(r) \/ ContextStep(r)
  \/ ProcessCrash

Spec == Init /\ [][Next]_vars

(* What the runtime guarantees: a goroutine that can run does run, the     *)
(* response is sent, Lock returns (AcquireLockTimeout), a read of the body *)
(* returns (NetworkTimeout), and a download ends (the write deadline that  *)
(* Middleware sets).  The client owes nothing.                             *)
ServerStep(r) ==
  PostStep(r) \/ LockAcquired(r) \/ LockFailed(r) \/ FetchFails(r) \/ HeadFile(r)
  \/ GetFile(r) \/ ServeContent(r) \/ DelFile(r) \/ PatchFile(r) \/ DeclareLength(r)
  \/ LengthDeclared(r)
  \/ writeChunk(r) \/ CopyEnds(r) \/ ChunkWritten(r) \/ TerminateBin(r) \/ TerminateInfo(r)
  \/ finishUploadIfComplete(r) \/ Respond(r) \/ Unlock(r) \/ WatchContext(r)

FairSpec ==
  /\ Spec
  /\ \A r \in Callers : WF_vars(pc[r] # "idle" /\ ServerStep(r)) /\ WF_vars(ReadFails(r))

-----------------------------------------------------------------------------

TypeOK ==
  /\ LockTypeOK
  /\ StoreTypeOK
  /\ pc \in [Callers -> PCs]
  /\ input \in [Callers -> Inputs]
  /\ upload \in [Callers -> [size: Int, deferred: BOOLEAN, offset: Nat]]
  /\ written \in [Callers -> Nat]
  /\ room \in [Callers -> Nat \cup {NoLimit}]
  /\ hasBody \subseteq Callers
  /\ bodyErr \in [Callers -> BodyErrors]
  /\ cause \in [Callers -> Causes]
  /\ watched \subseteq Callers
  /\ err \in [Callers -> Errors]
  /\ ackOffset \in [Callers -> Nat \cup {-1}]
  /\ created \subseteq Uploads
  /\ published \subseteq Uploads
  /\ preFinish \in [Uploads -> Nat]
  /\ abandoned \subseteq Uploads

(* The stored bytes are a prefix of the client's file: no byte is lost,    *)
(* repeated or out of place, whatever the interleaving of requests, broken *)
(* connections, interruptions and crashes.  This is what the locks are     *)
(* for: datastore.go:171, "to prevent data corruption, especially to       *)
(* ensure correct offset values and the proper order of chunks inside a    *)
(* single upload".                                                         *)
StoredPrefix ==
  \A u \in Uploads : CanOpen(u) => \A k \in 1..Len(bin[u]) : bin[u][k] = k

(* The Upload-Offset of a successful PATCH, POST or HEAD response is the   *)
(* number of bytes stored when the response is sent: a client that resumes *)
(* there loses nothing.                                                    *)
TruthfulOffset ==
  \A r \in Callers :
     pc[r] = "respond" /\ err[r] = "none" /\ ackOffset[r] # -1 =>
        CanOpen(target[r]) /\ Len(bin[target[r]]) = ackOffset[r]

(* A download is of one state of the upload: from the moment GetFile has   *)
(* read the info until http.ServeFile ends, nobody removes the file or     *)
(* appends to it, so the Content-Length is the length of what is sent.     *)
DownloadIsStable ==
  \A r \in Callers :
     pc[r] = "serve" => CanOpen(target[r]) /\ Len(bin[target[r]]) = upload[r].offset

(* The pre-finish hook is called at most once per upload                   *)
(* (docs/_advanced-topics/hooks.md:443), by finishUploadIfComplete.        *)
FinishedOnce == \A u \in Uploads : preFinish[u] <= 1

(* A terminated upload never comes back: no write, no rewrite of `.info`   *)
(* by a request that was under way recreates its data.                     *)
GoneForGood ==
  [][\A u \in created : bin[u] = NoFile => bin'[u] = NoFile]_vars

Stored(u) == Readable(u) /\ ~info[u].deferred /\ Len(bin[u]) = info[u].size

(* "Once an upload is finished and all data has been saved by the data     *)
(* store [...] the `pre-finish` hook is invoked" (hooks.md:430), also if   *)
(* the last chunk came on a connection that broke or was interrupted.  The *)
(* process does not die in this run.  Two requests break the promise: the  *)
(* PATCH that declares the offset as the length and also carries bytes,    *)
(* for which writeChunk returns before finishUploadIfComplete, while every *)
(* later PATCH finds a completed upload; and the POST of an empty upload   *)
(* that does not get the lock.  No other upload is left unannounced.       *)
AnnouncedUnlessAbandoned ==
  \A u \in Uploads : Stored(u) ~> preFinish[u] > 0 \/ u \in abandoned

(* Every request that begins ends and gives its lock back. *)
RequestsEnd ==
  \A r \in Callers :
     pc[r] # "idle" ~> pc[r] \in {"done", "dead"} /\ phase[r] # "held"

Locked ==
  {"fetch", "declare", "writeInfo", "write", "copy", "wrote", "serve", "removeBin", "removeInfo"}

(* No two requests are in the store with the same upload at the same time. *)
(* A POST creates the files without the lock, while nobody else can know   *)
(* the upload.  Everybody else keeps the lock until it is done: none that  *)
(* gives up waiting, is interrupted or ends takes it away from the one     *)
(* that works (lockUpload and the deferred Unlock).  The modules of the    *)
(* stores take one request at a time for granted.                          *)
OneWorker ==
  \A r \in Callers : pc[r] \in Locked \cup {"newInfo"} =>
     /\ pc[r] \in Locked => owner[target[r]] = r
     /\ \A s \in Callers \ {r} : target[s] = target[r] => pc[s] \notin Locked \cup {"newInfo"}

(* Type correctness rests on the locks: a request that appends to a file   *)
(* opened it before, and nobody else has removed it since.  Whoever works  *)
(* on the files of a published upload holds its lock.                      *)

WorkersHoldLock ==
  \A r \in Callers :
     /\ pc[r] \in Locked => phase[r] = "held"
     /\ pc[r] = "finish" /\ input[r].complete => phase[r] = "held"
     /\ pc[r] \in {"newInfo", "created"} => IsPost(r)

OpenFilesStay == \A r \in Callers : pc[r] = "copy" => CanOpen(target[r])

IInv == TypeOK /\ HoldersRecorded /\ WorkersHoldLock /\ OpenFilesStay

(* The refinement of the upload resource.  `.info` is empty for a moment   *)
(* while the length is being declared.                                     *)
stateOf(u) == IF u \notin created THEN "none" ELSE IF bin[u] = NoFile THEN "gone" ELSE "open"

Known(u) == stateOf(u) = "open" /\ info[u] # Truncated /\ ~info[u].deferred

Resource == INSTANCE UploadResource WITH
  state    <- [u \in Uploads |-> stateOf(u)],
  data     <- [u \in Uploads |-> IF stateOf(u) = "open" THEN bin[u] ELSE <<>>],
  size     <- [u \in Uploads |-> IF Known(u) THEN info[u].size ELSE 0],
  deferred <- [u \in Uploads |-> ~Known(u)],
  finished <- {u \in Uploads : preFinish[u] > 0}

(* The handler, a Locker and the file store implement the upload resource. *)
ImplementsUploadResource == Resource!ResourceSpec
=============================================================================
