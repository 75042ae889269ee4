------------------------------ MODULE S3Store -------------------------------
(***************************************************************************)
(* pkg/s3store: one upload, kept as an S3 multipart upload with its parts, *)
(* the object `<id>.part` with the data that is too short for a part, and  *)
(* the object `<id>.info`.  The finished file is the object `<id>`.        *)
(*                                                                         *)
(* The handler holds the upload's lock, so requests run one at a time; in  *)
(* a request the uploads of the parts run concurrently, and every call of  *)
(* S3 may fail before or after it had its effect.  The bytes of the        *)
(* client's file are called 1, 2, 3, ...; a request sends the bytes that   *)
(* follow the offset the store reports.                                    *)
(***************************************************************************)
EXTENDS Integers, Sequences, SequencesExt

CONSTANTS MinPartSize, PreferredPartSize, MaxPartSize, MaxMultipartParts,
          MaxObjectSize,          \* the bound of the client's file
          ConcurrentPartUploads,  \* SetConcurrentPartUploads
          Requests,               \* the special requests: see AllRequests
          Faults,                 \* what may go wrong: see AllFaults
          NoObject                \* the object, part or ETag does not exist

(* A request of the IETF draft that completes an upload of unknown length, *)
(* also if its data ends with a chunk that is too short for a part; a      *)
(* PATCH whose Upload-Length is the offset already reached.                *)
AllRequests == {"draft", "draftTail", "declareOffset"}

(* A call of S3 fails; the part producer cannot store a part or is         *)
(* cancelled; the process dies.                                            *)
AllFaults == {"call", "producer", "crash"}

ASSUME PartSizeAssumption ==
  /\ MinPartSize \in Nat \ {0} /\ PreferredPartSize \in Nat /\ MaxPartSize \in Nat
  /\ MinPartSize <= PreferredPartSize /\ PreferredPartSize <= MaxPartSize
  /\ MaxMultipartParts \in Nat \ {0}
  /\ MaxObjectSize \in Nat

ASSUME S3Assumption ==
  /\ ConcurrentPartUploads \in Nat \ {0}
  /\ Requests \subseteq AllRequests /\ Faults \subseteq AllFaults
  /\ NoObject \notin Seq(Nat)

VARIABLES
  \* the bucket
  mpu,            \* the multipart upload: "none", "open", "completed" or "aborted"
  parts,          \* its parts by number
  tail,           \* `.part`
  info,           \* `.info`
  object,         \* the object
  \* the request that holds the lock
  pc,
  upload,         \* its s3Upload, with the FileInfo
  declared,       \* the length that DeclareLength is about to write; -1: none
  completes,      \* the request completes an upload of unknown length (IETF draft)
  src,            \* the data that has not been cut into parts yet
  taken,          \* incompletePartSize of WriteChunk: bytes of `.part` put in front of src
  bytesUploaded,
  inflight,       \* the goroutines of the errgroup
  err,            \* "none", "store" or "producer"
  \* the process
  slots,          \* uploadSemaphore: how many slots are taken
  others,         \* slots taken by requests for other uploads
  file,           \* the length of the client's file
  acked,          \* history: the offset of the last successful response
  succeeded,      \* history: the last request ended with a successful response
  behindHole      \* history: a request began while bytes before the offset were missing

bucketVars == <<mpu, parts, tail, info, object>>
reqVars == <<upload, declared, completes>>
chunkVars == <<src, taken, bytesUploaded, inflight, err>>
semVars == <<slots, others>>
histVars == <<file, acked, succeeded, behindHole>>
vars == <<bucketVars, pc, reqVars, chunkVars, semVars, histVars>>

PartNumbers == 1..MaxMultipartParts
NoParts == [n \in PartNumbers |-> NoObject]

Bytes(offset, n) == [k \in 1..n |-> offset + k]

IsStart(bytes) == bytes = Bytes(0, Len(bytes))

(* listAllParts: the parts in the order of their numbers; an ETag is the   *)
(* part's content.                                                         *)
listed[n \in 0..MaxMultipartParts] ==
  IF n = 0 THEN <<>>
  ELSE IF parts[n] = NoObject THEN listed[n - 1]
  ELSE Append(listed[n - 1], [number |-> n, etag |-> parts[n]])

listAllParts == listed[MaxMultipartParts]

Content(list) == FlattenSeq([i \in 1..Len(list) |-> list[i].etag])

(* The bytes in the bucket, in the order of the parts, `.part` last. *)
Tail0 == IF tail = NoObject THEN <<>> ELSE tail
Stored == Content(listAllParts) \o Tail0

(* fetchInfo: the offset is the number of bytes in the parts and in        *)
(* `.part`; if the multipart upload is gone, it must have been completed.  *)
fetchInfo ==
  IF mpu = "open"
  THEN [size |-> info.size, deferred |-> info.deferred, offset |-> Len(Stored),
        parts |-> listAllParts, tailSize |-> Len(Tail0)]
  ELSE [size |-> info.size, deferred |-> info.deferred, offset |-> info.size,
        parts |-> <<>>, tailSize |-> Len(Tail0)]

NoUpload == [size |-> 0, deferred |-> FALSE, offset |-> 0, parts |-> <<>>, tailSize |-> 0]

Complete(i) == ~i.deferred /\ i.offset = i.size

(* Mutant: the division is rounded down. *)
partSizeRoundedDown(size) ==
  IF size <= PreferredPartSize * MaxMultipartParts
  THEN PreferredPartSize ELSE size \div MaxMultipartParts

calcOptimalPartSize(size) ==
  CASE size <= PreferredPartSize * MaxMultipartParts -> PreferredPartSize
    [] size > PreferredPartSize * MaxMultipartParts /\ size % MaxMultipartParts = 0
         -> size \div MaxMultipartParts
    [] OTHER -> (size \div MaxMultipartParts) + 1

Init ==
  /\ mpu = "none" /\ parts = NoParts
  /\ tail = NoObject /\ info = NoObject /\ object = NoObject
  /\ pc = "idle"
  /\ upload = NoUpload /\ declared = -1 /\ completes = FALSE
  /\ src = <<>> /\ taken = 0 /\ bytesUploaded = 0 /\ inflight = {} /\ err = "none"
  /\ slots = 0 /\ others = 0
  /\ file = 0 /\ acked = 0 /\ succeeded = FALSE /\ behindHole = FALSE

(* The request ends: sendResp or sendError, and Unlock. *)
Respond(ok) ==
  /\ pc' = "idle"
  /\ UNCHANGED <<file, behindHole>>
  /\ acked' = IF ok THEN upload.offset ELSE acked
  /\ succeeded' = ok
  /\ upload' = NoUpload /\ declared' = -1 /\ completes' = FALSE
  /\ src' = <<>> /\ taken' = 0 /\ bytesUploaded' = 0 /\ inflight' = {} /\ err' = "none"

(* n bytes, cut into parts, leave a rest that is no part. *)
ShortRest(n) == n % PreferredPartSize \in 1..(MinPartSize - 1)

MayComplete(n) == "draft" \in Requests /\ (ShortRest(n) => "draftTail" \in Requests)

-----------------------------------------------------------------------------
(* NewUpload and DeclareLength. *)

(* A POST with Upload-Length or with Upload-Defer-Length, and maybe data:  *)
(* CreateMultipartUpload.  The ID is a fresh one.                          *)
NewUpload ==
  /\ pc = "idle" /\ info = NoObject
  /\ file' \in 0..MaxObjectSize
  /\ \E deferred \in BOOLEAN, n \in 0..file' :
       /\ upload' = [NoUpload EXCEPT !.size = IF deferred THEN 0 ELSE file', !.deferred = deferred]
       /\ src' = Bytes(0, n)
       /\ completes' \in {FALSE, deferred /\ n = file' /\ MayComplete(n)}
  /\ mpu' = "open" /\ parts' = NoParts /\ tail' = NoObject /\ object' = NoObject
  /\ acked' = 0 /\ succeeded' = FALSE /\ behindHole' = FALSE
  /\ pc' = "newInfo"
  /\ UNCHANGED <<info, declared, taken, bytesUploaded, inflight, err, semVars>>

(* writeInfo, for the new upload ... *)
CreateInfo ==
  /\ pc = "newInfo"
  /\ info' = [size |-> upload.size, deferred |-> upload.deferred]
  /\ pc' = "write"
  /\ UNCHANGED <<mpu, parts, tail, object, reqVars, chunkVars, semVars, histVars>>

(* ... and for a length that is declared, before the data or after it. *)
DeclareLength ==
  /\ pc \in {"declare", "declareLast"}
  /\ info' = [size |-> declared, deferred |-> FALSE]
  /\ upload' = [upload EXCEPT !.size = declared, !.deferred = FALSE]
  /\ pc' = IF pc = "declare" THEN "write" ELSE "finish"
  /\ UNCHANGED <<mpu, parts, tail, object, declared, completes, chunkVars, semVars, histVars>>

WriteInfoFails ==
  /\ "call" \in Faults
  /\ pc \in {"newInfo", "declare", "declareLast"}
  /\ info' \in {info, [size     |-> IF pc = "newInfo" THEN upload.size ELSE declared,
                       deferred |-> pc = "newInfo" /\ upload.deferred]}
  /\ Respond(FALSE)
  /\ UNCHANGED <<mpu, parts, tail, object, semVars>>

-----------------------------------------------------------------------------
(* PATCH and WriteChunk. *)

(* PatchFile up to writeChunk.  A completed upload is not written to.  The *)
(* client sends what it has got, and may declare the length of its file.   *)
Patch ==
  LET i == fetchInfo
  IN  /\ pc = "idle" /\ info # NoObject /\ ~Complete(i)
      /\ upload' = i
      /\ behindHole' = (behindHole \/ ~IsStart(Stored))
      /\ \E n \in 0..file :
           /\ n = 0 \/ i.offset + n <= file
           /\ src' = Bytes(i.offset, n)
           /\ completes' \in {FALSE, i.deferred /\ i.offset + n = file /\ MayComplete(i.tailSize + n)}
      /\ declared' \in {-1} \cup {len \in {file} :
            /\ i.deferred /\ i.offset <= len /\ ~completes'
            /\ i.offset = len => "declareOffset" \in Requests}
      /\ pc' = IF declared' = -1 THEN "write" ELSE "declare"
      /\ UNCHANGED <<bucketVars, taken, bytesUploaded, inflight, err, semVars, file, acked, succeeded>>

(* Mutant: the bytes of `.part` are counted once more. *)
takeTailTwice ==
  /\ pc = "write"
  /\ src' = Tail0 \o src
  /\ tail' = NoObject
  /\ pc' = "acquire"
  /\ UNCHANGED <<mpu, parts, info, object, reqVars, taken, bytesUploaded, inflight, err, semVars, histVars>>

(* WriteChunk: `.part` is downloaded, deleted and put in front of the data.*)
WriteChunk ==
  /\ pc = "write"
  /\ src' = Tail0 \o src
  /\ taken' = upload.tailSize
  /\ tail' = NoObject
  /\ IF calcOptimalPartSize(upload.size) <= MaxPartSize
     THEN pc' = "acquire" /\ UNCHANGED err
     ELSE pc' = "finish" /\ err' = "store"
  /\ UNCHANGED <<mpu, parts, info, object, reqVars, bytesUploaded, inflight, semVars, histVars>>

(* `.part` cannot be downloaded, or its deletion fails. *)
WriteChunkFails ==
  /\ "call" \in Faults
  /\ pc = "write" /\ upload.tailSize > 0
  /\ tail' \in {tail, NoObject}
  /\ err' = "store"
  /\ pc' = "finish"
  /\ UNCHANGED <<mpu, parts, info, object, reqVars, src, taken, bytesUploaded, inflight, semVars, histVars>>

(* uploadParts: a slot of the semaphore, then the next part. *)
Acquire ==
  /\ pc = "acquire"
  /\ slots < ConcurrentPartUploads
  /\ slots' = slots + 1
  /\ pc' = "receive"
  /\ UNCHANGED <<bucketVars, reqVars, chunkVars, others, histVars>>

(* nextPart: at most optimalPartSize bytes of the stream. *)
nextPart ==
  LET n == calcOptimalPartSize(upload.size)
  IN  IF Len(src) <= n THEN src ELSE SubSeq(src, 1, n)

(* Mutant: without the bytes already uploaded by this request. *)
isFinalChunkOfRequest ==
  ~upload.deferred /\ upload.size = upload.offset - taken + Len(nextPart)

isFinalChunk ==
  ~upload.deferred /\ upload.size = upload.offset - taken + bytesUploaded + Len(nextPart)

(* Mutant: every chunk is a part. *)
AnyChunkIsPart == TRUE

(* A chunk that is too short is only a part if it ends the file. *)
PartWorthy == Len(nextPart) >= MinPartSize \/ isFinalChunk

ReceivePart ==
  /\ pc = "receive" /\ src # <<>>
  /\ LET part == [index  |-> IF PartWorthy THEN Len(upload.parts) + 1 ELSE 0,
                  number |-> Len(upload.parts) + 1, bytes |-> nextPart]
     IN  /\ inflight' = inflight \cup {part}
         /\ upload' = IF PartWorthy
                      THEN [upload EXCEPT !.parts = Append(@, [number |-> part.number, etag |-> NoObject])]
                      ELSE upload
  /\ bytesUploaded' = bytesUploaded + Len(nextPart)
  /\ src' = SubSeq(src, Len(nextPart) + 1, Len(src))
  /\ pc' = "acquire"
  /\ UNCHANGED <<bucketVars, declared, completes, taken, err, semVars, histVars>>

(* Mutant: the slot is kept when the producer is done. *)
ReceiveEndKeepsSlot ==
  /\ pc = "receive" /\ src = <<>>
  /\ pc' = "wait"
  /\ UNCHANGED <<bucketVars, reqVars, chunkVars, semVars, histVars>>

ReceiveEnd ==
  /\ pc = "receive" /\ src = <<>>
  /\ slots' = slots - 1
  /\ pc' = "wait"
  /\ UNCHANGED <<bucketVars, reqVars, chunkVars, others, histVars>>

(* produce stops early: a temporary file cannot be written, or the context *)
(* is cancelled (the body has an error then, or the client is gone).  The  *)
(* rest of the data is dropped.                                            *)
ProducerStops ==
  /\ "producer" \in Faults
  /\ pc \in {"acquire", "receive"} /\ src # <<>>
  /\ src' = <<>>
  /\ err' = IF err = "none" THEN "producer" ELSE err
  /\ UNCHANGED <<bucketVars, pc, reqVars, taken, bytesUploaded, inflight, semVars, histVars>>

(* What goroutines put into the bucket; S3 refuses large part numbers and  *)
(* parts of a multipart upload that is gone.                               *)
Accepted(p) == p.index = 0 \/ (mpu = "open" /\ p.number \in PartNumbers)

Put(P) ==
  /\ parts' = [n \in PartNumbers |->
                 IF \E p \in P : p.index > 0 /\ p.number = n
                 THEN (CHOOSE p \in P : p.index > 0 /\ p.number = n).bytes ELSE parts[n]]
  /\ tail' = IF \E p \in P : p.index = 0 THEN (CHOOSE p \in P : p.index = 0).bytes ELSE tail

(* A goroutine succeeds: the part has its ETag, or `.part` its size. *)
PartUploaded(p) ==
  /\ Accepted(p)
  /\ Put({p})
  /\ inflight' = inflight \ {p}
  /\ slots' = slots - 1
  /\ upload' = IF p.index > 0 THEN [upload EXCEPT !.parts[p.index].etag = p.bytes]
                              ELSE [upload EXCEPT !.tailSize = Len(p.bytes)]
  /\ UNCHANGED <<mpu, info, object, pc, declared, completes, src, taken, bytesUploaded, err, others, histVars>>

(* Mutants: a failed upload of a part goes unnoticed, or keeps its slot. *)
PartFailsQuietly(p) ==
  /\ "call" \in Faults \/ ~Accepted(p)
  /\ \/ UNCHANGED <<parts, tail>>
     \/ Accepted(p) /\ Put({p})
  /\ inflight' = inflight \ {p}
  /\ slots' = slots - 1
  /\ UNCHANGED <<mpu, info, object, pc, reqVars, src, taken, bytesUploaded, err, others, histVars>>

PartFailsKeepsSlot(p) ==
  /\ "call" \in Faults \/ ~Accepted(p)
  /\ UNCHANGED <<parts, tail>>
  /\ inflight' = inflight \ {p}
  /\ err' = "store"
  /\ UNCHANGED <<mpu, info, object, pc, reqVars, src, taken, bytesUploaded, slots, others, histVars>>

(* It fails, before or after S3 has stored the data; the others go on. *)
PartFails(p) ==
  /\ "call" \in Faults \/ ~Accepted(p)
  /\ \/ UNCHANGED <<parts, tail>>
     \/ Accepted(p) /\ Put({p})
  /\ inflight' = inflight \ {p}
  /\ slots' = slots - 1
  /\ err' = "store"
  /\ UNCHANGED <<mpu, info, object, pc, reqVars, src, taken, bytesUploaded, others, histVars>>

(* eg.Wait and the end of WriteChunk: the bytes of `.part` do not count,   *)
(* and nothing counts if one of the uploads failed.                        *)
ChunkWritten ==
  /\ pc = "wait" /\ inflight = {}
  /\ upload' = [upload EXCEPT !.offset =
                  @ + IF err = "store" \/ bytesUploaded < taken THEN 0 ELSE bytesUploaded - taken]
  /\ pc' = "finish"
  /\ UNCHANGED <<bucketVars, declared, completes, chunkVars, semVars, histVars>>

-----------------------------------------------------------------------------
(* finishUploadIfComplete of the handler, and FinishUpload. *)

(* The handler finishes a complete upload even after an error; otherwise   *)
(* a request of the draft may now declare the offset reached as length.    *)
finishUploadIfComplete ==
  /\ pc = "finish"
  /\ \/ /\ Complete(upload)
        /\ pc' = IF upload.parts = <<>> THEN "emptyPart" ELSE "complete"
        /\ UNCHANGED <<reqVars, chunkVars, histVars>>
     \/ /\ ~Complete(upload) /\ completes /\ err = "none"
        /\ declared' = upload.offset
        /\ pc' = "declareLast"
        /\ UNCHANGED <<upload, completes, chunkVars, histVars>>
     \/ /\ ~Complete(upload) /\ ~(completes /\ err = "none")
        /\ Respond(err = "none")
  /\ UNCHANGED <<bucketVars, semVars>>

(* S3 wants at least one part. *)
UploadEmptyPart ==
  /\ pc = "emptyPart" /\ mpu = "open"
  /\ parts' = [parts EXCEPT ![1] = <<>>]
  /\ upload' = [upload EXCEPT !.parts = <<[number |-> 1, etag |-> <<>>]>>]
  /\ pc' = "complete"
  /\ UNCHANGED <<mpu, tail, info, object, declared, completes, chunkVars, semVars, histVars>>

(* What S3 asks of CompleteMultipartUpload: ascending numbers, ETags of    *)
(* stored parts, and no small part but the last one.                       *)
Valid(list) ==
  mpu = "open" /\ \A i \in 1..Len(list) :
    /\ list[i].number \in PartNumbers /\ list[i].etag # NoObject
    /\ parts[list[i].number] = list[i].etag
    /\ i < Len(list) => /\ list[i].number < list[i + 1].number
                        /\ Len(list[i].etag) >= MinPartSize

CompleteUpload ==
  /\ Valid(upload.parts)
  /\ object' = Content(upload.parts)
  /\ mpu' = "completed" /\ parts' = NoParts

FinishUpload ==
  /\ pc = "complete"
  /\ \/ CompleteUpload /\ Respond(err = "none")
     \/ ~Valid(upload.parts) /\ Respond(FALSE) /\ UNCHANGED <<mpu, parts, object>>
  /\ UNCHANGED <<tail, info, semVars>>

FinishUploadFails ==
  /\ "call" \in Faults \/ mpu # "open"
  /\ \/ /\ pc = "emptyPart"
        /\ parts' = parts \/ (mpu = "open" /\ parts' = [parts EXCEPT ![1] = <<>>])
        /\ UNCHANGED <<mpu, object>>
     \/ pc = "complete" /\ CompleteUpload
     \/ pc = "complete" /\ UNCHANGED <<mpu, parts, object>>
  /\ Respond(FALSE)
  /\ UNCHANGED <<tail, info, semVars>>

-----------------------------------------------------------------------------

(* DELETE: AbortMultipartUpload and DeleteObjects side by side; any of the *)
(* four deletions may fail.  Nobody looks at the bucket in between.        *)
Terminate ==
  /\ pc = "idle" /\ info # NoObject
  /\ \E failed \in SUBSET {"abort", "object", "part", "info"} :
       /\ failed # {} => "call" \in Faults
       /\ mpu' = IF mpu = "open" /\ "abort" \notin failed THEN "aborted" ELSE mpu
       /\ parts' = IF "abort" \in failed THEN parts ELSE NoParts
       /\ object' = IF "object" \in failed THEN object ELSE NoObject
       /\ tail' = IF "part" \in failed THEN tail ELSE NoObject
       /\ info' = IF "info" \in failed THEN info ELSE NoObject
  /\ acked' = 0 /\ succeeded' = FALSE
  /\ UNCHANGED <<file, behindHole, pc, reqVars, chunkVars, semVars>>

(* Requests for other uploads use the same semaphore. *)
OthersAcquire ==
  /\ slots < ConcurrentPartUploads
  /\ slots' = slots + 1 /\ others' = others + 1
  /\ UNCHANGED <<bucketVars, pc, reqVars, chunkVars, histVars>>

OthersRelease ==
  /\ others > 0
  /\ slots' = slots - 1 /\ others' = others - 1
  /\ UNCHANGED <<bucketVars, pc, reqVars, chunkVars, histVars>>

(* The process dies; some of the calls under way reach S3. *)
Crash ==
  /\ "crash" \in Faults
  /\ pc # "idle"
  /\ \E P \in SUBSET {p \in inflight : Accepted(p)} : Put(P)
  /\ Respond(FALSE)
  /\ slots' = 0 /\ others' = 0
  /\ UNCHANGED <<mpu, info, object>>

RequestStep ==
  \/ CreateInfo \/ DeclareLength \/ WriteChunk \/ ReceivePart \/ ReceiveEnd \/ ChunkWritten
  \/ finishUploadIfComplete \/ UploadEmptyPart \/ FinishUpload \/ FinishUploadFails

Next ==
  \/ NewUpload \/ Patch \/ Terminate \/ RequestStep \/ Acquire
  \/ WriteInfoFails \/ WriteChunkFails \/ ProducerStops
  \/ \E p \in inflight : PartUploaded(p) \/ PartFails(p)
  \/ OthersAcquire \/ OthersRelease \/ Crash

Spec == Init /\ [][Next]_vars

(* Every call of S3 returns, a read of the body returns (NetworkTimeout),  *)
(* other requests give their slots back, and a Go channel serves waiting   *)
(* senders in order, so that a slot that is free again and again is got.   *)
FairSpec ==
  /\ Spec
  /\ WF_vars(RequestStep) /\ SF_vars(Acquire)
  /\ WF_vars(\E p \in inflight : PartUploaded(p) \/ PartFails(p))
  /\ WF_vars(OthersRelease)

-----------------------------------------------------------------------------

Part == [index: Nat, number: Nat, bytes: Seq(Nat)]

TypeOK ==
  /\ mpu \in {"none", "open", "completed", "aborted"}
  /\ parts \in [PartNumbers -> Seq(Nat) \cup {NoObject}]
  /\ tail \in Seq(Nat) \cup {NoObject} /\ object \in Seq(Nat) \cup {NoObject}
  /\ info \in [size: Nat, deferred: BOOLEAN] \cup {NoObject}
  /\ pc \in {"idle", "newInfo", "declare", "declareLast", "write", "acquire", "receive",
             "wait", "finish", "emptyPart", "complete"}
  /\ upload \in [size: Nat, deferred: BOOLEAN, offset: Nat, tailSize: Nat,
                 parts: Seq([number: Nat, etag: Seq(Nat) \cup {NoObject}])]
  /\ declared \in Nat \cup {-1} /\ completes \in BOOLEAN
  /\ src \in Seq(Nat) /\ taken \in Nat /\ bytesUploaded \in Nat
  /\ inflight \subseteq Part
  /\ err \in {"none", "store", "producer"}
  /\ slots \in 0..ConcurrentPartUploads /\ others \in 0..slots
  /\ file \in 0..MaxObjectSize /\ acked \in Nat /\ succeeded \in BOOLEAN /\ behindHole \in BOOLEAN

(* The finished object is the client's file: every byte once, in order,    *)
(* and all of them, whatever parts failed or were uploaded again.          *)
(* docs/_storage-backends/aws-s3.md:73, "A file object will contain the    *)
(* uploaded file."                                                         *)
ObjectIsFile ==
  object # NoObject =>
    /\ object = Bytes(0, file)
    /\ info # NoObject => ~info.deferred /\ info.size = file

(* The object is the client's file unless the upload was resumed behind a  *)
(* hole: crashes, failed calls, parts uploaded twice and a lost `.part` do *)
(* not spoil it.  The requests that leave bytes in `.part` for good, draft *)
(* tails (S3Store_tail) and lengths declared late, are not in Requests.    *)
ObjectIsFileUnlessHole == behindHole \/ ObjectIsFile

Open == pc = "idle" /\ info # NoObject /\ mpu = "open"

(* After a successful response the bucket holds exactly the bytes that the *)
(* Upload-Offset of the response counts, in the right places, although the *)
(* parts of the request were uploaded in any order.                        *)
TruthfulOffset ==
  Open /\ succeeded /\ ~behindHole => IsStart(Stored) /\ acked = Len(Stored)

(* What a successful response has acknowledged stays in the bucket, but    *)
(* for less than MinPartSize bytes: WriteChunk deletes `.part` before its  *)
(* bytes are stored again, and the request may fail.                       *)
AckedBytesStay ==
  Open /\ ~behindHole =>
    \E n \in 0..Len(Stored) : IsStart(SubSeq(Stored, 1, n)) /\ acked < n + MinPartSize

(* S3 never refuses FinishUpload if all the parts of the request are       *)
(* stored: their numbers ascend and none but the last one is too small.    *)
FinishAccepted ==
  pc = "complete" /\ err # "store" /\ ~behindHole => Valid(upload.parts)

(* A slot is taken for every goroutine that uploads a part and while a     *)
(* part is awaited, and for nothing else: none is lost or freed twice.     *)
SlotsBalanced ==
  slots = others + Cardinality(inflight) + (IF pc = "receive" THEN 1 ELSE 0)

(* The part size that WriteChunk computes from the length of the upload    *)
(* cuts it into no more parts than S3 allows, each of a size S3 allows if  *)
(* there is one that does: a size rounded down would leave a last part     *)
(* that S3 refuses after everything else was stored.                       *)
PartSizeFits ==
  info # NoObject =>
    LET n == calcOptimalPartSize(info.size)
    IN  /\ n * MaxMultipartParts >= info.size
        /\ n >= MinPartSize
        /\ info.size <= MaxPartSize * MaxMultipartParts => n <= MaxPartSize

(* Every request ends, also when the requests for other uploads use the    *)
(* semaphore heavily.                                                      *)
RequestsEnd == pc # "idle" ~> pc = "idle"
=============================================================================
