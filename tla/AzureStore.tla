----------------------------- MODULE AzureStore -----------------------------
(***************************************************************************)
(* pkg/azurestore: one upload, kept as the blob `<id>.info` and the block  *)
(* blob `<id>`.  Every WriteChunk stages one block; FinishUpload commits   *)
(* the list of blocks, and Azure forgets the staged blocks that are not in *)
(* the list.  The key may hold the committed blob of an earlier upload,    *)
(* which is why NewUpload stages a sentinel block: an upload without any   *)
(* staged block counts as finished.                                        *)
(*                                                                         *)
(* The handler holds the upload's lock: requests run one at a time.  Every *)
(* call of Azure is a step, after which the request may fail or the        *)
(* process may die.                                                        *)
(***************************************************************************)
EXTENDS Integers, Sequences, FiniteSets, SequencesExt

CONSTANTS MaxFile,                 \* the bound of the client's file
          MaxBlocks,               \* the bound of the number of blocks
          MaxBlockBlobChunkSize,
          Requests,                \* the special requests: see AllRequests
          Fails,                   \* calls may fail
          NoBlob

(* A request of the IETF draft that completes an upload of unknown length; *)
(* a PATCH whose Upload-Length is the offset already reached.              *)
AllRequests == {"draft", "declareOffset"}

ASSUME AzureAssumption ==
  /\ MaxFile \in Nat /\ MaxBlocks \in Nat \ {0} /\ MaxBlockBlobChunkSize \in Nat
  /\ Requests \subseteq AllRequests
  /\ Fails \in BOOLEAN
  /\ NoBlob \notin Seq(Nat) /\ NoBlob \notin [size: Nat, deferred: BOOLEAN]

Indexes == 0..(MaxBlocks - 1)

VARIABLES info,         \* `.info`
          staged,       \* uncommitted blocks by index
          sentinel,     \* the sentinel block is staged
          committed,    \* the committed list of blocks, each with its index
          exists,       \* there is a committed blob
          pc,           \* the step of the request that holds the lock
          upload,       \* its AzUpload: the FileInfo and Indexes of the BlockBlob
          sends, declared, completes,   \* what the request says
          err,          \* WriteChunk has failed
          file,         \* the length of the client's file
          published,    \* the client knows the upload
          gone,         \* history: a termination has begun
          finished      \* history: this upload has been committed

blobVars == <<info, staged, sentinel, committed, exists>>
reqVars == <<upload, sends, declared, completes, err>>
histVars == <<file, published, gone, finished>>
vars == <<blobVars, pc, reqVars, histVars>>

Bytes(from, n) == [k \in 1..n |-> from + k]
NoBlocks == [i \in Indexes |-> NoBlob]
NoUpload == [size |-> 0, deferred |-> FALSE, offset |-> 0, indexes |-> <<>>]

(* The indexes of the staged blocks in ascending order: each one stands    *)
(* behind those that are smaller.                                          *)
StagedIndexes == {i \in Indexes : staged[i] # NoBlob}
Sorted ==
  [k \in 1..Cardinality(StagedIndexes) |->
     CHOOSE i \in StagedIndexes : Cardinality({j \in StagedIndexes : j < i}) = k - 1]

(* Lists of blocks by their indexes; the data of a list. *)
Blocks(list, block) == [k \in 1..Len(list) |-> [index |-> list[k], bytes |-> block[list[k]]]]
Staged == Blocks(Sorted, staged)
Data(blocks) == FlattenSeq([k \in 1..Len(blocks) |-> blocks[k].bytes])

(* The blob of an earlier upload with the same key. *)
OldBlob == <<[index |-> 0, bytes |-> <<0, 0>>]>>

(* Mutant: without the sort, as Azure lists the blocks by their names. *)
GetUploadUnsorted ==
  [size |-> info.size, deferred |-> info.deferred,
   offset  |-> Len(Data(IF ~sentinel /\ staged = NoBlocks THEN committed ELSE Staged)),
   indexes |-> Reverse(Sorted)]

(* GetUpload with GetOffset: without staged blocks the upload is finished  *)
(* and the committed blocks count; else the staged ones do.                *)
GetUpload ==
  [size |-> info.size, deferred |-> info.deferred,
   offset  |-> Len(Data(IF ~sentinel /\ staged = NoBlocks THEN committed ELSE Staged)),
   indexes |-> Sorted]

Complete(i) == ~i.deferred /\ i.offset = i.size

Init ==
  /\ info = NoBlob /\ staged = NoBlocks /\ sentinel = FALSE
  /\ \/ exists = FALSE /\ committed = <<>>
     \/ exists = TRUE /\ committed = OldBlob
  /\ pc = "idle" /\ upload = NoUpload
  /\ sends = 0 /\ declared = -1 /\ completes = FALSE /\ err = FALSE
  /\ file = 0 /\ published = FALSE /\ gone = FALSE /\ finished = FALSE

(* The request ends. *)
Respond ==
  /\ pc' = "idle" /\ upload' = NoUpload
  /\ sends' = 0 /\ declared' = -1 /\ completes' = FALSE /\ err' = FALSE

-----------------------------------------------------------------------------

(* POST: writeInfo ... *)
NewUpload ==
  /\ pc = "idle" /\ info = NoBlob /\ ~gone
  /\ file' \in 0..MaxFile
  /\ \E deferred \in BOOLEAN :
       /\ info' = [size |-> IF deferred THEN 0 ELSE file', deferred |-> deferred]
       /\ upload' = [NoUpload EXCEPT !.size = info'.size, !.deferred = deferred]
       /\ sends' \in 0..file'
       /\ completes' \in {FALSE, deferred /\ sends' = file' /\ "draft" \in Requests}
  /\ pc' = "sentinel"
  /\ UNCHANGED <<staged, sentinel, committed, exists, declared, err, published, gone, finished>>

(* Mutant: no sentinel. *)
NoSentinelBlock ==
  /\ pc = "sentinel"
  /\ published' = TRUE
  /\ pc' = IF sends > 0 THEN "write" ELSE "finish"
  /\ UNCHANGED <<blobVars, reqVars, file, gone, finished>>

(* ... and the sentinel block; data may follow. *)
StageSentinelBlock ==
  /\ pc = "sentinel"
  /\ sentinel' = TRUE
  /\ published' = TRUE
  /\ pc' = IF sends > 0 THEN "write" ELSE "finish"
  /\ UNCHANGED <<info, staged, committed, exists, reqVars, file, gone, finished>>

(* PATCH up to writeChunk.  (MaxBlocks is a bound of the model.) *)
Patch ==
  LET i == GetUpload
  IN  /\ pc = "idle" /\ published /\ info # NoBlob /\ ~Complete(i)
      /\ staged[MaxBlocks - 1] = NoBlob
      /\ upload' = i
      /\ sends' \in {n \in 0..file : n = 0 \/ i.offset + n <= file}
      /\ completes' \in {FALSE, i.deferred /\ i.offset + sends' = file /\ "draft" \in Requests}
      /\ declared' \in {-1} \cup {len \in {file} :
            /\ i.deferred /\ i.offset <= len /\ ~completes'
            /\ i.offset = len => "declareOffset" \in Requests}
      /\ pc' = IF declared' = -1 THEN "write" ELSE "declare"
      /\ UNCHANGED <<blobVars, err, histVars>>

(* DeclareLength, before the data or after it. *)
DeclareLength ==
  /\ pc \in {"declare", "declareLast"}
  /\ info' = [size |-> declared, deferred |-> FALSE]
  /\ upload' = [upload EXCEPT !.size = declared, !.deferred = FALSE]
  /\ pc' = IF pc = "declare" THEN "write" ELSE "finish"
  /\ UNCHANGED <<staged, sentinel, committed, exists, sends, declared, completes, err, histVars>>

NextIndex == IF upload.indexes = <<>> THEN 0 ELSE upload.indexes[Len(upload.indexes)] + 1

(* Mutant: the new index is not added to the list. *)
UploadForgotten ==
  /\ pc = "write"
  /\ sends \in 1..MaxBlockBlobChunkSize
  /\ staged' = [staged EXCEPT ![NextIndex] = Bytes(upload.offset, sends)]
  /\ upload' = [upload EXCEPT !.offset = @ + sends]
  /\ pc' = "finish"
  /\ UNCHANGED <<info, sentinel, committed, exists, sends, declared, completes, err, histVars>>

(* WriteChunk and Upload: one block after the last one.  Azure does not    *)
(* take an empty block.                                                    *)
WriteChunk ==
  /\ pc = "write"
  /\ sends \in 1..MaxBlockBlobChunkSize
  /\ staged' = [staged EXCEPT ![NextIndex] = Bytes(upload.offset, sends)]
  /\ upload' = [upload EXCEPT !.offset = @ + sends, !.indexes = Append(@, NextIndex)]
  /\ pc' = "finish"
  /\ UNCHANGED <<info, sentinel, committed, exists, sends, declared, completes, err, histVars>>

(* Nothing counts if it fails: the chunk is too large or the temporary     *)
(* file fails, or else Upload does, which has put the index into the list. *)
WriteChunkFails ==
  /\ pc = "write"
  /\ \/ /\ sends > MaxBlockBlobChunkSize \/ Fails
        /\ UNCHANGED <<staged, upload>>
     \/ /\ sends <= MaxBlockBlobChunkSize
        /\ upload' = [upload EXCEPT !.indexes = Append(@, NextIndex)]
        /\ \/ (sends = 0 \/ Fails) /\ UNCHANGED staged
           \/ sends > 0 /\ Fails /\ staged' = [staged EXCEPT ![NextIndex] = Bytes(upload.offset, sends)]
  /\ err' = TRUE
  /\ pc' = "finish"
  /\ UNCHANGED <<info, sentinel, committed, exists, sends, declared, completes, histVars>>

-----------------------------------------------------------------------------

(* finishUploadIfComplete of the handler. *)
finishUploadIfComplete ==
  /\ pc = "finish"
  /\ \/ /\ Complete(upload)
        /\ pc' = "commit"
        /\ UNCHANGED reqVars
     \/ /\ ~Complete(upload) /\ completes /\ ~err
        /\ declared' = upload.offset
        /\ pc' = "declareLast"
        /\ UNCHANGED <<upload, sends, completes, err>>
     \/ /\ ~Complete(upload) /\ ~(completes /\ ~err)
        /\ Respond
  /\ UNCHANGED <<blobVars, histVars>>

(* CommitBlockList takes for each index the staged block or else the       *)
(* committed one.                                                          *)
Latest ==
  [i \in Indexes |->
     IF staged[i] # NoBlob THEN staged[i]
     ELSE IF \E block \in Range(committed) : block.index = i
          THEN (CHOOSE block \in Range(committed) : block.index = i).bytes ELSE NoBlob]

Valid == \A i \in Range(upload.indexes) : Latest[i] # NoBlob

(* The blocks are put together in the order of the list. *)
Commit ==
  /\ pc = "commit"
  /\ \/ /\ Valid
        /\ committed' = Blocks(upload.indexes, Latest)
        /\ staged' = NoBlocks /\ sentinel' = FALSE
        /\ exists' = TRUE /\ finished' = TRUE
     \/ /\ ~Valid
        /\ UNCHANGED <<staged, sentinel, committed, exists, finished>>
  /\ Respond
  /\ UNCHANGED <<info, file, published, gone>>

(* DELETE: Terminate deletes the info blob, then the block blob.  Staged   *)
(* blocks of a blob that was never committed stay until Azure drops them,  *)
(* but nobody can reach them.                                              *)
Terminate ==
  /\ pc = "idle" /\ published /\ info # NoBlob
  /\ info' = NoBlob
  /\ gone' = TRUE
  /\ pc' = "deleteBlob"
  /\ UNCHANGED <<staged, sentinel, committed, exists, reqVars, file, published, finished>>

DeleteBlob ==
  /\ pc = "deleteBlob"
  /\ committed' = <<>> /\ exists' = FALSE
  /\ IF exists THEN staged' = NoBlocks /\ sentinel' = FALSE ELSE UNCHANGED <<staged, sentinel>>
  /\ Respond
  /\ UNCHANGED <<info, histVars>>

(* A call fails, or the process dies. *)
RequestFails ==
  /\ Fails
  /\ pc # "idle"
  /\ Respond
  /\ UNCHANGED <<blobVars, histVars>>

Next ==
  \/ NewUpload \/ StageSentinelBlock \/ Patch \/ DeclareLength \/ WriteChunk \/ WriteChunkFails
  \/ finishUploadIfComplete \/ Commit \/ Terminate \/ DeleteBlob \/ RequestFails

Spec == Init /\ [][Next]_vars

-----------------------------------------------------------------------------

TypeOK ==
  /\ info \in [size: Nat, deferred: BOOLEAN] \cup {NoBlob}
  /\ staged \in [Indexes -> Seq(Nat) \cup {NoBlob}]
  /\ committed \in Seq([index: Indexes, bytes: Seq(Nat)])
  /\ sentinel \in BOOLEAN /\ exists \in BOOLEAN
  /\ pc \in {"idle", "sentinel", "declare", "declareLast", "write", "finish", "commit", "deleteBlob"}
  /\ upload \in [size: 0..MaxFile, deferred: BOOLEAN, offset: 0..file, indexes: Seq(Indexes)]
  /\ sends \in Nat /\ declared \in Nat \cup {-1} /\ completes \in BOOLEAN /\ err \in BOOLEAN
  /\ file \in 0..MaxFile
  /\ published \in BOOLEAN /\ gone \in BOOLEAN /\ finished \in BOOLEAN

(* The blob of a finished upload is the client's file, whichever blocks    *)
(* failed and were staged again, and whatever the key held before.         *)
BlobIsFile == finished /\ exists => Data(committed) = Bytes(0, file)

(* The offset that GetUpload reports is the number of bytes of this upload *)
(* that are stored: 0 for a new one even if the key holds a committed blob *)
(* (azureservice.go:241), all of them for a finished one.                  *)
TruthfulOffset ==
  pc = "idle" /\ published /\ info # NoBlob =>
    GetUpload.offset = Len(Data(IF finished THEN committed ELSE Staged))

phaseOf ==
  CASE info = NoBlob /\ ~gone -> "none"
    [] gone                   -> "gone"
    [] OTHER                  -> IF finished THEN "finished" ELSE "open"

dataOf ==
  CASE phaseOf = "open"     -> Data(Staged)
    [] phaseOf = "finished" -> Data(committed)
    [] OTHER                -> <<>>

Store == INSTANCE UploadStore WITH phase <- phaseOf, data <- dataOf

(* The Azure store keeps the promise of a data store. *)
ImplementsUploadStore == Store!StoreSpec
=============================================================================
