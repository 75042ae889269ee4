--------------------------- MODULE Concatenation ----------------------------
(***************************************************************************)
(* The concatenation extension: PostFile with `Upload-Concat: final`,      *)
(* sizeOfUploads, and ConcatUploads of the file store and of the S3 store. *)
(*                                                                         *)
(* A POST of a final upload holds no lock, neither of the uploads it reads *)
(* nor of the one it creates.  So other requests write, finish and         *)
(* terminate the partial uploads between any two of its steps, and (as the *)
(* post-create event reveals the ID) terminate the final one.  Nothing     *)
(* requires the listed uploads to be partial ones: they may be final, or   *)
(* listed twice.                                                           *)
(*                                                                         *)
(* The data of an upload is kept in pieces: what was copied from each      *)
(* listed upload, or the bytes the client has sent, of which the second    *)
(* piece is in `.part` in S3.  The k-th byte a client sends for upload u   *)
(* is <<u, k>>.                                                            *)
(***************************************************************************)
EXTENDS Integers, Sequences, SequencesExt, FiniteSets

CONSTANTS Partials, Finals,    \* the IDs of the uploads
          MaxSize,             \* the bound of a partial upload's size
          MaxList,             \* the bound of the uploads in one Upload-Concat
          MinPartSize,
          Stores,              \* the stores to check: a subset of AllStores
          Fails,               \* calls of the store may fail
          None

AllStores == {"file", "s3"}
Uploads == Partials \cup Finals

(* The bytes that clients send, and the contents of `.info`. *)
Byte == Uploads \X Nat
Infos == [size: Nat, deferred: BOOLEAN, isFinal: BOOLEAN]

ASSUME ConcatenationAssumption ==
  /\ Partials \cap Finals = {}
  /\ MaxSize \in Nat /\ MinPartSize \in Nat /\ MaxList \in Nat \ {0}
  /\ Stores \subseteq AllStores
  /\ Fails \in BOOLEAN
  /\ None \notin Infos \cup Seq(Byte) \cup Seq(Seq(Byte) \cup {None})

VARIABLES store,        \* the store in use
          info,         \* `.info`: the size and whether the upload is final
          pieces,       \* the binary file, or the open multipart upload
          object,       \* the object in S3
          todo,         \* the steps left to the request that holds the lock
          post,         \* the POST that creates a final upload
          meant,        \* history: the content an upload is meant to have
          deleted,      \* history: the final uploads a DELETE has begun for
          announced     \* history: finish events of a final upload

storeVars == <<store, info, pieces, object>>
vars == <<storeVars, todo, post, meant, deleted, announced>>

Bytes(u, from, n) == [k \in 1..n |-> <<u, from + k>>]

(* A piece that is not there yet is None. *)
Data(ps) == FlattenSeq([i \in 1..Len(ps) |-> IF ps[i] = None THEN <<>> ELSE ps[i]])

Lists(f) == UNION {[1..n -> Uploads \ {f}] : n \in 1..MaxList}

(* What GetUpload and GetInfo have read of a listed upload. *)
NothingSeen == [info |-> None, parts |-> None, incomplete |-> None]

NoPost == [pc |-> "idle", list |-> <<>>, checked |-> 0, seen |-> NothingSeen, size |-> 0,
           small |-> FALSE, copied |-> {}, err |-> FALSE, file |-> <<>>, aborts |-> FALSE]

Init ==
  /\ store \in Stores
  /\ info = [u \in Uploads |-> None]
  /\ pieces = [u \in Uploads |-> None]
  /\ object = [u \in Uploads |-> None]
  /\ todo = [u \in Uploads |-> {}]
  /\ post = [f \in Finals |-> NoPost]
  /\ meant = [u \in Uploads |-> None]
  /\ deleted = {}
  /\ announced = [f \in Finals |-> 0]

-----------------------------------------------------------------------------
(* GetUpload and GetInfo for the request that holds the lock.  A multipart *)
(* upload that is gone counts as completed.                                *)

Exists(u) == info[u] # None /\ (store = "file" => pieces[u] # None)

Offset(u) == IF pieces[u] = None THEN info[u].size ELSE Len(Data(pieces[u]))

(* The bytes in `.part`, which only S3 uses. *)
IncompletePart(u) ==
  IF store = "s3" /\ u \in Partials /\ pieces[u] # None THEN Len(pieces[u][2]) ELSE 0

(* What the store has under the ID for another request to read. *)
Source(u) == CASE store = "s3"                           -> object[u]
               [] store = "file" /\ pieces[u] # None     -> Data(pieces[u])
               [] OTHER                                  -> None

-----------------------------------------------------------------------------
(* The requests for one upload, which hold its lock.                       *)

(* POST of a partial upload.  An empty one is finished at once; the length *)
(* may be deferred.                                                        *)
PostPartial(p) ==
  /\ meant[p] = None
  /\ \E n \in 0..MaxSize, deferred \in BOOLEAN :
       /\ meant' = [meant EXCEPT ![p] = Bytes(p, 0, n)]
       /\ info' = [info EXCEPT ![p] = [size |-> IF deferred THEN 0 ELSE n,
                                      deferred |-> deferred, isFinal |-> FALSE]]
       /\ todo' = [todo EXCEPT ![p] = IF n = 0 /\ ~deferred THEN {"finish"} ELSE {}]
  /\ pieces' = [pieces EXCEPT ![p] = << <<>>, <<>> >>]
  /\ UNCHANGED <<store, object, post, deleted, announced>>

(* PATCH until WriteChunk, perhaps with Upload-Length, which is declared   *)
(* before anything is written.                                             *)
Patch(u, declares) ==
  /\ todo[u] = {} /\ Exists(u)
  /\ info[u].deferred \/ Offset(u) # info[u].size
  /\ declares => info[u].deferred
  /\ info' = IF declares THEN [info EXCEPT ![u].size = Len(meant[u]), ![u].deferred = FALSE] ELSE info
  /\ todo' = [todo EXCEPT ![u] = {"write"}]
  /\ UNCHANGED <<store, pieces, object, post, meant, deleted, announced>>

(* Mutant: no check for final uploads. *)
PatchFinalToo(u) == \E declares \in BOOLEAN : Patch(u, declares)

(* A final upload must not be modified. *)
PatchFile(u) ==
  /\ Exists(u) /\ ~info[u].isFinal
  /\ \E declares \in BOOLEAN : Patch(u, declares)

(* WriteChunk of the next n bytes, of which S3 may keep fewer than a part  *)
(* in `.part`.  Nothing can be written if a failed DELETE has aborted the  *)
(* multipart upload.  Left out: the code also finishes an upload that was  *)
(* declared complete when the write of its `.part` fails (S3Store models   *)
(* what is lost then); here such a request ends in RequestFails.           *)
WriteChunk(u) ==
  /\ todo[u] = {"write"}
  /\ IF pieces[u] = None THEN UNCHANGED pieces /\ todo' = [todo EXCEPT ![u] = {}]
     ELSE \E n \in 0..(Len(meant[u]) - Offset(u)), tail \in 0..MinPartSize :
       LET all      == Data(pieces[u]) \o Bytes(u, Offset(u), n)
           complete == ~info[u].deferred /\ Len(all) = info[u].size
           k        == Len(all) - tail
       IN  /\ tail > 0 => store = "s3" /\ tail < MinPartSize /\ tail <= Len(all) /\ ~complete
           /\ pieces' = [pieces EXCEPT ![u] = <<SubSeq(all, 1, k), SubSeq(all, k + 1, Len(all))>>]
           /\ todo' = [todo EXCEPT ![u] = IF complete THEN {"finish"} ELSE {}]
  /\ UNCHANGED <<store, info, object, post, meant, deleted, announced>>

(* FinishUpload completes the multipart upload; the file store has nothing *)
(* to do.                                                                  *)
Completed(u) ==
  IF store = "file" THEN UNCHANGED <<pieces, object>>
  ELSE /\ object' = [object EXCEPT ![u] = Data(pieces[u])]
       /\ pieces' = [pieces EXCEPT ![u] = None]

FinishUpload(u) ==
  /\ "finish" \in todo[u]
  /\ Completed(u)
  /\ todo' = [todo EXCEPT ![u] = {}]
  /\ UNCHANGED <<store, info, post, meant, deleted, announced>>

(* DELETE.  The file store removes the binary file and then `.info`; the   *)
(* S3 store aborts the multipart upload (`.part` goes with it) and deletes *)
(* the objects, each of which may fail on its own.                         *)
DelFile(u) ==
  /\ todo[u] = {} /\ Exists(u)
  /\ todo' = [todo EXCEPT ![u] = IF store = "file" THEN {"bin", "info"} ELSE {"abort", "object", "info"}]
  /\ deleted' = deleted \cup ({u} \cap Finals)
  /\ UNCHANGED <<storeVars, post, meant, announced>>

Terminate(u) ==
  /\ \E t \in todo[u] \cap {"bin", "abort", "object", "info"} :
       /\ t = "info" => "bin" \notin todo[u]
       /\ pieces' = [pieces EXCEPT ![u] = IF t \in {"bin", "abort"} THEN None ELSE @]
       /\ object' = [object EXCEPT ![u] = IF t = "object" THEN None ELSE @]
       /\ info' = [info EXCEPT ![u] = IF t = "info" THEN None ELSE @]
       /\ todo' = [todo EXCEPT ![u] = @ \ {t}]
  /\ UNCHANGED <<store, post, meant, deleted, announced>>

(* The rest of such a request fails, or the process dies. *)
RequestFails(u) ==
  /\ Fails /\ todo[u] # {}
  /\ todo' = [todo EXCEPT ![u] = {}]
  /\ UNCHANGED <<storeVars, post, meant, deleted, announced>>

-----------------------------------------------------------------------------
(* POST of a final upload. *)

(* The response; the background abort goes on. *)
Respond(f, pc) == post' = [post EXCEPT ![f] = [NoPost EXCEPT !.pc = pc, !.aborts = post[f].aborts]]

Fail(f) == Respond(f, "failed")

(* parseConcat *)
PostFile(f) ==
  /\ post[f].pc = "idle"
  /\ \E list \in Lists(f) : post' = [post EXCEPT ![f].pc = "check", ![f].list = list]
  /\ UNCHANGED <<storeVars, todo, meant, deleted, announced>>

Listed(f) == post[f].list[post[f].checked + 1]
Checking(f) == post[f].pc = "check" /\ post[f].checked < Len(post[f].list)

(* sizeOfUploads reads each upload without a lock, in requests of which    *)
(* the file store makes two in this order, os.ReadFile and os.Stat, and    *)
(* S3 three in any order.                                                  *)
ReadInfo(f) ==
  /\ Checking(f) /\ post[f].seen.info = None
  /\ IF info[Listed(f)] = None THEN Fail(f)
     ELSE post' = [post EXCEPT ![f].seen.info = info[Listed(f)]]
  /\ UNCHANGED <<storeVars, todo, meant, deleted, announced>>

(* The parts that ListParts or os.Stat counts; NoSuchUpload is -1. *)
ListParts(f) ==
  LET u == Listed(f)
  IN  /\ Checking(f) /\ post[f].seen.parts = None
      /\ store = "file" => post[f].seen.info # None
      /\ IF pieces[u] # None
         THEN post' = [post EXCEPT ![f].seen.parts = Len(Data(pieces[u])) - IncompletePart(u)]
         ELSE IF store = "s3" THEN post' = [post EXCEPT ![f].seen.parts = -1]
                              ELSE Fail(f)
      /\ UNCHANGED <<storeVars, todo, meant, deleted, announced>>

HeadIncompletePart(f) ==
  /\ Checking(f) /\ post[f].seen.incomplete = None /\ store = "s3"
  /\ post' = [post EXCEPT ![f].seen.incomplete = IncompletePart(Listed(f))]
  /\ UNCHANGED <<storeVars, todo, meant, deleted, announced>>

SeenOffset(f) ==
  LET seen == post[f].seen
  IN  CASE store = "file"                      -> seen.parts
        [] store = "s3" /\ seen.parts = -1     -> seen.info.size
        [] OTHER                               -> seen.parts + seen.incomplete

(* The size, and for S3 whether it is below MinPartSize, are what the      *)
(* requests have read: the stores cache the FileInfo.                      *)
CheckNext(f, finished) ==
  LET seen == post[f].seen
  IN  /\ Checking(f) /\ seen.info # None /\ seen.parts # None
      /\ store = "s3" => seen.incomplete # None
      /\ IF finished THEN
           post' = [post EXCEPT ![f].checked = @ + 1, ![f].seen = NothingSeen,
                                ![f].size = @ + seen.info.size,
                                ![f].small = @ \/ seen.info.size < MinPartSize]
         ELSE Fail(f)
      /\ UNCHANGED <<storeVars, todo, meant, deleted, announced>>

(* Mutant: an upload need not be finished. *)
sizeOfAnyUploads(f) == CheckNext(f, TRUE)

(* Mutant: a deferred length counts as 0. *)
sizeOfDeferredUploads(f) == CheckNext(f, SeenOffset(f) = post[f].seen.info.size)

sizeOfUploads(f) ==
  CheckNext(f, ~post[f].seen.info.deferred /\ SeenOffset(f) = post[f].seen.info.size)

NewUpload(f) ==
  LET p == post[f]
      n == Len(p.list)
  IN  /\ p.pc = "check" /\ p.checked = n
      /\ info' = [info EXCEPT ![f] = [size |-> p.size, deferred |-> FALSE, isFinal |-> TRUE]]
      /\ pieces' = [pieces EXCEPT ![f] = IF store = "file" THEN <<>> ELSE [i \in 1..n |-> None]]
      /\ post' = [post EXCEPT ![f].pc = IF store = "file" THEN "open"
                                        ELSE IF p.small THEN "download" ELSE "multipart"]
      /\ meant' = [meant EXCEPT ![f] = FlattenSeq([i \in 1..n |-> meant[p.list[i]]])]
      /\ UNCHANGED <<store, object, todo, deleted, announced>>

(* ConcatUploads of the file store opens the new file once.  If it is      *)
(* removed after that, the data goes to a file without a name.             *)
OpenFile(f) ==
  /\ post[f].pc = "open"
  /\ IF pieces[f] # None THEN post' = [post EXCEPT ![f].pc = "append"] ELSE Fail(f)
  /\ UNCHANGED <<storeVars, todo, meant, deleted, announced>>

AllCopied(f) == post[f].copied = 1..Len(post[f].list)
NextCopy(f) == Cardinality(post[f].copied) + 1

appendTo(f) ==
  /\ post[f].pc = "append" /\ ~AllCopied(f)
  /\ LET src == Source(post[f].list[NextCopy(f)])
     IN  IF src = None THEN Fail(f) /\ UNCHANGED pieces
         ELSE /\ post' = [post EXCEPT ![f].copied = @ \cup {NextCopy(f)}]
              /\ pieces' = [pieces EXCEPT ![f] = IF @ = None THEN None ELSE Append(@, src)]
  /\ UNCHANGED <<store, info, object, todo, meant, deleted, announced>>

FileClosed(f) ==
  /\ post[f].pc = "append" /\ AllCopied(f)
  /\ post' = [post EXCEPT ![f].pc = "emit"]
  /\ UNCHANGED <<storeVars, todo, meant, deleted, announced>>

(* concatUsingDownload: download one by one, upload the whole, and abort   *)
(* the multipart upload in the background.                                 *)
DownloadNext(f) ==
  /\ post[f].pc = "download" /\ ~AllCopied(f)
  /\ LET src == Source(post[f].list[NextCopy(f)])
     IN  IF src = None THEN Fail(f)
         ELSE post' = [post EXCEPT ![f].copied = @ \cup {NextCopy(f)}, ![f].file = @ \o src]
  /\ UNCHANGED <<storeVars, todo, meant, deleted, announced>>

PutObject(f) ==
  /\ post[f].pc = "download" /\ AllCopied(f)
  /\ object' = [object EXCEPT ![f] = post[f].file]
  /\ post' = [post EXCEPT ![f].pc = "emit", ![f].aborts = TRUE]
  /\ UNCHANGED <<store, info, pieces, todo, meant, deleted, announced>>

AbortMultipartUpload(f) ==
  /\ post[f].aborts
  /\ post' = [post EXCEPT ![f].aborts = FALSE]
  /\ pieces' \in {pieces, [pieces EXCEPT ![f] = None]}
  /\ UNCHANGED <<store, info, object, todo, meant, deleted, announced>>

(* concatUsingMultipart: the objects are copied concurrently, each to the  *)
(* part of its number; every copy is waited for.                           *)
UploadPartCopy(f) ==
  /\ post[f].pc = "multipart"
  /\ \E i \in 1..Len(post[f].list) \ post[f].copied :
       LET src == object[post[f].list[i]]
           ok  == src # None /\ pieces[f] # None
       IN  /\ post' = [post EXCEPT ![f].copied = @ \cup {i}, ![f].err = @ \/ ~ok]
           /\ pieces' = IF ok THEN [pieces EXCEPT ![f][i] = src] ELSE pieces
  /\ UNCHANGED <<store, info, object, todo, meant, deleted, announced>>

FinishMultipart(f) ==
  /\ post[f].pc = "multipart" /\ AllCopied(f)
  /\ IF post[f].err \/ pieces[f] = None THEN Fail(f) /\ UNCHANGED <<pieces, object>>
     ELSE /\ Completed(f)
          /\ post' = [post EXCEPT ![f].pc = "emit"]
  /\ UNCHANGED <<store, info, todo, meant, deleted, announced>>

(* emitFinishEvents.  An empty upload is finished as any other empty one,  *)
(* and so announced again.                                                 *)
emitFinishEvents(f) ==
  /\ post[f].pc \in {"emit", "emitAgain"}
  /\ announced' = [announced EXCEPT ![f] = @ + 1]
  /\ IF post[f].pc = "emit" /\ post[f].size = 0 THEN post' = [post EXCEPT ![f].pc = "finish"]
     ELSE Respond(f, "done")
  /\ UNCHANGED <<storeVars, todo, meant, deleted>>

finishUploadIfComplete(f) ==
  /\ post[f].pc = "finish"
  /\ IF store = "s3" /\ pieces[f] = None THEN Fail(f) /\ UNCHANGED <<pieces, object>>
     ELSE /\ Completed(f)
          /\ post' = [post EXCEPT ![f].pc = "emitAgain"]
  /\ UNCHANGED <<store, info, todo, meant, deleted, announced>>

(* A call or a hook fails, or the process dies. *)
PostFails(f) ==
  /\ Fails /\ post[f].pc \notin {"idle", "done", "failed"}
  /\ Fail(f)
  /\ UNCHANGED <<storeVars, todo, meant, deleted, announced>>

-----------------------------------------------------------------------------

PostStep(f) ==
  \/ ReadInfo(f) \/ ListParts(f) \/ HeadIncompletePart(f) \/ sizeOfUploads(f) \/ NewUpload(f)
  \/ OpenFile(f) \/ appendTo(f) \/ FileClosed(f)
  \/ DownloadNext(f) \/ PutObject(f)
  \/ UploadPartCopy(f) \/ FinishMultipart(f)
  \/ emitFinishEvents(f) \/ finishUploadIfComplete(f)

Next ==
  \/ \E p \in Partials : PostPartial(p)
  \/ \E u \in Uploads : PatchFile(u) \/ WriteChunk(u) \/ FinishUpload(u) \/ DelFile(u) \/ Terminate(u) \/ RequestFails(u)
  \/ \E f \in Finals : PostFile(f) \/ PostStep(f) \/ AbortMultipartUpload(f) \/ PostFails(f)

Spec == Init /\ [][Next]_vars

-----------------------------------------------------------------------------

TypeOK ==
  /\ store \in Stores
  /\ info \in [Uploads -> Infos \cup {None}]
  /\ todo \in [Uploads -> SUBSET {"write", "finish", "bin", "info", "abort", "object"}]
  /\ deleted \subseteq Finals
  /\ \A f \in Finals :
       /\ post[f].pc \in {"idle", "check", "open", "append", "download", "multipart",
                          "emit", "finish", "emitAgain", "done", "failed"}
       /\ post[f].checked \in 0..Len(post[f].list)
       /\ post[f].copied \subseteq 1..Len(post[f].list)
       /\ announced[f] \in 0..2

(* Whatever becomes of the listed uploads while a final upload is being    *)
(* put together, no request ever reads anything else under an ID than the  *)
(* content it is meant to have: the beginning of it in the file store,     *)
(* where the file grows, all of it in S3.                                  *)
ContentIsMeant ==
  \A u \in Uploads :
    IF store = "file" THEN pieces[u] # None => IsPrefix(Data(pieces[u]), meant[u])
    ELSE object[u] # None => object[u] = meant[u]

(* A final upload that was announced as finished (emitFinishEvents after   *)
(* ConcatUploads) is all there, unless a DELETE of the final itself came.  *)
AnnouncedIsWhole ==
  \A f \in Finals : announced[f] > 0 /\ f \notin deleted => Source(f) = meant[f]

(* The size of a final upload, which sizeOfUploads adds up without a lock, *)
(* is the length of the files that the clients of the listed uploads had   *)
(* in mind: an upload of deferred length is not mistaken for a finished    *)
(* one while its length is being declared.                                 *)
SizeIsSum == \A f \in Finals : info[f] # None => info[f].size = Len(meant[f])
=============================================================================
