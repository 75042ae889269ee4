------------------------------ MODULE GCSStore ------------------------------
(***************************************************************************)
(* pkg/gcsstore: one upload, kept as the objects `<id>_0`, `<id>_1`, ...   *)
(* (one per WriteChunk) and `<id>.info`.  FinishUpload composes them into  *)
(* the object `<id>`, at most MAX_OBJECT_COMPOSITION at a time, by way of  *)
(* temporary objects `<id>_tmp_<level>_<index>`.                           *)
(*                                                                         *)
(* The handler holds the upload's lock: requests run one at a time.  Every *)
(* call of GCS is a step, after which the request may fail or the process  *)
(* may die; a call that reports an error after it had its effect is such a *)
(* failure too.  Nothing is kept in memory between requests.               *)
(***************************************************************************)
EXTENDS Integers, Sequences, SequencesExt

CONSTANTS MAX_OBJECT_COMPOSITION,
          MaxFile,      \* the bound of the client's file
          MaxChunks,    \* the bound of the number of chunks of an upload
          MaxRaces,     \* how often the data race of GetInfo may hide an error
          Fails,        \* requests may fail
          NoObject

ASSUME GCSAssumption ==
  /\ MAX_OBJECT_COMPOSITION \in Nat \ {0, 1}
  /\ MaxFile \in Nat /\ MaxChunks \in Nat \ {0} /\ MaxRaces \in Nat
  /\ Fails \in BOOLEAN
  /\ NoObject \notin Seq(Nat) \cup Nat

(* The names of objects.  Hole is the empty string that FilterObjects      *)
(* leaves for a missing index.                                             *)
Obj == <<"object">>
Chunk(i) == <<"chunk", i>>
Tmp(l, i) == <<"tmp", l, i>>
Hole == <<>>

Chunks == {Chunk(i) : i \in 0..(MaxChunks - 1)}
(* Each level has at most half as many temporary objects as sources. *)
Half == (MaxChunks \div 2) + 1
Tmps == {Tmp(l, i) : l, i \in 0..(Half - 1)}
Names == {Obj} \cup Chunks \cup Tmps

VARIABLES bucket,        \* the objects by name
          info,          \* `.info`: the length
          pc,            \* the step of the request that holds the lock
          sends,         \* the data of the request
          offset,        \* FileInfo.Offset, as the handler sees it
          names,         \* the objects to compose or to delete
          tmpSrcs, lvl,  \* of recursiveCompose
          clientOffset,  \* the offset the client has last been told
          file,          \* the length of the client's file
          races,         \* how often the race has hidden an error
          gone           \* history: a termination has begun

workVars == <<names, tmpSrcs, lvl>>
reqVars == <<sends, offset>>
clientVars == <<clientOffset, file, races>>
vars == <<bucket, info, pc, reqVars, workVars, clientVars, gone>>

Bytes(from, n) == [k \in 1..n |-> from + k]

Exists(name) == bucket[name] # NoObject

(* The objects in the order of the listing: chunks by index, ...           *)
Present == {i \in 0..(MaxChunks - 1) : Exists(Chunk(i))}

chunkNames ==
  IF Present = {} THEN <<>>
  ELSE [k \in 1..(Max(Present) + 1) |-> IF Exists(Chunk(k - 1)) THEN Chunk(k - 1) ELSE Hole]

(* ... then the temporary objects, by level and index. *)
tmpName(l, i) == IF Exists(Tmp(l, i)) THEN <<Tmp(l, i)>> ELSE <<>>
tmpNames ==
  FlattenSeq([l \in 1..Half |-> FlattenSeq([i \in 1..Half |-> tmpName(l - 1, i - 1)])])

(* FilterObjects, for the prefixes `<id>_tmp`, `<id>_` and `<id>`: a       *)
(* composed object hides the others.                                       *)
FilterTmp == tmpNames
FilterChunks == chunkNames \o tmpNames
FilterAll == IF Exists(Obj) THEN <<Obj>> ELSE FilterChunks

(* The data of the objects one after another, and the sum of their sizes. *)
Read(name) == IF name = Hole THEN <<>> ELSE bucket[name]
Concat(list) == FlattenSeq([k \in 1..Len(list) |-> Read(list[k])])
Sum(list) == Len(Concat(list))
Holes(list) == {k \in 1..Len(list) : list[k] = Hole}

(* GetInfo asks for the size of every object at once.  The goroutine that  *)
(* collects the errors may set firstError too late: then the size of the   *)
(* one object that failed is missing, and nobody notices.                  *)
GetInfo(o, raced) ==
  \/ ~raced /\ Holes(FilterAll) = {} /\ o = Sum(FilterAll)
  \/ /\ raced /\ races < MaxRaces
     /\ \E k \in 1..Len(FilterAll) :
          /\ o = Sum(FilterAll) - Len(Read(FilterAll[k]))
          /\ Holes(FilterAll) \subseteq {k}

(* After an error the client asks for the offset with HEAD. *)
Unknown == -1

Init ==
  /\ bucket = [name \in Names |-> NoObject] /\ info = NoObject
  /\ pc = "idle" /\ sends = 0 /\ offset = 0
  /\ names = <<>> /\ tmpSrcs = <<>> /\ lvl = 0
  /\ clientOffset = 0 /\ file = 0 /\ races = 0
  /\ gone = FALSE

(* The request ends, with a response that tells the offset or an error. *)
Respond(ok) ==
  /\ pc' = "idle" /\ sends' = 0 /\ offset' = 0
  /\ names' = <<>> /\ tmpSrcs' = <<>> /\ lvl' = 0
  /\ clientOffset' = IF ok THEN offset ELSE Unknown
  /\ UNCHANGED <<file, races>>

-----------------------------------------------------------------------------

(* POST, with data or without: writeInfo.  The ID is a fresh one, so the   *)
(* objects of an earlier upload are not seen any more.                     *)
NewUpload ==
  /\ pc = "idle" /\ info = NoObject
  /\ file' \in 0..MaxFile
  /\ info' = file'
  /\ bucket' = [name \in Names |-> NoObject]
  /\ \/ sends' \in 0..file' /\ pc' = "write"
     \/ sends' = 0 /\ pc' = "finish"
  /\ offset' = 0 /\ clientOffset' = 0 /\ races' = 0
  /\ gone' = FALSE
  /\ UNCHANGED workVars

(* HEAD. *)
HeadFile ==
  /\ pc = "idle" /\ info # NoObject
  /\ \E raced \in BOOLEAN :
       /\ GetInfo(clientOffset', raced)
       /\ races' = races + IF raced THEN 1 ELSE 0
  /\ UNCHANGED <<bucket, info, pc, reqVars, workVars, file, gone>>

(* PATCH up to WriteChunk: the offsets agree and the upload is not         *)
(* complete; the data fits.  (MaxChunks is a bound of the model.)          *)
Patch ==
  /\ pc = "idle" /\ info # NoObject
  /\ \E raced \in BOOLEAN :
       /\ GetInfo(clientOffset, raced)
       /\ races' = races + IF raced THEN 1 ELSE 0
  /\ clientOffset # Unknown /\ clientOffset < info
  /\ ~Exists(Chunk(MaxChunks - 1))
  /\ sends' \in 0..(file - clientOffset)
  /\ offset' = clientOffset
  /\ pc' = "write"
  /\ UNCHANGED <<bucket, info, workVars, clientOffset, file, gone>>

(* Mutant: the chunk gets the last index instead of the next one. *)
WriteChunkSameIndex ==
  /\ pc = "write"
  /\ Holes(FilterChunks) = {}
  /\ LET idx == {name[Len(name)] : name \in Range(FilterChunks)}
     IN  bucket' = [bucket EXCEPT ![Chunk(IF idx = {} THEN 0 ELSE Max(idx))] = Bytes(offset, sends)]
  /\ offset' = offset + sends
  /\ pc' = "finish"
  /\ UNCHANGED <<info, sends, workVars, clientVars, gone>>

(* WriteChunk: a new object after the highest index, also of a temporary   *)
(* object; the object exists once it is complete.                          *)
WriteChunk ==
  /\ pc = "write"
  /\ IF Holes(FilterChunks) # {}
     THEN Respond(FALSE) /\ UNCHANGED bucket
     ELSE LET idx == {name[Len(name)] : name \in Range(FilterChunks)}
              next == IF idx = {} THEN 0 ELSE Max(idx) + 1
          IN  /\ bucket' = [bucket EXCEPT ![Chunk(next)] = Bytes(offset, sends)]
              /\ offset' = offset + sends
              /\ pc' = "finish"
              /\ UNCHANGED <<sends, workVars, clientVars>>
  /\ UNCHANGED <<info, gone>>

-----------------------------------------------------------------------------

(* finishUploadIfComplete and FinishUpload up to ComposeObjects; there     *)
(* must be something to compose.                                           *)
FinishUpload ==
  /\ pc = "finish"
  /\ \/ /\ offset # info
        /\ Respond(TRUE)
     \/ /\ offset = info /\ FilterChunks = <<>>
        /\ Respond(FALSE)
     \/ /\ offset = info /\ FilterChunks # <<>>
        /\ names' = FilterChunks
        /\ pc' = "compose"
        /\ UNCHANGED <<reqVars, tmpSrcs, lvl, clientVars>>
  /\ UNCHANGED <<bucket, info, gone>>

Composable(list) == \A k \in 1..Len(list) : list[k] # Hole /\ Exists(list[k])

(* recursiveCompose: as long as there are too many sources, groups of them *)
(* are composed into temporary objects, which are the next sources.        *)
tmpSrcLen == (Len(names) + MAX_OBJECT_COMPOSITION - 1) \div MAX_OBJECT_COMPOSITION

(* Mutant: the last source of a full group is left out. *)
groupShort(i) ==
  SubSeq(names, i * MAX_OBJECT_COMPOSITION + 1,
         IF tmpSrcLen - i = 1 THEN Len(names) ELSE (i + 1) * MAX_OBJECT_COMPOSITION - 1)

group(i) ==
  SubSeq(names, i * MAX_OBJECT_COMPOSITION + 1,
         IF tmpSrcLen - i = 1 THEN Len(names) ELSE (i + 1) * MAX_OBJECT_COMPOSITION)

(* A source is missing. *)
ComposeFails ==
  /\ pc = "compose"
  /\ ~Composable(IF Len(names) > MAX_OBJECT_COMPOSITION THEN group(Len(tmpSrcs)) ELSE names)
  /\ Respond(FALSE)
  /\ UNCHANGED <<bucket, info, gone>>

ComposeGroup ==
  /\ pc = "compose" /\ Len(names) > MAX_OBJECT_COMPOSITION
  /\ LET i == Len(tmpSrcs)
         srcs == Append(tmpSrcs, Tmp(lvl, i))
     IN  /\ Composable(group(i))
         /\ bucket' = [bucket EXCEPT ![Tmp(lvl, i)] = Concat(group(i))]
         /\ IF i + 1 = tmpSrcLen
            THEN names' = srcs /\ tmpSrcs' = <<>> /\ lvl' = lvl + 1
            ELSE tmpSrcs' = srcs /\ UNCHANGED <<names, lvl>>
  /\ UNCHANGED <<info, pc, reqVars, clientVars, gone>>

ComposeLast ==
  /\ pc = "compose" /\ Len(names) <= MAX_OBJECT_COMPOSITION
  /\ Composable(names)
  /\ bucket' = [bucket EXCEPT ![Obj] = Concat(names)]
  /\ names' = FilterTmp
  /\ pc' = "deleteTmp"
  /\ UNCHANGED <<info, reqVars, tmpSrcs, lvl, clientVars, gone>>

(* DeleteObjectsWithFilter, object by object: the temporary objects after  *)
(* composing, then the chunks, or everything for Terminate.                *)
Deleting == pc \in {"deleteTmp", "deleteChunks", "terminate"}

DeleteObject ==
  /\ Deleting /\ names # <<>>
  /\ IF Head(names) = Hole
     THEN Respond(FALSE) /\ UNCHANGED bucket
     ELSE /\ bucket' = [bucket EXCEPT ![Head(names)] = NoObject]
          /\ names' = Tail(names)
          /\ UNCHANGED <<pc, reqVars, tmpSrcs, lvl, clientVars>>
  /\ UNCHANGED <<info, gone>>

Deleted ==
  /\ Deleting /\ names = <<>>
  /\ \/ /\ pc = "deleteTmp"
        /\ names' = FilterChunks /\ pc' = "deleteChunks"
        /\ UNCHANGED <<info, reqVars, tmpSrcs, lvl, clientVars>>
     \/ /\ pc = "deleteChunks"
        /\ pc' = "metadata"
        /\ UNCHANGED <<info, reqVars, workVars, clientVars>>
     \/ /\ pc = "terminate"
        /\ info' = NoObject
        /\ Respond(TRUE)
  /\ UNCHANGED <<bucket, gone>>

(* GetInfo and SetObjectMetadata end FinishUpload. *)
SetObjectMetadata ==
  /\ pc = "metadata"
  /\ Respond(TRUE)
  /\ UNCHANGED <<bucket, info, gone>>

(* DELETE. *)
Terminate ==
  /\ pc = "idle" /\ info # NoObject
  /\ names' = FilterAll
  /\ gone' = TRUE
  /\ pc' = "terminate"
  /\ UNCHANGED <<bucket, info, reqVars, tmpSrcs, lvl, clientVars>>

(* A call fails, or the process dies.  compose removes its destination if  *)
(* the checksum is wrong after COMPOSE_RETRIES attempts, and fails.        *)
RequestFails ==
  /\ Fails
  /\ pc # "idle"
  /\ Respond(FALSE)
  /\ UNCHANGED <<bucket, info, gone>>

RequestStep ==
  \/ WriteChunk \/ FinishUpload \/ ComposeFails \/ ComposeGroup \/ ComposeLast
  \/ DeleteObject \/ Deleted \/ SetObjectMetadata

Next == NewUpload \/ HeadFile \/ Patch \/ Terminate \/ RequestStep \/ RequestFails

Spec == Init /\ [][Next]_vars

-----------------------------------------------------------------------------

TypeOK ==
  /\ bucket \in [Names -> Seq(Nat) \cup {NoObject}]
  /\ info \in Nat \cup {NoObject}
  /\ pc \in {"idle", "write", "finish", "compose", "deleteTmp", "deleteChunks", "metadata", "terminate"}
  /\ sends \in Nat /\ offset \in Nat
  /\ names \in Seq(Names \cup {Hole}) /\ tmpSrcs \in Seq(Tmps) /\ lvl \in Nat
  /\ clientOffset \in Nat \cup {Unknown} /\ file \in Nat /\ races \in 0..MaxRaces
  /\ gone \in BOOLEAN

(* The object of a finished upload is the client's file, in whatever       *)
(* groups recursiveCompose has put the chunks together and whatever failed *)
(* before.  Package comment: "the data file will be stored as an           *)
(* extensionless object".                                                  *)
ObjectIsFile == Exists(Obj) => bucket[Obj] = Bytes(0, file)

(* The bytes of the upload: the composed object, or the chunks. *)
Content == IF Exists(Obj) THEN bucket[Obj] ELSE Concat(chunkNames)

phaseOf ==
  CASE info = NoObject /\ ~gone -> "none"
    [] gone                     -> "gone"
    [] OTHER                    -> IF Exists(Obj) THEN "finished" ELSE "open"

dataOf == IF phaseOf \in {"open", "finished"} THEN Content ELSE <<>>

Store == INSTANCE UploadStore WITH phase <- phaseOf, data <- dataOf

(* The GCS store keeps the promise of a data store: bytes are added at the *)
(* end and never lost, also while the chunks are composed and deleted.     *)
ImplementsUploadStore == Store!StoreSpec
=============================================================================
