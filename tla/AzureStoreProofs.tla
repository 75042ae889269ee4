-------------------------- MODULE AzureStoreProofs --------------------------
(***************************************************************************)
(* The data of AzureStore, for files, blocks and chunks of every size and  *)
(* whatever calls fail.  The blocks are staged without a gap, and the      *)
(* request that holds the lock knows them: so the list that is committed   *)
(* is the list of the staged blocks, and these are a start of the client's *)
(* file.                                                                   *)
(***************************************************************************)
EXTENDS AzureStore, SequenceFacts, FiniteSetTheorems, TLAPS

(* No PATCH declares the offset already reached as the length of the       *)
(* upload.  Such a request fails for want of data, but its upload is       *)
(* complete, and what is committed has a block that was never staged.      *)
PlainRequests == "declareOffset" \notin Requests

(* The blocks 0 to n - 1 of st are staged, and no others. *)
BlockMap == [Indexes -> Seq(Nat) \cup {NoBlob}]
Upto(st, n) ==
  /\ st \in BlockMap /\ n \in 0..MaxBlocks
  /\ \A i \in Indexes : st[i] # NoBlob <=> i < n

(* The requests that work on the upload. *)
Writing == {"declare", "write", "finish", "declareLast", "commit"}

(* The staged blocks are without a gap, and a start of the client's file. *)
StagedOK ==
  /\ \E n \in 0..MaxBlocks : Upto(staged, n)
  /\ Len(Data(Staged)) <= file
  /\ Data(Staged) = Bytes(0, Len(Data(Staged)))

(* Before the sentinel block is staged nobody knows the upload, and it has *)
(* no blocks; afterwards the sentinel is there until the blocks are        *)
(* committed, so that GetOffset never counts the blob of another upload.   *)
Phases ==
  /\ info = NoBlob /\ ~gone => pc = "idle" /\ ~published
  /\ ~published => staged = NoBlocks /\ ~finished /\ ~gone /\ pc \in {"idle", "sentinel"}
  /\ published /\ ~gone /\ ~finished => sentinel
  /\ gone => info = NoBlob /\ pc \in {"idle", "deleteBlob"}
  /\ pc = "deleteBlob" => gone
  /\ pc = "sentinel" => ~published
  /\ finished /\ ~gone => /\ exists /\ ~sentinel /\ staged = NoBlocks /\ pc = "idle"
                          /\ ~info.deferred

(* A length that is known is the length of the client's file. *)
Lengths == info # NoBlob => info.size = IF info.deferred THEN 0 ELSE file

(* What the request knows: the length, and unless Upload has failed the    *)
(* blocks and the offset.  A failed request does not complete the upload.  *)
Knows ==
  /\ pc \in Writing \cup {"sentinel"} => upload.size = info.size /\ upload.deferred = info.deferred
  /\ pc \in Writing \cup {"sentinel"} /\ ~err =>
       upload.indexes = Sorted /\ upload.offset = Len(Data(Staged))
  /\ err => pc = "finish" /\ ~Complete(upload)
  /\ pc = "commit" => Complete(upload)

(* What the request will do: it sends what follows, into a block that is   *)
(* free, and declares the length of the file.                              *)
Sends ==
  /\ pc \in {"declare", "write"} => ~Complete(upload) /\ staged[MaxBlocks - 1] = NoBlob
  /\ pc \in {"sentinel", "declare", "write"} => sends = 0 \/ upload.offset + sends <= file
  /\ pc = "declare" => declared = file /\ upload.offset < file /\ ~completes
  /\ pc = "declareLast" => declared = file /\ upload.offset = file
  /\ pc \in {"sentinel", "write"} /\ completes => upload.offset + sends = file
  /\ pc = "finish" /\ completes /\ ~err => upload.offset = file

AzInv == TypeOK /\ StagedOK /\ Phases /\ Lengths /\ Knows /\ Sends /\ BlobIsFile

-----------------------------------------------------------------------------

(* Sorted and Staged for the blocks st. *)
SortedOf(st) ==
  LET S == {i \in Indexes : st[i] # NoBlob}
  IN  [k \in 1..Cardinality(S) |-> CHOOSE i \in S : Cardinality({j \in S : j < i}) = k - 1]
StagedOf(st) == Blocks(SortedOf(st), st)

LEMMA StagedNow ==
  /\ Sorted = SortedOf(staged) /\ Sorted' = SortedOf(staged')
  /\ Staged = StagedOf(staged) /\ Staged' = StagedOf(staged')
BY DEF Sorted, StagedIndexes, SortedOf, Staged, StagedOf, Blocks

(* Without a gap, a block's index is its place in the list. *)
LEMMA SortedUpto ==
  ASSUME NEW st, NEW n, Upto(st, n)
  PROVE  SortedOf(st) = [k \in 1..n |-> k - 1]
<1> DEFINE S == {i \in Indexes : st[i] # NoBlob}
<1>0. n \in Nat /\ n <= MaxBlocks /\ MaxBlocks \in Nat
  BY AzureAssumption DEF Upto
<1>1. S = 0..(n - 1)
  BY <1>0 DEF Upto, Indexes
<1> HIDE DEF S
<1>2. Cardinality(S) = n
  BY <1>0, <1>1, FS_Interval
<1>3. ASSUME NEW i \in S PROVE Cardinality({j \in S : j < i}) = i /\ i \in Nat
  <2>1. i \in Nat /\ {j \in S : j < i} = 0..(i - 1)
    BY <1>0, <1>1
  <2>2. Cardinality(0..(i - 1)) = IF 0 > i - 1 THEN 0 ELSE (i - 1) - 0 + 1
    <3>1. 0 \in Int /\ i - 1 \in Int
      BY <2>1
    <3> QED
      BY <3>1, FS_Interval
  <2>3. Cardinality(0..(i - 1)) = i
    BY <2>1, <2>2
  <2> QED
    BY <2>1, <2>3, Zenon
<1>4. ASSUME NEW k \in 1..n
      PROVE  (CHOOSE i \in S : Cardinality({j \in S : j < i}) = k - 1) = k - 1
  <2>1. k - 1 \in S
    BY <1>0, <1>1
  <2>2. \A i \in S : Cardinality({j \in S : j < i}) = k - 1 <=> i = k - 1
    BY <1>3
  <2> QED
    BY <2>1, <2>2
<1>5. SortedOf(st) = [k \in 1..n |-> CHOOSE i \in S : Cardinality({j \in S : j < i}) = k - 1]
  BY <1>2 DEF SortedOf, S
<1> QED
  BY <1>4, <1>5

LEMMA StagedUpto ==
  ASSUME NEW st, NEW n, Upto(st, n)
  PROVE  /\ n \in Nat /\ \A k \in 1..n : k - 1 \in Indexes /\ st[k - 1] \in Seq(Nat)
         /\ SortedOf(st) \in Seq(Indexes) /\ Len(SortedOf(st)) = n
         /\ \A k \in 1..n : SortedOf(st)[k] = k - 1
         /\ StagedOf(st) = [k \in 1..n |-> [index |-> k - 1, bytes |-> st[k - 1]]]
         /\ Data(StagedOf(st)) = FlattenSeq([k \in 1..n |-> st[k - 1]])
         /\ [k \in 1..n |-> st[k - 1]] \in Seq(Seq(Nat))
         /\ Data(StagedOf(st)) \in Seq(Nat) /\ Len(Data(StagedOf(st))) \in Nat
<1>1. n \in Nat /\ \A k \in 1..n : k - 1 \in Indexes /\ st[k - 1] \in Seq(Nat)
  BY AzureAssumption DEF Upto, Indexes, BlockMap
<1>2. /\ SortedOf(st) \in Seq(Indexes) /\ Len(SortedOf(st)) = n
      /\ \A k \in 1..n : SortedOf(st)[k] = k - 1
  BY <1>1, SortedUpto
<1>3. StagedOf(st) = [k \in 1..n |-> [index |-> k - 1, bytes |-> st[k - 1]]]
  BY <1>2 DEF StagedOf, Blocks
<1> DEFINE d == [k \in 1..n |-> st[k - 1]]
<1>4. d \in Seq(Seq(Nat))
  BY <1>1
<1>5. Data(StagedOf(st)) = FlattenSeq(d)
  <2>1. Len(StagedOf(st)) = n /\ \A k \in 1..n : StagedOf(st)[k].bytes = st[k - 1]
    BY <1>1, <1>3
  <2> QED
    BY <2>1 DEF Data
<1> HIDE DEF d
<1>6. FlattenSeq(d) \in Seq(Nat)
  BY <1>4, FlattenAppend
<1> QED
  BY <1>1, <1>2, <1>3, <1>4, <1>5, <1>6 DEF d

(* One more block is one more piece of the data. *)
LEMMA StageNext ==
  ASSUME NEW st, NEW n, Upto(st, n), n < MaxBlocks, NEW x \in Seq(Nat),
         NEW st2, st2 = [st EXCEPT ![n] = x]
  PROVE  Upto(st2, n + 1) /\ Data(StagedOf(st2)) = Data(StagedOf(st)) \o x
<1> DEFINE d == [k \in 1..n |-> st[k - 1]]
           d2 == [k \in 1..(n + 1) |-> st2[k - 1]]
<1>1. Upto(st2, n + 1)
  BY AzureAssumption DEF Upto, BlockMap, Indexes
<1>2. d \in Seq(Seq(Nat)) /\ Len(d) = n /\ Data(StagedOf(st)) = FlattenSeq(d) /\ n \in Nat
  <2>1. n \in Nat /\ d \in Seq(Seq(Nat)) /\ Data(StagedOf(st)) = FlattenSeq(d)
    BY StagedUpto
  <2> QED
    BY <2>1
<1>3. d2 \in Seq(Seq(Nat)) /\ Data(StagedOf(st2)) = FlattenSeq(d2)
  BY ONLY <1>1, StagedUpto
<1>4. d2 = Append(d, x)
  <2>1. \A k \in 1..n : d2[k] = d[k]
    BY <1>2 DEF Upto, BlockMap, Indexes
  <2>2. d2[n + 1] = x
    BY <1>2, AzureAssumption DEF Upto, BlockMap, Indexes
  <2>3. Append(d, x) = [k \in 1..(n + 1) |-> IF k = n + 1 THEN x ELSE d[k]]
    BY <1>2
  <2> QED
    BY <1>2, <2>1, <2>2, <2>3
<1> HIDE DEF d, d2
<1>5. FlattenSeq(d2) = FlattenSeq(d) \o x
  BY <1>2, <1>4, FlattenAppend
<1> QED
  BY <1>1, <1>2, <1>3, <1>5

(* No blocks, no data. *)
LEMMA NothingStaged ==
  Upto(NoBlocks, 0) /\ SortedOf(NoBlocks) = <<>> /\ Data(StagedOf(NoBlocks)) = <<>>
<1>1. Upto(NoBlocks, 0)
  BY AzureAssumption DEF Upto, NoBlocks, BlockMap, Indexes
<1>2. [k \in 1..0 |-> NoBlocks[k - 1]] = <<>>
  OBVIOUS
<1>3. Data(StagedOf(NoBlocks)) = FlattenSeq(<<>>) /\ SortedOf(NoBlocks) = [k \in 1..0 |-> k - 1]
  BY <1>1, <1>2, StagedUpto, SortedUpto
<1> QED
  BY <1>1, <1>3, FlattenAppend

(* Bytes of the file, ... *)
LEMMA BytesFacts ==
  ASSUME NEW o \in Nat, NEW n \in Nat
  PROVE  /\ Bytes(o, n) \in Seq(Nat) /\ Len(Bytes(o, n)) = n
         /\ \A k \in 1..n : Bytes(o, n)[k] = o + k
         /\ n = 0 => Bytes(o, n) = <<>>
BY DEF Bytes

(* ... put together. *)
LEMMA BytesNext ==
  ASSUME NEW m \in Nat, NEW n \in Nat
  PROVE  Bytes(0, m) \o Bytes(m, n) = Bytes(0, m + n)
<1> DEFINE x == Bytes(0, m)
           y == Bytes(m, n)
           z == Bytes(0, m + n)
<1>1. /\ x \in Seq(Nat) /\ y \in Seq(Nat) /\ z \in Seq(Nat)
      /\ Len(x) = m /\ Len(y) = n /\ Len(z) = m + n
      /\ \A k \in 1..m : x[k] = k
      /\ \A k \in 1..n : y[k] = m + k
      /\ \A k \in 1..(m + n) : z[k] = k
  <2>1. x \in Seq(Nat) /\ Len(x) = m /\ \A k \in 1..m : x[k] = k
    BY DEF Bytes
  <2>2. y \in Seq(Nat) /\ Len(y) = n /\ \A k \in 1..n : y[k] = m + k
    BY BytesFacts
  <2>3. z \in Seq(Nat) /\ Len(z) = m + n /\ \A k \in 1..(m + n) : z[k] = k
    BY DEF Bytes
  <2> QED
    BY <2>1, <2>2, <2>3
<1> HIDE DEF x, y, z
<1>2. x \o y \in Seq(Nat) /\ Len(x \o y) = m + n
  BY <1>1, ConcatProperties
<1>3. ASSUME NEW k \in 1..(m + n) PROVE (x \o y)[k] = z[k]
  <2>1. (x \o y)[k] = IF k <= m THEN x[k] ELSE y[k - m]
    BY <1>1, ConcatProperties
  <2>2. ~(k <= m) => k - m \in 1..n
    OBVIOUS
  <2> QED
    BY <1>1, <2>1, <2>2
<1> QED
  BY <1>1, <1>2, <1>3, SeqEqual DEF x, y, z

-----------------------------------------------------------------------------

(* What the invariant says of the staged blocks. *)
LEMMA StagedFacts ==
  ASSUME AzInv
  PROVE  /\ \E n \in 0..MaxBlocks : Upto(staged, n)
         /\ Sorted \in Seq(Indexes)
         /\ Data(Staged) \in Seq(Nat) /\ Len(Data(Staged)) \in Nat
         /\ Len(Data(Staged)) <= file /\ Data(Staged) = Bytes(0, Len(Data(Staged)))
<1>1. PICK n \in 0..MaxBlocks : Upto(staged, n)
  BY DEF AzInv, StagedOK
<1>2. /\ SortedOf(staged) \in Seq(Indexes) /\ Data(StagedOf(staged)) \in Seq(Nat)
      /\ Len(Data(StagedOf(staged))) \in Nat
  BY <1>1, StagedUpto
<1>3. Len(Data(Staged)) <= file /\ Data(Staged) = Bytes(0, Len(Data(Staged)))
  BY DEF AzInv, StagedOK
<1> QED
  BY <1>1, <1>2, <1>3, StagedNow

(* Whoever leaves the blocks alone leaves the data alone, ... *)
LEMMA StagedKept ==
  ASSUME AzInv, staged' = staged, file' = file
  PROVE  StagedOK' /\ Sorted' = Sorted /\ Data(Staged)' = Data(Staged)
<1>1. Sorted' = Sorted /\ Staged' = Staged
  BY StagedNow
<1>2. Data(Staged)' = Data(Staged)
  BY <1>1 DEF Data
<1>3. StagedOK'
  BY <1>2 DEF AzInv, StagedOK, Upto, Bytes
<1> QED
  BY <1>1, <1>2, <1>3

(* ... and whoever leaves the blob alone leaves the file alone. *)
LEMMA BlobKept ==
  ASSUME AzInv, UNCHANGED <<committed, exists, file, finished>>
  PROVE  BlobIsFile'
BY DEF AzInv, BlobIsFile, Data, Bytes

(* GetUpload of an upload that clients can reach. *)
LEMMA GetUploadFacts ==
  ASSUME AzInv, published, info # NoBlob, pc = "idle"
  PROVE  /\ GetUpload.size = info.size /\ GetUpload.deferred = info.deferred
         /\ GetUpload.indexes = Sorted
         /\ finished => /\ GetUpload.offset = Len(Data(committed)) /\ Complete(GetUpload)
         /\ ~finished => GetUpload.offset = Len(Data(Staged))
<1>1. /\ GetUpload.size = info.size /\ GetUpload.deferred = info.deferred
      /\ GetUpload.indexes = Sorted
      /\ GetUpload.offset = Len(Data(IF ~sentinel /\ staged = NoBlocks THEN committed ELSE Staged))
  BY DEF GetUpload
<1>2. ~gone
  BY DEF AzInv, Phases
<1>3. CASE finished
  <2>1. exists /\ ~sentinel /\ staged = NoBlocks /\ ~info.deferred
    BY <1>2, <1>3 DEF AzInv, Phases
  <2>2. GetUpload.offset = Len(Data(committed))
    BY <1>1, <2>1
  <2>3. file \in Nat /\ info.size = file /\ Data(committed) = Bytes(0, file)
    BY <1>3, <2>1 DEF AzInv, TypeOK, Lengths, BlobIsFile
  <2>4. GetUpload.offset = file
    BY <2>2, <2>3, BytesFacts
  <2> QED
    BY <1>1, <1>3, <2>1, <2>2, <2>3, <2>4 DEF Complete
<1>4. CASE ~finished
  <2>1. sentinel
    BY <1>2, <1>4 DEF AzInv, Phases
  <2> QED
    BY <1>1, <1>4, <2>1
<1> QED
  BY <1>3, <1>4

(* The request ends; nothing else has changed. *)
LEMMA RespondKeeps ==
  ASSUME AzInv, Respond, UNCHANGED <<blobVars, histVars>>
  PROVE  AzInv'
<1> USE DEF Respond, blobVars, histVars
<1>1. TypeOK'
  <2>1. file \in 0..MaxFile /\ MaxFile \in Nat
    BY AzureAssumption DEF AzInv, TypeOK
  <2>2. NoUpload \in [size: 0..MaxFile, deferred: BOOLEAN, offset: 0..file, indexes: Seq(Indexes)]
    BY <2>1 DEF NoUpload
  <2> QED
    BY <2>2 DEF AzInv, TypeOK
<1>2. StagedOK' /\ BlobIsFile'
  BY StagedKept, BlobKept
<1>3. Phases'
  BY DEF AzInv, Phases
<1>4. Lengths' /\ Knows' /\ Sends'
  BY DEF AzInv, Lengths, Knows, Sends, Writing
<1> QED
  BY <1>1, <1>2, <1>3, <1>4 DEF AzInv

(* A new upload has no blocks, whatever blob its key holds. *)
LEMMA KeepsNewUpload == ASSUME AzInv, NewUpload PROVE AzInv'
<1>1. /\ pc = "idle" /\ info = NoBlob /\ ~gone /\ file' \in 0..MaxFile /\ pc' = "sentinel"
      /\ UNCHANGED <<staged, sentinel, committed, exists, declared, err, published, gone, finished>>
  BY DEF NewUpload
<1>2. PICK deferred \in BOOLEAN :
        /\ info' = [size |-> IF deferred THEN 0 ELSE file', deferred |-> deferred]
        /\ upload' = [NoUpload EXCEPT !.size = info'.size, !.deferred = deferred]
        /\ sends' \in 0..file'
        /\ completes' \in {FALSE, deferred /\ sends' = file' /\ "draft" \in Requests}
  BY DEF NewUpload
<1>3. ~published /\ staged = NoBlocks /\ ~finished /\ ~err
  BY <1>1 DEF AzInv, Phases, Knows
<1>4. file' \in Nat /\ 0 \in 0..file' /\ info'.size \in 0..MaxFile /\ info'.size \in Nat /\ sends' \in Nat
  BY <1>1, <1>2, AzureAssumption
<1>5. /\ upload'.size = info'.size /\ upload'.deferred = deferred /\ info'.deferred = deferred
      /\ upload'.offset = 0 /\ upload'.indexes = <<>> /\ info' \in [size: Nat, deferred: BOOLEAN]
      /\ upload' \in [size: 0..MaxFile, deferred: BOOLEAN, offset: 0..file', indexes: Seq(Indexes)]
  <2>1. upload' = [size |-> info'.size, deferred |-> deferred, offset |-> 0, indexes |-> <<>>]
    BY <1>2 DEF NoUpload
  <2>2. info'.deferred = deferred /\ info' \in [size: Nat, deferred: BOOLEAN]
    BY <1>2, <1>4
  <2> QED
    BY <1>4, <2>1, <2>2
<1>6. TypeOK'
  <2>1. completes' \in BOOLEAN
    BY <1>2
  <2> QED
    BY <1>1, <1>4, <1>5, <2>1 DEF AzInv, TypeOK
<1>7. Sorted' = <<>> /\ Data(Staged)' = <<>> /\ Upto(staged', 0)
  <2>1. staged' = NoBlocks
    BY <1>1, <1>3
  <2>2. Sorted' = SortedOf(NoBlocks) /\ Staged' = StagedOf(NoBlocks)
    BY <2>1, StagedNow
  <2> QED
    BY <2>1, <2>2, NothingStaged DEF Data
<1>8. StagedOK'
  <2>1. Len(Data(Staged)') = 0 /\ Bytes(0, 0) = <<>>
    BY <1>7 DEF Bytes
  <2>2. \E n \in 0..MaxBlocks : Upto(staged', n)
    BY <1>7 DEF Upto
  <2> QED
    BY <1>4, <1>7, <2>1, <2>2 DEF StagedOK, Upto, BlockMap, Bytes
<1>9. Phases'
  BY <1>1, <1>3, <1>5, AzureAssumption DEF Phases, AzInv
<1>10. Lengths'
  BY <1>2, <1>5 DEF Lengths
<1>11. Knows'
  BY <1>1, <1>3, <1>5, <1>7 DEF Knows, Writing
<1>12. Sends'
  <2>1. completes' => sends' = file'
    BY <1>2
  <2> QED
    BY <1>1, <1>2, <1>4, <1>5, <2>1 DEF Sends
<1>13. BlobIsFile'
  BY <1>1, <1>3 DEF BlobIsFile
<1> QED
  BY <1>6, <1>8, <1>9, <1>10, <1>11, <1>12, <1>13 DEF AzInv

(* The sentinel block hides a blob that the key holds already. *)
LEMMA KeepsSentinel == ASSUME AzInv, StageSentinelBlock PROVE AzInv'
<1>1. /\ pc = "sentinel" /\ sentinel' = TRUE /\ published' = TRUE
      /\ pc' = IF sends > 0 THEN "write" ELSE "finish"
      /\ UNCHANGED <<info, staged, committed, exists, upload, sends, declared, completes, err,
                     file, gone, finished>>
  BY DEF StageSentinelBlock, reqVars
<1>2. /\ ~published /\ ~gone /\ ~finished /\ ~err /\ info # NoBlob /\ staged = NoBlocks
      /\ upload.size = info.size /\ upload.deferred = info.deferred
      /\ upload.indexes = Sorted /\ upload.offset = Len(Data(Staged))
  BY <1>1 DEF AzInv, Phases, Knows, Writing
<1>3. upload.offset = 0 /\ sends \in Nat /\ file \in Nat /\ staged[MaxBlocks - 1] = NoBlob
  <2>1. Len(Data(Staged)) = 0
    BY <1>2, StagedNow, NothingStaged
  <2> QED
    BY <1>2, <2>1, AzureAssumption DEF AzInv, TypeOK, NoBlocks, Indexes
<1>4. TypeOK'
  BY <1>1 DEF AzInv, TypeOK
<1>5. StagedOK' /\ BlobIsFile' /\ Sorted' = Sorted /\ Data(Staged)' = Data(Staged)
  BY <1>1, StagedKept, BlobKept
<1>6. Phases' /\ Lengths'
  BY <1>1, <1>2 DEF AzInv, Phases, Lengths
<1>7. Knows'
  BY <1>1, <1>2, <1>5 DEF Knows, Writing
<1>8. Sends'
  <2>1. sends = 0 \/ upload.offset + sends <= file
    BY <1>1 DEF AzInv, Sends
  <2>2. completes => upload.offset + sends = file
    BY <1>1 DEF AzInv, Sends
  <2>3. sends > 0 => ~Complete(upload)
    BY <1>2, <1>3, <2>1 DEF AzInv, Lengths, Complete
  <2> QED
    BY <1>1, <1>2, <1>3, <2>1, <2>2, <2>3 DEF Sends, Complete
<1> QED
  BY <1>4, <1>5, <1>6, <1>7, <1>8 DEF AzInv

(* PATCH begins with what GetOffset counts. *)
LEMMA KeepsPatch == ASSUME AzInv, PlainRequests, Patch PROVE AzInv'
<1>1. /\ pc = "idle" /\ published /\ info # NoBlob /\ ~Complete(GetUpload)
      /\ staged[MaxBlocks - 1] = NoBlob /\ upload' = GetUpload
      /\ sends' \in {n \in 0..file : n = 0 \/ GetUpload.offset + n <= file}
      /\ completes' \in {FALSE, GetUpload.deferred /\ GetUpload.offset + sends' = file /\ "draft" \in Requests}
      /\ declared' \in {-1} \cup {len \in {file} :
            /\ GetUpload.deferred /\ GetUpload.offset <= len /\ ~completes'
            /\ GetUpload.offset = len => "declareOffset" \in Requests}
      /\ pc' = IF declared' = -1 THEN "write" ELSE "declare"
      /\ UNCHANGED <<info, staged, sentinel, committed, exists, err, file, published, gone, finished>>
  BY DEF Patch, blobVars, histVars
<1>2. ~finished /\ ~gone /\ ~err
  BY <1>1, GetUploadFacts DEF AzInv, Phases, Knows
<1>3. /\ upload'.size = info.size /\ upload'.deferred = info.deferred /\ upload'.indexes = Sorted
      /\ upload'.offset = Len(Data(Staged)) /\ GetUpload.offset = Len(Data(Staged))
  BY <1>1, <1>2, GetUploadFacts
<1>4. upload' \in [size: 0..MaxFile, deferred: BOOLEAN, offset: 0..file, indexes: Seq(Indexes)]
  <2>1. info.size \in 0..MaxFile /\ info.deferred \in BOOLEAN /\ file \in 0..MaxFile
    BY <1>1, AzureAssumption DEF AzInv, TypeOK, Lengths
  <2>2. Len(Data(Staged)) \in 0..file /\ Sorted \in Seq(Indexes)
    BY <2>1, StagedFacts
  <2>3. GetUpload = [size |-> info.size, deferred |-> info.deferred,
                     offset |-> GetUpload.offset, indexes |-> Sorted]
    BY DEF GetUpload
  <2> QED
    BY <1>1, <1>3, <2>1, <2>2, <2>3
<1>5. sends' \in Nat /\ declared' \in Nat \cup {-1} /\ completes' \in BOOLEAN /\ file \in Nat
  <2>1. file \in Nat
    BY AzureAssumption DEF AzInv, TypeOK
  <2>2. completes' \in BOOLEAN
    BY <1>1, GetUploadFacts
  <2>3. declared' \in {-1, file} /\ sends' \in 0..file
    BY <1>1
  <2> QED
    BY <2>1, <2>2, <2>3
<1>6. TypeOK'
  BY <1>1, <1>4, <1>5 DEF AzInv, TypeOK
<1>7. StagedOK' /\ BlobIsFile' /\ Sorted' = Sorted /\ Data(Staged)' = Data(Staged)
  BY <1>1, StagedKept, BlobKept
<1>8. Phases' /\ Lengths'
  BY <1>1, <1>2 DEF AzInv, Phases, Lengths
<1>9. Knows'
  BY <1>1, <1>2, <1>3, <1>7 DEF Knows, Writing
<1>10. Sends'
  <2>1. Len(Data(Staged)) \in Nat
    BY StagedFacts
  <2>2. pc' = "declare" => declared' = file /\ upload'.offset < file /\ ~completes'
    BY <1>1, <1>3, <1>5, <2>1, StagedFacts DEF PlainRequests
  <2>3. completes' => upload'.offset + sends' = file
    BY <1>1, <1>3
  <2>4. sends' = 0 \/ upload'.offset + sends' <= file
    BY <1>1, <1>3
  <2>5. ~Complete(upload')
    BY <1>1
  <2>6. pc' \in {"write", "declare"} /\ staged'[MaxBlocks - 1] = NoBlob /\ file' = file
    BY <1>1
  <2> QED
    BY <2>2, <2>3, <2>4, <2>5, <2>6 DEF Sends, Complete
<1> QED
  BY <1>6, <1>7, <1>8, <1>9, <1>10 DEF AzInv

(* While a request works on it, the upload exists and is not finished. *)
LEMMA AtWork ==
  ASSUME AzInv, pc \in Writing
  PROVE  /\ published /\ ~gone /\ ~finished /\ info # NoBlob
         /\ upload.size = info.size /\ upload.deferred = info.deferred
         /\ upload.size \in Nat /\ upload.deferred \in BOOLEAN /\ upload.offset \in Nat
         /\ upload.offset <= file /\ file \in Nat /\ sends \in Nat
         /\ upload.size = IF upload.deferred THEN 0 ELSE file
         /\ ~err => upload.indexes = Sorted /\ upload.offset = Len(Data(Staged))
<1>1. published /\ ~gone /\ ~finished /\ info # NoBlob
  BY DEF AzInv, Phases, Writing
<1>2. /\ upload.size = info.size /\ upload.deferred = info.deferred
      /\ ~err => upload.indexes = Sorted /\ upload.offset = Len(Data(Staged))
  BY DEF AzInv, Knows
<1>3. /\ upload.size \in Nat /\ upload.deferred \in BOOLEAN /\ upload.offset \in Nat
      /\ upload.offset <= file /\ file \in Nat /\ sends \in Nat
  BY AzureAssumption DEF AzInv, TypeOK
<1> QED
  BY <1>1, <1>2, <1>3 DEF AzInv, Lengths

(* DeclareLength declares the length of the file. *)
LEMMA KeepsDeclare == ASSUME AzInv, DeclareLength PROVE AzInv'
<1>1. /\ pc \in {"declare", "declareLast"} /\ info' = [size |-> declared, deferred |-> FALSE]
      /\ upload' = [upload EXCEPT !.size = declared, !.deferred = FALSE]
      /\ pc' = IF pc = "declare" THEN "write" ELSE "finish"
      /\ UNCHANGED <<staged, sentinel, committed, exists, sends, declared, completes, err,
                     file, published, gone, finished>>
  BY DEF DeclareLength, histVars
<1>2. /\ declared = file /\ ~err
      /\ pc = "declare" => upload.offset < file /\ ~completes /\ staged[MaxBlocks - 1] = NoBlob
      /\ pc = "declare" => sends = 0 \/ upload.offset + sends <= file
      /\ pc = "declareLast" => upload.offset = file
  BY <1>1 DEF AzInv, Sends, Knows
<1>3. /\ published /\ ~gone /\ ~finished /\ info # NoBlob /\ upload.offset \in Nat /\ file \in Nat
      /\ upload.indexes = Sorted /\ upload.offset = Len(Data(Staged))
  BY <1>1, <1>2, AtWork DEF Writing
<1>4. /\ upload'.size = file /\ upload'.deferred = FALSE /\ upload'.offset = upload.offset
      /\ upload'.indexes = upload.indexes /\ info' # NoBlob /\ info'.size = file /\ info'.deferred = FALSE
  <2>1. info' \in [size: Nat, deferred: BOOLEAN]
    BY <1>1, <1>2, <1>3
  <2> QED
    BY <1>1, <1>2, <2>1, AzureAssumption DEF AzInv, TypeOK
<1>5. TypeOK'
  <2>1. file \in 0..MaxFile
    BY DEF AzInv, TypeOK
  <2>2. upload' \in [size: 0..MaxFile, deferred: BOOLEAN, offset: 0..file, indexes: Seq(Indexes)]
    BY <1>1, <1>2, <2>1 DEF AzInv, TypeOK
  <2>3. info' \in [size: Nat, deferred: BOOLEAN]
    BY <1>1, <1>2, <1>3
  <2> QED
    BY <1>1, <2>2, <2>3 DEF AzInv, TypeOK
<1>6. StagedOK' /\ BlobIsFile' /\ Sorted' = Sorted /\ Data(Staged)' = Data(Staged)
  BY <1>1, StagedKept, BlobKept
<1>7. Phases'
  BY <1>1, <1>3, <1>4 DEF AzInv, Phases
<1>8. Lengths' /\ Knows'
  BY <1>1, <1>2, <1>3, <1>4, <1>6 DEF Lengths, Knows, Writing
<1>9. Sends'
  BY <1>1, <1>2, <1>3, <1>4 DEF Sends, Complete
<1> QED
  BY <1>5, <1>6, <1>7, <1>8, <1>9 DEF AzInv

(* The next block follows the last one, ... *)
LEMMA NextBlock ==
  ASSUME AzInv, pc = "write"
  PROVE  \E n \in Indexes : Upto(staged, n) /\ NextIndex = n /\ n < MaxBlocks
<1>1. PICK n \in 0..MaxBlocks : Upto(staged, n)
  BY StagedFacts
<1>2. n < MaxBlocks /\ n \in Indexes
  <2>1. staged[MaxBlocks - 1] = NoBlob
    BY DEF AzInv, Sends
  <2>2. MaxBlocks - 1 \in Indexes /\ MaxBlocks \in Nat
    BY AzureAssumption DEF Indexes
  <2>3. ~(MaxBlocks - 1 < n)
    BY <1>1, <2>1, <2>2 DEF Upto
  <2> QED
    BY <2>2, <2>3 DEF Indexes
<1>3. upload.indexes = SortedOf(staged)
  BY AtWork, StagedNow DEF AzInv, Knows, Writing
<1>4. Len(SortedOf(staged)) = n /\ \A k \in 1..n : SortedOf(staged)[k] = k - 1
  BY <1>1, StagedUpto
<1>5. NextIndex = n
  <2>1. CASE n = 0
    <3>1. SortedOf(staged) = <<>>
      BY <1>1, <2>1, SortedUpto
    <3> QED
      BY <1>3, <2>1, <3>1 DEF NextIndex
  <2>2. CASE n # 0
    <3>1. n \in 1..n /\ SortedOf(staged) # <<>>
      BY <1>4, <2>2
    <3>2. NextIndex = SortedOf(staged)[n] + 1
      BY <1>3, <1>4, <3>1 DEF NextIndex
    <3> QED
      BY <1>4, <3>1, <3>2
  <2> QED
    BY <2>1, <2>2
<1> QED
  BY <1>1, <1>2, <1>5

(* ... and its data the data. *)
LEMMA WriteStaged ==
  ASSUME AzInv, pc = "write", sends \in Nat, upload.offset + sends <= file, file' = file,
         staged' = [staged EXCEPT ![NextIndex] = Bytes(upload.offset, sends)]
  PROVE  /\ StagedOK' /\ Sorted' = Append(upload.indexes, NextIndex)
         /\ Len(Data(Staged)') = upload.offset + sends
         /\ NextIndex \in Indexes /\ Append(upload.indexes, NextIndex) \in Seq(Indexes)
<1>1. PICK n \in Indexes : Upto(staged, n) /\ NextIndex = n /\ n < MaxBlocks
  BY NextBlock
<1> DEFINE o == upload.offset
           x == Bytes(o, sends)
<1>2. /\ o \in Nat /\ file \in Nat /\ upload.indexes = Sorted /\ o = Len(Data(Staged))
      /\ Data(Staged) = Bytes(0, o)
  BY AtWork, StagedFacts DEF AzInv, Knows, Writing
<1> HIDE DEF o
<1>3. x \in Seq(Nat)
  BY <1>2, BytesFacts
<1> HIDE DEF x
<1>4. staged' = [staged EXCEPT ![n] = x]
  BY <1>1 DEF o, x
<1>5. Upto(staged', n + 1) /\ Data(StagedOf(staged')) = Data(StagedOf(staged)) \o x
  BY <1>1, <1>3, <1>4, StageNext
<1>6. Data(Staged)' = Bytes(0, o + sends)
  <2>1. Data(Staged)' = Data(StagedOf(staged')) /\ Data(StagedOf(staged)) = Bytes(0, o)
    BY <1>2, StagedNow DEF Data
  <2> QED
    BY <1>2, <1>5, <2>1, BytesNext DEF x
<1>7. Len(Data(Staged)') = o + sends
  <2>1. o + sends \in Nat /\ 0 \in Nat
    BY <1>2
  <2> QED
    BY <1>6, <2>1, BytesFacts
<1>8. n + 1 \in 0..MaxBlocks /\ n \in Nat
  BY <1>1, AzureAssumption DEF Indexes
<1>9. StagedOK'
  <2>1. o + sends <= file'
    BY DEF o
  <2>2. \E k \in 0..MaxBlocks : Upto(staged', k)
    BY <1>5, <1>8
  <2> QED
    BY <1>6, <1>7, <2>1, <2>2 DEF StagedOK, Upto, BlockMap, Bytes
<1>10. Sorted' = Append(upload.indexes, NextIndex)
  <2>1. Sorted' = [k \in 1..(n + 1) |-> k - 1] /\ Sorted = [k \in 1..n |-> k - 1]
    BY <1>1, <1>5, SortedUpto, StagedNow
  <2>2. Append([k \in 1..n |-> k - 1], n) = [k \in 1..(n + 1) |-> k - 1]
    BY <1>8
  <2> QED
    BY <1>1, <1>2, <2>1, <2>2
<1>11. Append(upload.indexes, NextIndex) \in Seq(Indexes)
  BY <1>1, <1>2, StagedFacts
<1> QED
  BY <1>1, <1>7, <1>9, <1>10, <1>11 DEF o

(* A chunk is one block more. *)
LEMMA KeepsWriteChunk == ASSUME AzInv, WriteChunk PROVE AzInv'
<1>1. /\ pc = "write" /\ sends \in 1..MaxBlockBlobChunkSize
      /\ staged' = [staged EXCEPT ![NextIndex] = Bytes(upload.offset, sends)]
      /\ upload' = [upload EXCEPT !.offset = @ + sends, !.indexes = Append(@, NextIndex)]
      /\ pc' = "finish"
      /\ UNCHANGED <<info, sentinel, committed, exists, sends, declared, completes, err,
                     file, published, gone, finished>>
  BY DEF WriteChunk, histVars
<1>2. /\ published /\ ~gone /\ ~finished /\ info # NoBlob /\ ~err
      /\ upload.offset \in Nat /\ file \in Nat /\ sends \in Nat /\ sends > 0
      /\ upload.offset + sends <= file
      /\ completes => upload.offset + sends = file
      /\ upload.size = info.size /\ upload.deferred = info.deferred
  BY <1>1, AtWork DEF AzInv, Knows, Sends, Writing
<1>3. /\ StagedOK' /\ Sorted' = Append(upload.indexes, NextIndex)
      /\ Len(Data(Staged)') = upload.offset + sends
      /\ NextIndex \in Indexes /\ Append(upload.indexes, NextIndex) \in Seq(Indexes)
  BY <1>1, <1>2, WriteStaged
<1>4. /\ upload'.size = upload.size /\ upload'.deferred = upload.deferred
      /\ upload'.offset = upload.offset + sends /\ upload'.indexes = Append(upload.indexes, NextIndex)
  BY <1>1 DEF AzInv, TypeOK
<1>5. TypeOK'
  <2>1. upload.offset + sends \in 0..file
    BY <1>2
  <2>2. upload' \in [size: 0..MaxFile, deferred: BOOLEAN, offset: 0..file, indexes: Seq(Indexes)]
    BY <1>1, <1>3, <2>1 DEF AzInv, TypeOK
  <2>3. staged' \in [Indexes -> Seq(Nat) \cup {NoBlob}]
    BY <1>3 DEF StagedOK, Upto, BlockMap
  <2> QED
    BY <1>1, <2>2, <2>3 DEF AzInv, TypeOK
<1>6. Phases' /\ Lengths'
  BY <1>1, <1>2 DEF AzInv, Phases, Lengths
<1>7. Knows' /\ Sends'
  BY <1>1, <1>2, <1>3, <1>4 DEF Knows, Sends, Writing
<1>8. BlobIsFile'
  BY <1>1, BlobKept
<1> QED
  BY <1>3, <1>5, <1>6, <1>7, <1>8 DEF AzInv

(* A chunk that fails may have been staged; the next request counts it. *)
LEMMA KeepsWriteFails == ASSUME AzInv, WriteChunkFails PROVE AzInv'
<1>1. /\ pc = "write" /\ err' = TRUE /\ pc' = "finish"
      /\ UNCHANGED <<info, sentinel, committed, exists, sends, declared, completes,
                     file, published, gone, finished>>
  BY DEF WriteChunkFails, histVars
<1>2. /\ published /\ ~gone /\ ~finished /\ info # NoBlob /\ ~err /\ ~Complete(upload)
      /\ upload.offset \in Nat /\ file \in Nat /\ sends \in Nat
      /\ sends = 0 \/ upload.offset + sends <= file
      /\ upload.size = info.size /\ upload.deferred = info.deferred
  BY <1>1, AtWork DEF AzInv, Knows, Sends, Writing
<1>3. upload' = upload \/ upload' = [upload EXCEPT !.indexes = Append(@, NextIndex)]
  BY DEF WriteChunkFails
<1>4. \/ staged' = staged
      \/ sends > 0 /\ staged' = [staged EXCEPT ![NextIndex] = Bytes(upload.offset, sends)]
  BY DEF WriteChunkFails
<1>5. StagedOK'
  <2>1. CASE staged' = staged
    BY <1>1, <2>1, StagedKept
  <2>2. CASE sends > 0 /\ staged' = [staged EXCEPT ![NextIndex] = Bytes(upload.offset, sends)]
    <3>1. upload.offset + sends <= file
      BY <1>2, <2>2
    <3> QED
      BY <1>1, <1>2, <2>2, <3>1, WriteStaged
  <2> QED
    BY <1>4, <2>1, <2>2
<1>6. upload' \in [size: 0..MaxFile, deferred: BOOLEAN, offset: 0..file, indexes: Seq(Indexes)]
  <2>1. upload \in [size: 0..MaxFile, deferred: BOOLEAN, offset: 0..file, indexes: Seq(Indexes)]
    BY DEF AzInv, TypeOK
  <2>2. NextIndex \in Indexes
    BY <1>1, NextBlock
  <2>3. Append(upload.indexes, NextIndex) \in Seq(Indexes)
    BY <2>1, <2>2
  <2> QED
    BY <1>3, <2>1, <2>3
<1>7. /\ upload'.size = upload.size /\ upload'.deferred = upload.deferred
      /\ upload'.offset = upload.offset
  BY <1>3 DEF AzInv, TypeOK
<1>8. TypeOK'
  <2>1. staged' \in [Indexes -> Seq(Nat) \cup {NoBlob}]
    BY <1>5 DEF StagedOK, Upto, BlockMap
  <2> QED
    BY <1>1, <1>6, <2>1 DEF AzInv, TypeOK
<1>9. Phases' /\ Lengths'
  BY <1>1, <1>2 DEF AzInv, Phases, Lengths
<1>10. Knows' /\ Sends'
  BY <1>1, <1>2, <1>7 DEF Knows, Sends, Writing, Complete
<1>11. BlobIsFile'
  BY <1>1, BlobKept
<1> QED
  BY <1>5, <1>8, <1>9, <1>10, <1>11 DEF AzInv

(* A request finishes the upload only if all of the file is staged. *)
LEMMA KeepsFinish == ASSUME AzInv, finishUploadIfComplete PROVE AzInv'
<1>1. pc = "finish" /\ UNCHANGED <<info, staged, sentinel, committed, exists, file, published, gone, finished>>
  BY DEF finishUploadIfComplete, blobVars, histVars
<1>2. /\ published /\ ~gone /\ ~finished /\ info # NoBlob
      /\ upload.size = info.size /\ upload.deferred = info.deferred
      /\ ~err => upload.indexes = Sorted /\ upload.offset = Len(Data(Staged))
      /\ file \in Nat /\ upload.offset \in Nat
      /\ completes /\ ~err => upload.offset = file
      /\ err => ~Complete(upload)
  BY <1>1, AtWork DEF AzInv, Knows, Sends, Writing
<1>3. StagedOK' /\ BlobIsFile' /\ Sorted' = Sorted /\ Data(Staged)' = Data(Staged)
  BY <1>1, StagedKept, BlobKept
<1>4. CASE Complete(upload) /\ pc' = "commit" /\ UNCHANGED reqVars
  <2>1. UNCHANGED <<upload, sends, declared, completes, err>> /\ pc' = "commit" /\ ~err
    BY <1>2, <1>4 DEF reqVars
  <2>2. TypeOK'
    BY <1>1, <2>1 DEF AzInv, TypeOK
  <2>3. Phases' /\ Lengths'
    BY <1>1, <1>2, <2>1 DEF AzInv, Phases, Lengths
  <2>4. Knows' /\ Sends'
    BY <1>1, <1>2, <1>3, <1>4, <2>1 DEF Knows, Sends, Writing, Complete
  <2> QED
    BY <1>3, <2>2, <2>3, <2>4 DEF AzInv
<1>5. CASE /\ ~Complete(upload) /\ completes /\ ~err /\ declared' = upload.offset
           /\ pc' = "declareLast" /\ UNCHANGED <<upload, sends, completes, err>>
  <2>1. TypeOK'
    BY <1>1, <1>2, <1>5 DEF AzInv, TypeOK
  <2>2. Phases' /\ Lengths'
    BY <1>1, <1>2, <1>5 DEF AzInv, Phases, Lengths
  <2>3. Knows' /\ Sends'
    BY <1>1, <1>2, <1>3, <1>5 DEF Knows, Sends, Writing, Complete
  <2> QED
    BY <1>3, <2>1, <2>2, <2>3 DEF AzInv
<1>6. CASE Respond
  BY <1>6, RespondKeeps DEF finishUploadIfComplete
<1> QED
  BY <1>4, <1>5, <1>6 DEF finishUploadIfComplete

(* What is committed is the list of the staged blocks. *)
LEMMA CommitStaged ==
  ASSUME AzInv, pc = "commit"
  PROVE  Blocks(upload.indexes, Latest) = Staged /\ Len(Data(Staged)) = file
<1>1. /\ upload.indexes = Sorted /\ upload.offset = Len(Data(Staged)) /\ file \in Nat
      /\ upload.size = IF upload.deferred THEN 0 ELSE file
  BY AtWork DEF AzInv, Knows, Writing
<1>2. Len(Data(Staged)) = file
  BY <1>1 DEF AzInv, Knows, Complete
<1>3. PICK n \in 0..MaxBlocks : Upto(staged, n)
  BY StagedFacts
<1>4. /\ Len(Sorted) = n /\ \A k \in 1..n : Sorted[k] = k - 1 /\ k - 1 \in Indexes
  BY <1>3, StagedUpto, StagedNow
<1>5. ASSUME NEW k \in 1..n PROVE Latest[Sorted[k]] = staged[Sorted[k]]
  <2>1. k - 1 \in Indexes /\ k - 1 < n
    BY <1>4
  <2>2. staged[k - 1] # NoBlob
    BY <1>3, <2>1 DEF Upto
  <2> QED
    BY <1>4, <2>1, <2>2 DEF Latest
<1>6. Blocks(Sorted, Latest) = Blocks(Sorted, staged)
  BY <1>4, <1>5 DEF Blocks
<1> QED
  BY <1>1, <1>2, <1>6 DEF Staged

LEMMA KeepsCommit == ASSUME AzInv, Commit PROVE AzInv'
<1>1. pc = "commit" /\ Respond /\ UNCHANGED <<info, file, published, gone>>
  BY DEF Commit
<1>2. CASE /\ committed' = Blocks(upload.indexes, Latest) /\ staged' = NoBlocks /\ sentinel' = FALSE
           /\ exists' = TRUE /\ finished' = TRUE
  <2>1. committed' = Staged /\ Len(Data(Staged)) = file
    BY <1>1, <1>2, CommitStaged
  <2>2. /\ published /\ ~gone /\ info # NoBlob /\ file \in Nat /\ ~info.deferred
    BY <1>1, AtWork DEF AzInv, Knows, Writing, Complete
  <2>3. Data(committed)' = Bytes(0, file)
    <3>1. Data(committed)' = Data(Staged)
      BY <2>1 DEF Data
    <3> QED
      BY <2>1, <3>1, StagedFacts
  <2>4. BlobIsFile'
    BY <1>1, <2>3 DEF BlobIsFile, Bytes
  <2>5. Staged \in Seq([index: Indexes, bytes: Seq(Nat)])
    <3>1. PICK n \in 0..MaxBlocks : Upto(staged, n)
      BY StagedFacts
    <3>2. /\ Staged = [k \in 1..n |-> [index |-> k - 1, bytes |-> staged[k - 1]]] /\ n \in Nat
          /\ \A k \in 1..n : k - 1 \in Indexes /\ staged[k - 1] \in Seq(Nat)
      BY <3>1, StagedUpto, StagedNow
    <3> QED
      BY <3>2
  <2>6. NoUpload \in [size: 0..MaxFile, deferred: BOOLEAN, offset: 0..file, indexes: Seq(Indexes)]
    BY <2>2, AzureAssumption DEF NoUpload
  <2>7. TypeOK'
    <3>1. NoBlocks \in [Indexes -> Seq(Nat) \cup {NoBlob}]
      BY DEF NoBlocks
    <3> QED
      BY <1>1, <1>2, <2>1, <2>5, <2>6, <3>1 DEF AzInv, TypeOK, Respond
  <2>8. StagedOK'
    <3>1. Data(Staged)' = <<>> /\ Upto(staged', 0) /\ 0 \in 0..MaxBlocks
      BY <1>2, StagedNow, NothingStaged DEF Data, Upto
    <3>2. Len(Data(Staged)') = 0 /\ Bytes(0, 0) = <<>> /\ 0 <= file'
      BY <1>1, <2>2, <3>1 DEF Bytes
    <3> QED
      BY <3>1, <3>2 DEF StagedOK, Upto, BlockMap, Bytes
  <2>9. Phases' /\ Lengths'
    BY <1>1, <1>2, <2>2 DEF AzInv, Phases, Lengths, Respond
  <2>10. Knows' /\ Sends'
    BY <1>1 DEF Knows, Sends, Writing, Respond
  <2> QED
    BY <2>4, <2>7, <2>8, <2>9, <2>10 DEF AzInv
<1>3. CASE UNCHANGED <<staged, sentinel, committed, exists, finished>>
  BY <1>1, <1>3, RespondKeeps DEF blobVars, histVars
<1> QED
  BY <1>2, <1>3 DEF Commit

(* Terminate takes the info first; what is left cannot be reached. *)
LEMMA KeepsTerminate == ASSUME AzInv, Terminate PROVE AzInv'
<1>1. /\ pc = "idle" /\ published /\ info # NoBlob /\ info' = NoBlob /\ gone' = TRUE /\ pc' = "deleteBlob"
      /\ UNCHANGED <<staged, sentinel, committed, exists, upload, sends, declared, completes, err,
                     file, published, finished>>
  BY DEF Terminate, reqVars
<1>2. ~err
  BY <1>1 DEF AzInv, Knows
<1>3. TypeOK'
  BY <1>1 DEF AzInv, TypeOK
<1>4. StagedOK' /\ BlobIsFile'
  BY <1>1, StagedKept, BlobKept
<1>5. Phases' /\ Lengths' /\ Knows' /\ Sends'
  BY <1>1, <1>2 DEF Phases, Lengths, Knows, Sends, Writing
<1> QED
  BY <1>3, <1>4, <1>5 DEF AzInv

LEMMA KeepsDeleteBlob == ASSUME AzInv, DeleteBlob PROVE AzInv'
<1>1. /\ pc = "deleteBlob" /\ committed' = <<>> /\ exists' = FALSE /\ Respond
      /\ UNCHANGED <<info, file, published, gone, finished>>
      /\ \/ staged' = NoBlocks /\ sentinel' = FALSE
         \/ UNCHANGED <<staged, sentinel>>
  BY DEF DeleteBlob, histVars
<1>2. gone /\ info = NoBlob /\ published /\ file \in 0..MaxFile /\ file \in Nat
  BY <1>1, AzureAssumption DEF AzInv, Phases, TypeOK
<1>3. TypeOK'
  <2>1. NoBlocks \in [Indexes -> Seq(Nat) \cup {NoBlob}]
    BY DEF NoBlocks
  <2>2. NoUpload \in [size: 0..MaxFile, deferred: BOOLEAN, offset: 0..file, indexes: Seq(Indexes)]
    BY <1>2, AzureAssumption DEF NoUpload
  <2>3. <<>> \in Seq([index: Indexes, bytes: Seq(Nat)])
    OBVIOUS
  <2>4. staged' \in [Indexes -> Seq(Nat) \cup {NoBlob}] /\ sentinel' \in BOOLEAN
    BY <1>1, <2>1 DEF AzInv, TypeOK
  <2> QED
    BY <1>1, <2>2, <2>3, <2>4 DEF AzInv, TypeOK, Respond
<1>4. StagedOK'
  <2>1. CASE staged' = NoBlocks
    <3>1. Data(Staged)' = <<>> /\ Upto(staged', 0) /\ 0 \in 0..MaxBlocks
      BY <2>1, StagedNow, NothingStaged DEF Data, Upto
    <3>2. Len(Data(Staged)') = 0 /\ Bytes(0, 0) = <<>> /\ 0 <= file'
      BY <1>1, <1>2, <3>1 DEF Bytes
    <3> QED
      BY <3>1, <3>2 DEF StagedOK, Upto, BlockMap, Bytes
  <2>2. CASE staged' = staged
    BY <1>1, <2>2, StagedKept
  <2> QED
    BY <1>1, <2>1, <2>2
<1>5. Phases' /\ Lengths' /\ Knows' /\ Sends' /\ BlobIsFile'
  BY <1>1, <1>2 DEF Phases, Lengths, Knows, Sends, Writing, BlobIsFile, Respond
<1> QED
  BY <1>3, <1>4, <1>5 DEF AzInv

LEMMA InitAz == Init => AzInv
<1> SUFFICES ASSUME Init PROVE AzInv
  OBVIOUS
<1> USE DEF Init
<1>1. TypeOK
  <2>1. NoBlocks \in [Indexes -> Seq(Nat) \cup {NoBlob}]
    BY DEF NoBlocks
  <2>2. NoUpload \in [size: 0..MaxFile, deferred: BOOLEAN, offset: 0..file, indexes: Seq(Indexes)]
    BY AzureAssumption DEF NoUpload
  <2>3. committed \in Seq([index: Indexes, bytes: Seq(Nat)])
    <3>1. 0 \in Indexes /\ <<0, 0>> \in Seq(Nat)
      BY AzureAssumption DEF Indexes
    <3>2. OldBlob \in Seq([index: Indexes, bytes: Seq(Nat)]) /\ <<>> \in Seq([index: Indexes, bytes: Seq(Nat)])
      BY <3>1 DEF OldBlob
    <3> QED
      BY <3>2
  <2>4. exists \in BOOLEAN
    OBVIOUS
  <2>5. 0 \in 0..MaxFile /\ NoBlob \in [size: Nat, deferred: BOOLEAN] \cup {NoBlob}
    BY AzureAssumption
  <2> QED
    BY <2>1, <2>2, <2>3, <2>4, <2>5 DEF TypeOK
<1>2. StagedOK
  <2>1. Data(Staged) = <<>> /\ Upto(staged, 0) /\ 0 \in 0..MaxBlocks
    BY StagedNow, NothingStaged DEF Upto
  <2>2. Len(Data(Staged)) = 0 /\ Bytes(0, 0) = <<>>
    BY <2>1 DEF Bytes
  <2> QED
    BY <2>1, <2>2 DEF StagedOK
<1>3. Phases /\ Lengths /\ Knows /\ Sends /\ BlobIsFile
  BY DEF Phases, Lengths, Knows, Sends, BlobIsFile, Writing
<1> QED
  BY <1>1, <1>2, <1>3 DEF AzInv

LEMMA NextAz == ASSUME AzInv, PlainRequests, [Next]_vars PROVE AzInv'
<1>1. CASE UNCHANGED vars
  <2>1. UNCHANGED <<info, staged, sentinel, committed, exists, pc, upload, sends, declared, completes,
                    err, file, published, gone, finished>>
    BY <1>1 DEF vars, blobVars, reqVars, histVars
  <2>2. StagedOK' /\ BlobIsFile' /\ Sorted' = Sorted /\ Data(Staged)' = Data(Staged)
    BY <2>1, StagedKept, BlobKept
  <2>3. TypeOK' /\ Phases' /\ Lengths'
    BY <2>1 DEF AzInv, TypeOK, Phases, Lengths
  <2>4. Knows' /\ Sends'
    BY <2>1, <2>2 DEF AzInv, Knows, Sends, Complete
  <2> QED
    BY <2>2, <2>3, <2>4 DEF AzInv
<1>2. CASE RequestFails
  BY <1>2, RespondKeeps DEF RequestFails
<1> QED
  BY <1>1, <1>2, KeepsNewUpload, KeepsSentinel, KeepsPatch, KeepsDeclare, KeepsWriteChunk,
     KeepsWriteFails, KeepsFinish, KeepsCommit, KeepsTerminate, KeepsDeleteBlob DEF Next

LEMMA AzInvariance == ASSUME PlainRequests PROVE Spec => []AzInv
BY InitAz, NextAz, PTL DEF Spec

(* Every variable keeps its type: no block is staged beyond the bound, and *)
(* no offset exceeds the file.                                             *)
THEOREM TypeCorrect == ASSUME PlainRequests PROVE Spec => []TypeOK
<1>1. AzInv => TypeOK
  BY DEF AzInv
<1> QED
  BY <1>1, AzInvariance, PTL

(* BlobIsFile: the blob that FinishUpload commits is the client's file,    *)
(* for every size and number of chunks, whichever of them failed after     *)
(* they were staged, and whatever the key held before.                     *)
THEOREM BlobIsFileCorrect == ASSUME PlainRequests PROVE Spec => []BlobIsFile
<1>1. AzInv => BlobIsFile
  BY DEF AzInv
<1> QED
  BY <1>1, AzInvariance, PTL

(* TruthfulOffset: GetOffset counts the blocks of this upload, never those *)
(* of an older blob with the same key, because the sentinel block is there *)
(* until the list is committed.                                            *)
THEOREM TruthfulOffsetCorrect == ASSUME PlainRequests PROVE Spec => []TruthfulOffset
<1>1. AzInv => TruthfulOffset
  BY GetUploadFacts DEF TruthfulOffset
<1> QED
  BY <1>1, AzInvariance, PTL

-----------------------------------------------------------------------------

(* The abstract state in the four phases. *)
LEMMA View ==
  /\ info = NoBlob /\ ~gone => phaseOf = "none" /\ dataOf = <<>>
  /\ gone => phaseOf = "gone" /\ dataOf = <<>>
  /\ info # NoBlob /\ ~gone /\ ~finished => phaseOf = "open" /\ dataOf = Data(Staged)
  /\ info # NoBlob /\ ~gone /\ finished => phaseOf = "finished" /\ dataOf = Data(committed)
BY DEF phaseOf, dataOf

LEMMA ViewNext ==
  /\ info' = NoBlob /\ ~gone' => phaseOf' = "none" /\ dataOf' = <<>>
  /\ gone' => phaseOf' = "gone" /\ dataOf' = <<>>
  /\ info' # NoBlob /\ ~gone' /\ ~finished' => phaseOf' = "open" /\ dataOf' = Data(Staged)'
  /\ info' # NoBlob /\ ~gone' /\ finished' => phaseOf' = "finished" /\ dataOf' = Data(committed)'
BY DEF phaseOf, dataOf

(* A step that changes neither the blocks nor the blob nor the history,    *)
(* and leaves the info there or away, is not seen.                         *)
LEMMA Unseen ==
  ASSUME UNCHANGED <<staged, committed, gone, finished>>, info' = NoBlob <=> info = NoBlob
  PROVE  UNCHANGED Store!storeVars
<1>1. Data(Staged)' = Data(Staged) /\ Data(committed)' = Data(committed)
  BY StagedNow DEF Data
<1>2. phaseOf' = phaseOf /\ dataOf' = dataOf
  BY <1>1, View, ViewNext
<1> QED
  BY <1>2 DEF Store!storeVars

(* A block that is staged is the next data of the upload. *)
LEMMA StagedSeen ==
  ASSUME AzInv, pc = "write", sends \in Nat, sends > 0, upload.offset + sends <= file,
         staged' = [staged EXCEPT ![NextIndex] = Bytes(upload.offset, sends)],
         UNCHANGED <<info, file, gone, finished>>
  PROVE  Store!WriteChunk
<1>1. /\ ~gone /\ ~finished /\ info # NoBlob /\ upload.offset \in Nat
      /\ upload.offset = Len(Data(Staged))
  BY AtWork DEF AzInv, Knows, Writing
<1>2. StagedOK' /\ Len(Data(Staged)') = upload.offset + sends
  BY WriteStaged
<1>3. Data(Staged)' = [k \in 1..Len(Data(Staged)') |-> k]
  BY <1>2 DEF StagedOK, Bytes
<1>4. phaseOf = "open" /\ phaseOf' = "open" /\ dataOf = Data(Staged) /\ dataOf' = Data(Staged)'
  BY <1>1, View, ViewNext
<1>5. Len(dataOf') > Len(dataOf)
  BY <1>1, <1>2, <1>4
<1> QED
  BY <1>3, <1>4, <1>5 DEF Store!WriteChunk

(* The Azure store implements UploadStore: step by step, whatever fails,   *)
(* an upload is created empty, grows by the next bytes of the client's     *)
(* file, is finished with all that is stored, or is terminated for good.   *)
THEOREM StoreRefinement == ASSUME PlainRequests PROVE Spec => ImplementsUploadStore
<1>1. Init => Store!StoreInit
  BY View DEF Init, Store!StoreInit
<1>2. ASSUME AzInv, [Next]_vars PROVE [Store!StoreNext]_(Store!storeVars)
  <2>1. CASE NewUpload
    <3>1. info = NoBlob /\ ~gone /\ ~gone' /\ ~finished' /\ staged' = NoBlocks /\ info' # NoBlob
      <4>1. info' \in [size: Nat, deferred: BOOLEAN]
        BY <2>1, AzureAssumption DEF NewUpload
      <4> QED
        BY <1>2, <2>1, <4>1, AzureAssumption DEF NewUpload, AzInv, Phases
    <3>2. Data(Staged)' = <<>>
      BY <3>1, StagedNow, NothingStaged DEF Data
    <3> QED
      BY <3>1, <3>2, View, ViewNext DEF Store!StoreNext, Store!NewUpload
  <2>2. CASE StageSentinelBlock \/ Patch \/ finishUploadIfComplete \/ RequestFails \/ UNCHANGED vars
    BY <2>2, Unseen DEF StageSentinelBlock, Patch, finishUploadIfComplete, RequestFails, vars,
                        blobVars, histVars
  <2>3. CASE DeclareLength
    <3>1. info # NoBlob /\ info' # NoBlob
      <4>1. pc \in {"declare", "declareLast"} /\ declared \in Nat
        BY <1>2, <2>3, AzureAssumption DEF DeclareLength, AzInv, Sends, TypeOK
      <4>2. info' \in [size: Nat, deferred: BOOLEAN]
        BY <2>3, <4>1 DEF DeclareLength
      <4> QED
        BY <1>2, <4>1, <4>2, AtWork, AzureAssumption DEF Writing
    <3> QED
      BY <2>3, <3>1, Unseen DEF DeclareLength, histVars
  <2>4. CASE WriteChunk \/ WriteChunkFails
    <3>1. /\ pc = "write" /\ sends \in Nat /\ UNCHANGED <<info, committed, file, gone, finished>>
          /\ sends = 0 \/ upload.offset + sends <= file
      BY <1>2, <2>4 DEF WriteChunk, WriteChunkFails, histVars, AzInv, TypeOK, Sends
    <3>2. \/ staged' = staged
          \/ sends > 0 /\ staged' = [staged EXCEPT ![NextIndex] = Bytes(upload.offset, sends)]
      BY <2>4 DEF WriteChunk, WriteChunkFails
    <3>3. CASE staged' = staged
      BY <3>1, <3>3, Unseen
    <3>4. CASE sends > 0 /\ staged' = [staged EXCEPT ![NextIndex] = Bytes(upload.offset, sends)]
      BY <1>2, <3>1, <3>4, StagedSeen DEF Store!StoreNext
    <3> QED
      BY <3>2, <3>3, <3>4
  <2>5. CASE Commit
    <3>1. pc = "commit" /\ UNCHANGED <<info, gone>> /\ ~gone /\ ~finished /\ info # NoBlob
      BY <1>2, <2>5, AtWork DEF Commit, Writing
    <3>2. CASE committed' = Blocks(upload.indexes, Latest) /\ finished' = TRUE
      <4>1. Data(committed)' = Data(Staged)
        BY <1>2, <3>1, <3>2, CommitStaged DEF Data
      <4> QED
        BY <3>1, <3>2, <4>1, View, ViewNext DEF Store!StoreNext, Store!FinishUpload
    <3>3. CASE UNCHANGED <<staged, committed, finished>>
      BY <3>1, <3>3, Unseen
    <3> QED
      BY <2>5, <3>2, <3>3 DEF Commit
  <2>6. CASE Terminate
    <3>1. ~gone /\ info # NoBlob /\ gone'
      BY <1>2, <2>6 DEF Terminate, AzInv, Phases
    <3> QED
      BY <3>1, View, ViewNext DEF Store!StoreNext, Store!Terminate
  <2>7. CASE DeleteBlob
    <3>1. gone /\ gone'
      BY <1>2, <2>7 DEF DeleteBlob, histVars, AzInv, Phases
    <3> QED
      BY <3>1, View, ViewNext DEF Store!storeVars
  <2> QED
    BY <1>2, <2>1, <2>2, <2>3, <2>4, <2>5, <2>6, <2>7 DEF Next
<1> QED
  BY <1>1, <1>2, AzInvariance, PTL DEF Spec, ImplementsUploadStore, Store!StoreSpec
=============================================================================
