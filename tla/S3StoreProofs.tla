--------------------------- MODULE S3StoreProofs ----------------------------
(***************************************************************************)
(* What holds of S3Store for every value of the constants.                 *)
(*                                                                         *)
(* The semaphore: SlotInv is inductive.  The data: the parts are uploaded  *)
(* in any order, some fail and are uploaded again by later requests, and   *)
(* `.part` is cut anew by every request; what stays is a layout, the       *)
(* places where the file is being cut.  Every part in the bucket is the    *)
(* slice that its number stands for (Layout), a request extends the layout *)
(* at its end, and a new one takes it up after the last part that is       *)
(* stored.  The invariant says that there is such a layout, and relates it *)
(* to the offset, to the list of the request and to what is acknowledged.  *)
(***************************************************************************)
EXTENDS S3Store, SequenceFacts, FiniteSetTheorems, TLAPS

(* Quotient and rest, ... *)
LEMMA Division ==
  ASSUME NEW s \in Nat, NEW M \in Nat \ {0}
  PROVE  s = M * (s \div M) + (s % M) /\ s % M \in 0..(M - 1) /\ s \div M \in Nat
OBVIOUS

(* ... and that they are unique. *)
LEMMA DivisionUnique ==
  ASSUME NEW M \in Nat \ {0}, NEW q \in Int, NEW p \in Int, NEW r \in 0..(M - 1), NEW t \in 0..(M - 1),
         M * q + r = M * p + t
  PROVE  q = p /\ r = t
OBVIOUS

(* calcOptimalPartSize: no part is too small, the parts are not too many,  *)
(* and none is too large if that is possible at all.                       *)
LEMMA PartSizes ==
  ASSUME NEW size \in Nat
  PROVE  LET n == calcOptimalPartSize(size)
         IN  /\ n \in Nat \ {0} /\ n >= MinPartSize
             /\ n * MaxMultipartParts >= size
             /\ size <= MaxPartSize * MaxMultipartParts => n <= MaxPartSize
             /\ size = 0 => n = PreferredPartSize
<1> USE PartSizeAssumption
<1> DEFINE M == MaxMultipartParts
           n == calcOptimalPartSize(size)
           d == size \div M
<1>0. size = M * d + (size % M) /\ size % M \in 0..(M - 1) /\ d \in Nat /\ M \in Nat \ {0}
  BY Division
<1>4. PreferredPartSize * M \in Nat
  OBVIOUS
<1>1. CASE size <= PreferredPartSize * M
  <2>1. n = PreferredPartSize
    BY <1>1 DEF calcOptimalPartSize
  <2> QED
    BY <1>1, <2>1
<1>2. CASE size > PreferredPartSize * M /\ size % M = 0
  <2>1. n = d
    BY <1>2 DEF calcOptimalPartSize
  <2>2. size = M * d
    BY <1>0, <1>2
  <2>3. d > PreferredPartSize
    BY <1>0, <1>2, <2>2
  <2>4. size <= MaxPartSize * M => d <= MaxPartSize
    BY <1>0, <2>2
  <2>5. n * M >= size
    BY <1>0, <2>1, <2>2
  <2>6. size # 0
    BY <1>0, <1>2, <1>4
  <2> HIDE DEF d
  <2> QED
    BY <1>0, <1>2, <2>1, <2>3, <2>4, <2>5, <2>6
<1>3. CASE size > PreferredPartSize * M /\ size % M # 0
  <2>1. n = d + 1
    BY <1>3 DEF calcOptimalPartSize
  <2>2. (d + 1) * M > size
    BY <1>0
  <2>3. d + 1 > PreferredPartSize
    BY <1>0, <1>3, <2>2
  <2>4. size <= MaxPartSize * M => d + 1 <= MaxPartSize
    BY <1>0, <1>3
  <2>6. size # 0
    BY <1>0, <1>3, <1>4
  <2> HIDE DEF d
  <2> QED
    BY <1>0, <1>3, <2>1, <2>2, <2>3, <2>4, <2>6
<1> QED
  BY <1>0, <1>1, <1>2, <1>3, <1>4

-----------------------------------------------------------------------------

(* An entry of listAllParts; the parts of the multipart upload. *)
ListedPart == [number: PartNumbers, etag: Seq(Nat)]

(* The parts by their numbers. *)
PartMap == [PartNumbers -> Seq(Nat) \cup {NoObject}]

(* `listed` for the parts ps. *)
ListedOf(ps) ==
  CHOOSE g : g = [n \in 0..MaxMultipartParts |->
                    IF n = 0 THEN <<>>
                    ELSE IF ps[n] = NoObject THEN g[n - 1]
                    ELSE Append(g[n - 1], [number |-> n, etag |-> ps[n]])]

(* The recursive function of the model is that function, in both states. *)
LEMMA ListedNow == listed = ListedOf(parts) /\ listed' = ListedOf(parts')
BY DEF listed, ListedOf

(* It exists, and computes what its definition says. *)
LEMMA Listing ==
  ASSUME NEW ps \in PartMap
  PROVE  /\ ListedOf(ps) \in [0..MaxMultipartParts -> Seq(ListedPart)]
         /\ ListedOf(ps)[0] = <<>>
         /\ \A n \in PartNumbers :
              ListedOf(ps)[n] = IF ps[n] = NoObject THEN ListedOf(ps)[n - 1]
                          ELSE Append(ListedOf(ps)[n - 1], [number |-> n, etag |-> ps[n]])
<1> DEFINE M == MaxMultipartParts
           Next1(n, x) == IF ps[n] = NoObject THEN x
                          ELSE Append(x, [number |-> n, etag |-> ps[n]])
           step == [n \in Nat |-> [x \in Seq(ListedPart) |-> IF n \in 1..M THEN Next1(n, x) ELSE x]]
           Is(g) == g = [n \in 0..M |-> IF n = 0 THEN <<>> ELSE Next1(n, g[n - 1])]
<1>0. M \in Nat \ {0}
  BY PartSizeAssumption
<1>1. \A n \in 1..M, x \in Seq(ListedPart) : Next1(n, x) \in Seq(ListedPart)
  <2>1. \A n \in 1..M : ps[n] # NoObject => [number |-> n, etag |-> ps[n]] \in ListedPart
    BY DEF PartMap, PartNumbers, ListedPart
  <2> QED
    BY <2>1, AppendProperties
<1>2. step \in [Nat -> [Seq(ListedPart) -> Seq(ListedPart)]]
  <2> HIDE DEF Next1
  <2> QED
    BY <1>1
<1>3. Recursion(Seq(ListedPart), <<>>, step)
  <2>1. <<>> \in Seq(ListedPart)
    BY EmptySeq
  <2> HIDE DEF step
  <2> QED
    BY <1>2, <2>1, RecursionExists
<1>4. PICK f \in [Nat -> Seq(ListedPart)] :
              f[0] = <<>> /\ \A n \in Nat : f[n + 1] = step[n + 1][f[n]]
  BY <1>3 DEF Recursion
<1>5. ASSUME NEW n \in 1..M PROVE f[n] = Next1(n, f[n - 1])
  <2>1. n - 1 \in Nat /\ n \in Nat /\ (n - 1) + 1 = n
    OBVIOUS
  <2>2. f[n] = step[n][f[n - 1]] /\ f[n - 1] \in Seq(ListedPart)
    <3> HIDE DEF step
    <3> QED
      BY <1>4, <2>1
  <2> HIDE DEF Next1
  <2> QED
    BY <2>1, <2>2
<1> DEFINE h == [n \in 0..M |-> f[n]]
<1>6. h \in [0..M -> Seq(ListedPart)] /\ h[0] = <<>> /\ \A n \in 1..M : h[n] = Next1(n, h[n - 1])
  <2> HIDE DEF Next1, step
  <2>1. h \in [0..M -> Seq(ListedPart)] /\ h[0] = <<>>
    BY <1>0, <1>4
  <2>2. \A n \in 1..M : h[n] = f[n] /\ h[n - 1] = f[n - 1]
    BY <1>0
  <2> QED
    BY <1>5, <2>1, <2>2
<1>7. Is(h)
  <2> HIDE DEF h, step, Next1
  <2>1. ASSUME NEW n \in 0..M PROVE h[n] = IF n = 0 THEN <<>> ELSE Next1(n, h[n - 1])
    <3>1. n # 0 => n \in 1..M
      BY <1>0
    <3> QED
      BY <1>6, <3>1
  <2> HIDE DEF M
  <2>2. h = [n \in 0..M |-> h[n]]
    BY <1>6
  <2> QED
    BY <2>1, <2>2
<1>8. ASSUME NEW g, Is(g)
      PROVE  \A n \in 0..M : g[n] = h[n]
  <2> DEFINE V == {k \in Nat : k \in 0..M => g[k] = h[k]}
  <2> HIDE DEF h, step, Next1
  <2>0. g[0] = <<>> /\ \A n \in 1..M : g[n] = Next1(n, g[n - 1])
    <3>1. \A n \in 0..M : g[n] = IF n = 0 THEN <<>> ELSE Next1(n, g[n - 1])
      <4> HIDE DEF M
      <4> QED
        BY <1>8
    <3>2. 0 \in 0..M /\ \A n \in 1..M : n \in 0..M /\ n # 0
      BY <1>0
    <3> HIDE DEF Is, M
    <3> QED
      BY <3>1, <3>2
  <2> HIDE DEF Is
  <2>1. 0 \in V
    BY <1>6, <2>0
  <2>2. ASSUME NEW k \in Nat, k \in V PROVE k + 1 \in V
    <3>1. CASE k + 1 \in 1..M
      <4>1. k \in 0..M /\ (k + 1) - 1 = k
        BY <1>0, <3>1
      <4> QED
        BY <1>6, <2>0, <2>2, <3>1, <4>1
    <3>2. CASE k + 1 \notin 1..M
      BY <3>2
    <3> QED
      BY <3>1, <3>2
  <2>3. \A k \in Nat : k \in V
    BY <2>1, <2>2, SetInduction
  <2> QED
    BY <1>0, <2>3
<1>9. Is(ListedOf(ps))
  <2>1. ListedOf(ps) = CHOOSE g : Is(g)
    BY DEF ListedOf
  <2> HIDE DEF Is, h
  <2> QED
    BY <1>7, <2>1
<1>10. ListedOf(ps) = h
  <2> DEFINE l == ListedOf(ps)
  <2>1. l = [n \in 0..M |-> l[n]]
    <3> HIDE DEF Next1, M, l
    <3> QED
    BY <1>9 DEF l
  <2>2. \A n \in 0..M : l[n] = h[n]
    <3> HIDE DEF Is, h, l
    <3> QED
      BY <1>8, <1>9 DEF l
  <2>3. h = [n \in 0..M |-> h[n]]
    OBVIOUS
  <2> HIDE DEF h, Is, l
  <2> QED
    BY <2>1, <2>2, <2>3 DEF l
<1> HIDE DEF h, step, Is
<1> QED
  BY <1>6, <1>10 DEF PartNumbers

(* The data of a list of parts is a sequence of bytes, ... *)
LEMMA ContentType ==
  ASSUME NEW list, NEW S, list \in Seq([number: S, etag: Seq(Nat)])
  PROVE  Content(list) \in Seq(Nat)
<1>0. Len(list) \in Nat /\ \A i \in 1..Len(list) : list[i].etag \in Seq(Nat)
  <2>1. \A i \in 1..Len(list) : list[i] \in [number: S, etag: Seq(Nat)]
    BY ElementOfSeq
  <2> QED
    BY <2>1
<1>1. [i \in 1..Len(list) |-> list[i].etag] \in Seq(Seq(Nat))
  BY <1>0
<1> QED
  BY <1>1, FlattenAppend DEF Content

(* ... and so is what the bucket holds. *)
LEMMA StoredType ==
  ASSUME parts \in PartMap, tail \in Seq(Nat) \cup {NoObject}
  PROVE  /\ listAllParts \in Seq(ListedPart) /\ listAllParts \in Seq([number: Nat, etag: Seq(Nat) \cup {NoObject}])
         /\ Tail0 \in Seq(Nat) /\ Content(listAllParts) \in Seq(Nat) /\ Stored \in Seq(Nat)
<1>1. listAllParts \in Seq(ListedPart)
  BY Listing, ListedNow, PartSizeAssumption DEF listAllParts
<1>2. ListedPart \subseteq [number: Nat, etag: Seq(Nat) \cup {NoObject}]
  BY PartSizeAssumption DEF ListedPart, PartNumbers
<1>3. listAllParts \in Seq([number: Nat, etag: Seq(Nat) \cup {NoObject}])
  BY <1>1, <1>2, SeqMonotonic
<1>4. Tail0 \in Seq(Nat)
  BY DEF Tail0
<1>5. Content(listAllParts) \in Seq(Nat)
  BY <1>1, ContentType DEF ListedPart
<1> QED
  BY <1>1, <1>3, <1>4, <1>5 DEF Stored

(* nextPart takes a nonempty start of the data, and all of it unless that  *)
(* is long enough for a part.                                              *)
LEMMA CutType ==
  ASSUME src \in Seq(Nat), upload.size \in Nat
  PROVE  /\ nextPart \in Seq(Nat) /\ Len(nextPart) <= Len(src)
         /\ SubSeq(src, Len(nextPart) + 1, Len(src)) \in Seq(Nat)
         /\ Len(SubSeq(src, Len(nextPart) + 1, Len(src))) = Len(src) - Len(nextPart)
         /\ Len(nextPart) < Len(src) => Len(nextPart) >= MinPartSize
         /\ src # <<>> => Len(nextPart) > 0
<1> DEFINE n == calcOptimalPartSize(upload.size)
<1>1. n \in Nat \ {0} /\ n >= MinPartSize
  BY PartSizes
<1>2. Len(src) \in Nat
  OBVIOUS
<1> HIDE DEF n
<1>3. CASE Len(src) <= n
  <2>1. nextPart = src
    BY <1>3 DEF nextPart, n
  <2>2. SubSeq(src, Len(src) + 1, Len(src)) = <<>>
    BY <1>2
  <2> QED
    BY <1>2, <2>1, <2>2
<1>4. CASE Len(src) > n
  <2>1. nextPart = SubSeq(src, 1, n)
    BY <1>1, <1>2, <1>4 DEF nextPart, n
  <2>2. nextPart \in Seq(Nat) /\ Len(nextPart) = n
    BY <1>1, <1>2, <1>4, <2>1, SubSeqProperties
  <2>3. SubSeq(src, n + 1, Len(src)) \in Seq(Nat) /\ Len(SubSeq(src, n + 1, Len(src))) = Len(src) - n
    BY <1>1, <1>2, <1>4, SubSeqProperties
  <2> QED
    BY <1>1, <1>2, <1>4, <2>2, <2>3
<1> QED
  BY <1>1, <1>2, <1>3, <1>4

-----------------------------------------------------------------------------

(* The goroutines that upload parts: finitely many, each with its entry in *)
(* upload.parts; `.part` is only uploaded when the data has been cut up,   *)
(* and none runs outside uploadParts.                                      *)
InflightOK ==
  /\ IsFiniteSet(inflight)
  /\ \A p \in inflight : p.index \in 0..Len(upload.parts) /\ (p.index > 0 => p.number = p.index)
  /\ pc \in {"acquire", "receive"} /\ src # <<>> => \A p \in inflight : p.index > 0
  /\ pc \notin {"acquire", "receive", "wait"} => inflight = {}
  /\ pc \in {"declare", "declareLast"} => declared \in Nat

(* The inductive invariant of the semaphore. *)
SlotInv == TypeOK /\ InflightOK /\ SlotsBalanced

(* What goroutines store is data. *)
LEMMA PutType ==
  ASSUME TypeOK, NEW P \in SUBSET inflight, Put(P)
  PROVE  parts' \in PartMap /\ tail' \in Seq(Nat) \cup {NoObject}
<1>1. \A p \in P : p.bytes \in Seq(Nat)
  BY DEF TypeOK, Part
<1>2. ASSUME NEW n \in PartNumbers
      PROVE  (IF \E p \in P : p.index > 0 /\ p.number = n
              THEN (CHOOSE p \in P : p.index > 0 /\ p.number = n).bytes ELSE parts[n])
               \in Seq(Nat) \cup {NoObject}
  BY <1>1 DEF TypeOK
<1>3. (IF \E p \in P : p.index = 0 THEN (CHOOSE p \in P : p.index = 0).bytes ELSE tail)
               \in Seq(Nat) \cup {NoObject}
  BY <1>1 DEF TypeOK
<1> QED
  BY <1>2, <1>3 DEF Put, PartMap

(* A goroutine that ends has a slot to give back. *)
LEMMA InflightTaken ==
  ASSUME SlotInv, NEW p \in inflight
  PROVE  /\ slots - 1 \in 0..ConcurrentPartUploads /\ others \in 0..(slots - 1)
         /\ IsFiniteSet(inflight \ {p})
         /\ Cardinality(inflight \ {p}) = Cardinality(inflight) - 1
<1>1. IsFiniteSet(inflight) /\ Cardinality(inflight) \in Nat /\ Cardinality(inflight) # 0
  BY FS_CardinalityType, FS_EmptySet DEF SlotInv, InflightOK
<1>2. IsFiniteSet(inflight \ {p}) /\ Cardinality(inflight \ {p}) = Cardinality(inflight) - 1
  BY <1>1, FS_RemoveElement
<1>3. slots \in Nat /\ others \in Nat /\ slots <= ConcurrentPartUploads /\ others + 1 <= slots
  BY <1>1, S3Assumption DEF SlotInv, TypeOK, SlotsBalanced
<1> QED
  BY <1>2, <1>3, S3Assumption

(* An entry of upload.parts, which has no ETag before the part is stored. *)
Listed == [number: Nat, etag: Seq(Nat) \cup {NoObject}]

(* The types of the s3Upload ... *)
UploadInfo == [size: Nat, deferred: BOOLEAN, offset: Nat, tailSize: Nat, parts: Seq(Listed)]

(* ... and of the groups of variables. *)
BucketOK ==
  /\ mpu \in {"none", "open", "completed", "aborted"}
  /\ parts \in PartMap
  /\ tail \in Seq(Nat) \cup {NoObject} /\ object \in Seq(Nat) \cup {NoObject}
  /\ info \in [size: Nat, deferred: BOOLEAN] \cup {NoObject}

(* The request. *)
RequestOK ==
  /\ pc \in {"idle", "newInfo", "declare", "declareLast", "write", "acquire", "receive",
             "wait", "finish", "emptyPart", "complete"}
  /\ upload \in UploadInfo
  /\ declared \in Nat \cup {-1} /\ completes \in BOOLEAN

(* The chunk that is written. *)
ChunkOK ==
  /\ src \in Seq(Nat) /\ taken \in Nat /\ bytesUploaded \in Nat
  /\ inflight \subseteq Part
  /\ err \in {"none", "store", "producer"}

(* The semaphore. *)
SemOK == slots \in 0..ConcurrentPartUploads /\ others \in 0..slots

(* The history. *)
HistOK ==
  file \in 0..MaxObjectSize /\ acked \in Nat /\ succeeded \in BOOLEAN /\ behindHole \in BOOLEAN

(* TypeOK, group by group. *)
LEMMA TypeSplit ==
  /\ TypeOK <=> BucketOK /\ RequestOK /\ ChunkOK /\ SemOK /\ HistOK
  /\ TypeOK' <=> BucketOK' /\ RequestOK' /\ ChunkOK' /\ SemOK' /\ HistOK'
BY DEF TypeOK, BucketOK, RequestOK, ChunkOK, SemOK, HistOK, UploadInfo, Listed, PartMap

(* A group that does not change keeps its types. *)
LEMMA TypeFrames ==
  ASSUME TypeOK
  PROVE  /\ UNCHANGED bucketVars => BucketOK'
         /\ pc' \in {"idle", "newInfo", "declare", "declareLast", "write", "acquire", "receive",
                     "wait", "finish", "emptyPart", "complete"} /\ UNCHANGED reqVars => RequestOK'
         /\ UNCHANGED chunkVars => ChunkOK'
         /\ UNCHANGED semVars => SemOK'
         /\ UNCHANGED histVars => HistOK'
<1>0. BucketOK /\ RequestOK /\ ChunkOK /\ SemOK /\ HistOK
  BY TypeSplit
<1>1. UNCHANGED bucketVars => BucketOK'
  BY <1>0 DEF BucketOK, bucketVars
<1>2. pc' \in {"idle", "newInfo", "declare", "declareLast", "write", "acquire", "receive",
               "wait", "finish", "emptyPart", "complete"} /\ UNCHANGED reqVars => RequestOK'
  BY <1>0 DEF RequestOK, reqVars
<1>3. UNCHANGED chunkVars => ChunkOK'
  BY <1>0 DEF ChunkOK, chunkVars
<1>4. UNCHANGED semVars => SemOK'
  BY <1>0 DEF SemOK, semVars
<1>5. UNCHANGED histVars => HistOK'
  BY <1>0 DEF HistOK, histVars
<1> QED
  BY <1>1, <1>2, <1>3, <1>4, <1>5

(* The end of a request preserves the types. *)
LEMMA RespondType ==
  ASSUME TypeOK, NEW ok \in BOOLEAN, Respond(ok)
  PROVE  RequestOK' /\ ChunkOK' /\ HistOK' /\ pc' = "idle" /\ inflight' = {}
<1>0. BucketOK /\ RequestOK /\ ChunkOK /\ SemOK /\ HistOK
  BY TypeSplit
<1>1. /\ pc' = "idle" /\ upload' = NoUpload /\ declared' = -1 /\ completes' = FALSE
      /\ src' = <<>> /\ taken' = 0 /\ bytesUploaded' = 0 /\ inflight' = {} /\ err' = "none"
      /\ UNCHANGED <<file, behindHole>> /\ succeeded' = ok
      /\ acked' = IF ok THEN upload.offset ELSE acked
  BY Zenon DEF Respond
<1>2. acked' \in Nat
  BY <1>0, <1>1 DEF HistOK, RequestOK, UploadInfo
<1>3. HistOK'
  BY <1>0, <1>1, <1>2 DEF HistOK
<1>4. RequestOK'
  <2>1. NoUpload \in UploadInfo
    BY DEF NoUpload, UploadInfo
  <2> QED
    BY <1>1, <2>1 DEF RequestOK
<1>5. ChunkOK'
  BY <1>1 DEF ChunkOK
<1> QED
  BY <1>1, <1>3, <1>4, <1>5

(* So does CompleteMultipartUpload: the ETags of a valid list are data. *)
LEMMA CompleteType ==
  ASSUME TypeOK, CompleteUpload
  PROVE  /\ mpu' = "completed" /\ parts' = NoParts /\ parts' \in PartMap
         /\ object' \in Seq(Nat)
<1>0. upload \in UploadInfo /\ upload.parts \in Seq(Listed)
  BY TypeSplit DEF RequestOK, UploadInfo
<1> DEFINE list == upload.parts
<1>1. Valid(list) /\ object' = Content(list) /\ mpu' = "completed" /\ parts' = NoParts
  BY DEF CompleteUpload
<1>2. \A i \in 1..Len(list) : list[i].etag # NoObject
  BY <1>1 DEF Valid
<1>3. list \in Seq([number: Nat, etag: Seq(Nat)])
  <2> HIDE DEF list
  <2>0. list \in Seq(Listed) /\ Len(list) \in Nat
    BY <1>0 DEF list
  <2>1. \A i \in 1..Len(list) : list[i] \in Listed
    BY <2>0, ElementOfSeq
  <2>2. \A i \in 1..Len(list) : list[i] \in [number: Nat, etag: Seq(Nat)]
    BY <1>2, <2>1 DEF Listed
  <2>3. list = [i \in 1..Len(list) |-> list[i]]
    BY <2>0
  <2>4. [i \in 1..Len(list) |-> list[i]] \in Seq([number: Nat, etag: Seq(Nat)])
    BY <2>0, <2>2
  <2> QED
    BY <2>3, <2>4
<1>4. object' \in Seq(Nat)
  BY <1>1, <1>3, ContentType
<1> QED
  BY <1>1, <1>4 DEF NoParts, PartMap

(* The steps of a request. *)
Pcs == {"idle", "newInfo", "declare", "declareLast", "write", "acquire", "receive",
        "wait", "finish", "emptyPart", "complete"}

(* fetchInfo returns an s3Upload. *)
LEMMA FetchInfoType ==
  ASSUME TypeOK, info # NoObject
  PROVE  fetchInfo \in UploadInfo
<1>1. /\ info \in [size: Nat, deferred: BOOLEAN]
      /\ parts \in PartMap /\ tail \in Seq(Nat) \cup {NoObject}
  BY TypeSplit DEF BucketOK
<1>2. /\ listAllParts \in Seq(Listed) /\ Len(Stored) \in Nat /\ Len(Tail0) \in Nat
  BY <1>1, StoredType DEF Listed
<1>3. <<>> \in Seq(Listed)
  BY EmptySeq
<1>4. info.size \in Nat /\ info.deferred \in BOOLEAN
  BY <1>1
<1>5. CASE mpu = "open"
  <2>1. fetchInfo = [size |-> info.size, deferred |-> info.deferred, offset |-> Len(Stored),
        parts |-> listAllParts, tailSize |-> Len(Tail0)]
    BY <1>5 DEF fetchInfo
  <2> QED
    BY <1>2, <1>4, <2>1 DEF UploadInfo
<1>6. CASE mpu # "open"
  <2>1. fetchInfo = [size |-> info.size, deferred |-> info.deferred, offset |-> info.size,
        parts |-> <<>>, tailSize |-> Len(Tail0)]
    BY <1>6 DEF fetchInfo
  <2> QED
    BY <1>2, <1>3, <1>4, <2>1 DEF UploadInfo
<1> QED
  BY <1>5, <1>6

(* The list with the empty part is a list of parts. *)
LEMMA EmptyPartType ==
  parts \in PartMap => [parts EXCEPT ![1] = <<>>] \in PartMap
<1>1. <<>> \in Seq(Nat) \cup {NoObject}
  OBVIOUS
<1> QED
  BY <1>1 DEF PartMap

(* Every step preserves the types. *)
LEMMA TypeStep ==
  SlotInv /\ [Next]_vars => TypeOK'
<1> SUFFICES ASSUME SlotInv, [Next]_vars PROVE BucketOK' /\ RequestOK' /\ ChunkOK' /\ SemOK' /\ HistOK'
  BY TypeSplit
<1>0. /\ TypeOK /\ BucketOK /\ RequestOK /\ ChunkOK /\ SemOK /\ HistOK
      /\ ConcurrentPartUploads \in Nat \ {0} /\ MaxObjectSize \in Nat
      /\ MaxMultipartParts \in Nat \ {0} /\ MinPartSize \in Nat \ {0}
      /\ upload \in UploadInfo
  BY TypeSplit, S3Assumption, PartSizeAssumption DEF SlotInv, RequestOK
<1>1. CASE NewUpload
  <2>1. PICK deferred \in BOOLEAN, n \in 0..file' :
       /\ upload' = [NoUpload EXCEPT !.size = IF deferred THEN 0 ELSE file', !.deferred = deferred]
       /\ src' = Bytes(0, n)
       /\ completes' \in {FALSE, deferred /\ n = file' /\ MayComplete(n)}
    BY <1>1 DEF NewUpload
  <2>2. /\ file' \in 0..MaxObjectSize /\ pc' = "newInfo" /\ mpu' = "open" /\ parts' = NoParts
        /\ tail' = NoObject /\ object' = NoObject
        /\ acked' = 0 /\ succeeded' = FALSE /\ behindHole' = FALSE
        /\ UNCHANGED <<info, declared, taken, bytesUploaded, inflight, err, semVars>>
    BY <1>1 DEF NewUpload
  <2>3. src' \in Seq(Nat)
    BY <2>1, <2>2, <1>0 DEF Bytes
  <2>4. upload' \in UploadInfo
    <3>1. file' \in Nat /\ NoUpload \in UploadInfo
      BY <1>0, <2>2 DEF NoUpload, UploadInfo
    <3> QED
      BY <2>1, <3>1 DEF UploadInfo
  <2>5. completes' \in BOOLEAN
    BY <2>1, Zenon
  <2>6. BucketOK'
    BY <1>0, <2>2 DEF BucketOK, NoParts, PartMap
  <2>7. RequestOK'
    BY <1>0, <2>2, <2>4, <2>5 DEF RequestOK
  <2>8. ChunkOK' /\ HistOK'
    BY <1>0, <2>2, <2>3 DEF ChunkOK, HistOK
  <2> QED
    BY <1>0, <2>2, <2>6, <2>7, <2>8, TypeFrames
<1>2. CASE CreateInfo
  <2>1. /\ info' = [size |-> upload.size, deferred |-> upload.deferred] /\ pc' = "write"
        /\ UNCHANGED <<mpu, parts, tail, object, reqVars, chunkVars, semVars, histVars>>
    BY <1>2 DEF CreateInfo
  <2>2. BucketOK'
    BY <1>0, <2>1 DEF BucketOK, UploadInfo
  <2> QED
    BY <1>0, <2>1, <2>2, TypeFrames
<1>3. CASE DeclareLength
  <2>1. /\ info' = [size |-> declared, deferred |-> FALSE]
        /\ upload' = [upload EXCEPT !.size = declared, !.deferred = FALSE]
        /\ pc' \in Pcs /\ UNCHANGED <<declared, completes>>
        /\ UNCHANGED <<mpu, parts, tail, object, chunkVars, semVars, histVars>>
    BY <1>3 DEF DeclareLength, Pcs
  <2>2. declared \in Nat
    BY <1>3 DEF DeclareLength, SlotInv, InflightOK
  <2>3. BucketOK'
    BY <1>0, <2>1, <2>2 DEF BucketOK
  <2>4. upload' \in UploadInfo
    BY <1>0, <2>1, <2>2 DEF UploadInfo
  <2>5. RequestOK'
    BY <1>0, <2>1, <2>4 DEF RequestOK, Pcs
  <2> QED
    BY <1>0, <2>1, <2>3, <2>5, TypeFrames
<1>4. CASE WriteInfoFails
  <2>1. /\ info' \in {info, [size     |-> IF pc = "newInfo" THEN upload.size ELSE declared,
                             deferred |-> pc = "newInfo" /\ upload.deferred]}
        /\ pc \in {"newInfo", "declare", "declareLast"}
        /\ Respond(FALSE)
        /\ UNCHANGED <<mpu, parts, tail, object, semVars>>
    BY <1>4 DEF WriteInfoFails
  <2>2. (IF pc = "newInfo" THEN upload.size ELSE declared) \in Nat
    BY <1>0, <2>1 DEF SlotInv, InflightOK, UploadInfo
  <2>3. (pc = "newInfo" /\ upload.deferred) \in BOOLEAN
    BY Zenon
  <2>4. info' \in [size: Nat, deferred: BOOLEAN] \cup {NoObject}
    <3>1. \A a \in Nat, b \in BOOLEAN : [size |-> a, deferred |-> b] \in [size: Nat, deferred: BOOLEAN]
      OBVIOUS
    <3>2. info \in [size: Nat, deferred: BOOLEAN] \cup {NoObject}
      BY <1>0 DEF BucketOK
    <3> QED
      BY <2>1, <2>2, <2>3, <3>1, <3>2, Zenon
  <2>5. BucketOK'
    BY <1>0, <2>1, <2>4 DEF BucketOK
  <2>6. RequestOK' /\ ChunkOK' /\ HistOK'
    BY <1>0, <2>1, RespondType
  <2> QED
    BY <1>0, <2>1, <2>5, <2>6, TypeFrames
<1>5. CASE Patch
  <2>1. /\ info # NoObject /\ upload' = fetchInfo
        /\ UNCHANGED <<bucketVars, taken, bytesUploaded, inflight, err, semVars, file, acked, succeeded>>
        /\ behindHole' = (behindHole \/ ~IsStart(Stored))
    BY <1>5 DEF Patch
  <2>2. upload' \in UploadInfo
    BY <1>0, <2>1, FetchInfoType
  <2>3. PICK n \in 0..file :
           /\ src' = Bytes(upload'.offset, n)
           /\ completes' \in {FALSE, upload'.deferred /\ upload'.offset + n = file /\ MayComplete(upload'.tailSize + n)}
    BY <1>5 DEF Patch
  <2>4. completes' \in BOOLEAN
    BY <2>3, Zenon
  <2>5. declared' \in {-1} \cup {file} /\ pc' \in Pcs
    BY <1>5 DEF Patch, Pcs
  <2>6. RequestOK'
    BY <1>0, <2>2, <2>4, <2>5 DEF RequestOK, HistOK, Pcs
  <2>7. src' \in Seq(Nat)
    BY <1>0, <2>2, <2>3 DEF Bytes, UploadInfo, HistOK
  <2>8. ChunkOK'
    BY <1>0, <2>1, <2>7 DEF ChunkOK
  <2>9. behindHole' \in BOOLEAN
    BY <2>1, Zenon
  <2>10. HistOK'
    BY <1>0, <2>1, <2>9 DEF HistOK
  <2> QED
    BY <1>0, <2>1, <2>6, <2>8, <2>10, TypeFrames
<1>6. CASE WriteChunk
  <2>1. /\ src' = Tail0 \o src /\ taken' = upload.tailSize /\ tail' = NoObject
        /\ pc' \in Pcs /\ err' \in {err, "store"}
        /\ UNCHANGED <<mpu, parts, info, object, reqVars, bytesUploaded, inflight, semVars, histVars>>
    BY <1>6 DEF WriteChunk, Pcs
  <2>2. src' \in Seq(Nat) /\ taken' \in Nat
    BY <1>0, <2>1, StoredType DEF BucketOK, ChunkOK, UploadInfo
  <2>3. ChunkOK' /\ BucketOK'
    BY <1>0, <2>1, <2>2 DEF BucketOK, ChunkOK
  <2> QED
    BY <1>0, <2>1, <2>3, TypeFrames DEF Pcs
<1>7. CASE WriteChunkFails
  <2>1. /\ tail' \in {tail, NoObject} /\ err' = "store" /\ pc' = "finish"
        /\ UNCHANGED <<mpu, parts, info, object, reqVars, src, taken, bytesUploaded, inflight, semVars, histVars>>
    BY <1>7 DEF WriteChunkFails
  <2>2. ChunkOK' /\ BucketOK'
    BY <1>0, <2>1 DEF BucketOK, ChunkOK
  <2> QED
    BY <1>0, <2>1, <2>2, TypeFrames
<1>8. CASE Acquire
  <2>1. SemOK'
    BY <1>0, <1>8 DEF Acquire, SemOK
  <2> QED
    BY <1>0, <1>8, <2>1, TypeFrames DEF Acquire
<1>9. CASE ReceivePart
  <2>0. upload.size \in Nat /\ upload.parts \in Seq(Listed) /\ src \in Seq(Nat)
    BY <1>0 DEF UploadInfo, ChunkOK
  <2>1. nextPart \in Seq(Nat) /\ SubSeq(src, Len(nextPart) + 1, Len(src)) \in Seq(Nat)
    BY <2>0, CutType
  <2> DEFINE part == [index  |-> IF PartWorthy THEN Len(upload.parts) + 1 ELSE 0,
                      number |-> Len(upload.parts) + 1, bytes |-> nextPart]
             entry == [number |-> part.number, etag |-> NoObject]
  <2>2. /\ inflight' = inflight \cup {part}
        /\ upload' = IF PartWorthy THEN [upload EXCEPT !.parts = Append(@, entry)] ELSE upload
        /\ bytesUploaded' = bytesUploaded + Len(nextPart)
        /\ src' = SubSeq(src, Len(nextPart) + 1, Len(src))
        /\ pc' = "acquire"
        /\ UNCHANGED <<bucketVars, declared, completes, taken, err, semVars, histVars>>
    BY <1>9 DEF ReceivePart
  <2>3. part \in Part
    BY <2>0, <2>1 DEF Part
  <2>4. entry \in Listed
    BY <2>0 DEF Listed
  <2>5. Append(upload.parts, entry) \in Seq(Listed)
    <3> HIDE DEF entry
    <3> QED
      BY <2>0, <2>4, AppendProperties
  <2> HIDE DEF part, entry
  <2>6. upload' \in UploadInfo
    BY <1>0, <2>2, <2>5 DEF UploadInfo
  <2>7. ChunkOK'
    BY <1>0, <2>1, <2>2, <2>3 DEF ChunkOK
  <2>8. RequestOK'
    BY <1>0, <2>2, <2>6 DEF RequestOK
  <2> QED
    BY <1>0, <2>2, <2>7, <2>8, TypeFrames
<1>10. CASE ReceiveEnd
  <2>1. SemOK'
    <3>1. slots = others + Cardinality(inflight) + 1 /\ Cardinality(inflight) \in Nat
      BY <1>10, FS_CardinalityType DEF SlotInv, SlotsBalanced, InflightOK, ReceiveEnd
    <3> QED
      BY <1>0, <1>10, <3>1 DEF ReceiveEnd, SemOK
  <2> QED
    BY <1>0, <1>10, <2>1, TypeFrames DEF ReceiveEnd
<1>11. CASE ProducerStops
  <2>1. ChunkOK'
    BY <1>0, <1>11 DEF ProducerStops, ChunkOK
  <2>2. pc' \in Pcs
    BY <1>0, <1>11 DEF ProducerStops, RequestOK, Pcs
  <2> QED
    BY <1>0, <1>11, <2>1, <2>2, TypeFrames DEF ProducerStops, Pcs
<1>12. ASSUME NEW p \in inflight, PartUploaded(p)
       PROVE  BucketOK' /\ RequestOK' /\ ChunkOK' /\ SemOK' /\ HistOK'
  <2>1. /\ Put({p}) /\ inflight' = inflight \ {p} /\ slots' = slots - 1
        /\ upload' = IF p.index > 0 THEN [upload EXCEPT !.parts[p.index].etag = p.bytes]
                              ELSE [upload EXCEPT !.tailSize = Len(p.bytes)]
        /\ UNCHANGED <<mpu, info, object, pc, declared, completes, src, taken, bytesUploaded, err, others, histVars>>
    BY <1>12 DEF PartUploaded
  <2>2. BucketOK'
    <3>1. parts' \in PartMap /\ tail' \in Seq(Nat) \cup {NoObject}
      BY <1>0, <2>1, PutType
    <3> QED
      BY <1>0, <2>1, <3>1 DEF BucketOK
  <2>3. p \in Part /\ p.index \in 0..Len(upload.parts) /\ p.bytes \in Seq(Nat) /\ Len(p.bytes) \in Nat
    BY <1>0 DEF ChunkOK, SlotInv, InflightOK, Part
  <2>4. CASE p.index > 0
    <3> DEFINE list == upload.parts
               e == [list[p.index] EXCEPT !.etag = p.bytes]
    <3>1. list \in Seq(Listed) /\ p.index \in 1..Len(list)
      BY <1>0, <2>3, <2>4 DEF UploadInfo
    <3>2. list[p.index] \in Listed
      BY <3>1, ElementOfSeq
    <3>3. e \in Listed
      BY <2>3, <3>2 DEF Listed
    <3>4. [list EXCEPT ![p.index] = e] \in Seq(Listed)
      <4> HIDE DEF list, e
      <4> QED
        BY <3>1, <3>3, ExceptSeq
    <3>5. upload' = [upload EXCEPT !.parts = [list EXCEPT ![p.index] = e]]
      BY <1>0, <2>1, <2>4 DEF UploadInfo
    <3> QED
      BY <1>0, <3>4, <3>5, <2>1, <2>2, TypeFrames, InflightTaken DEF UploadInfo, RequestOK, ChunkOK, SemOK, HistOK
  <2>5. CASE ~(p.index > 0)
    <3>1. upload' = [upload EXCEPT !.tailSize = Len(p.bytes)]
      BY <2>1, <2>5
    <3> QED
      BY <1>0, <3>1, <2>3, <2>1, <2>2, TypeFrames, InflightTaken DEF UploadInfo, RequestOK, ChunkOK, SemOK, HistOK
  <2> QED
    BY <2>4, <2>5
<1>13. ASSUME NEW p \in inflight, PartFails(p)
       PROVE  BucketOK' /\ RequestOK' /\ ChunkOK' /\ SemOK' /\ HistOK'
  <2>1. /\ Put({p}) \/ UNCHANGED <<parts, tail>>
        /\ inflight' = inflight \ {p} /\ slots' = slots - 1 /\ err' = "store"
        /\ UNCHANGED <<mpu, info, object, pc, reqVars, src, taken, bytesUploaded, others, histVars>>
    BY <1>13 DEF PartFails
  <2>2. BucketOK'
    <3>1. parts' \in PartMap /\ tail' \in Seq(Nat) \cup {NoObject}
      BY <1>0, <2>1, PutType DEF BucketOK
    <3> QED
      BY <1>0, <2>1, <3>1 DEF BucketOK
  <2>3. SemOK'
    BY <2>1, InflightTaken DEF SemOK
  <2>4. ChunkOK'
    BY <1>0, <2>1 DEF ChunkOK
  <2>5. pc' \in Pcs
    BY <1>0, <2>1 DEF RequestOK, Pcs
  <2> QED
    BY <1>0, <2>1, <2>2, <2>3, <2>4, <2>5, TypeFrames DEF Pcs
<1>14. CASE ChunkWritten
  <2>1. /\ upload' = [upload EXCEPT !.offset =
                  @ + IF err = "store" \/ bytesUploaded < taken THEN 0 ELSE bytesUploaded - taken]
        /\ pc' = "finish"
        /\ UNCHANGED <<bucketVars, declared, completes, chunkVars, semVars, histVars>>
    BY <1>14 DEF ChunkWritten
  <2>2. (IF err = "store" \/ bytesUploaded < taken THEN 0 ELSE bytesUploaded - taken) \in Nat
    BY <1>0 DEF ChunkOK
  <2>3. upload' \in UploadInfo
    BY <1>0, <2>1, <2>2 DEF UploadInfo
  <2>4. RequestOK'
    BY <1>0, <2>1, <2>3 DEF RequestOK
  <2> QED
    BY <1>0, <2>1, <2>4, TypeFrames
<1>15. CASE finishUploadIfComplete
  <2>1. UNCHANGED <<bucketVars, semVars>>
    BY <1>15 DEF finishUploadIfComplete
  <2>2. CASE /\ Complete(upload)
             /\ pc' = IF upload.parts = <<>> THEN "emptyPart" ELSE "complete"
             /\ UNCHANGED <<reqVars, chunkVars, histVars>>
    BY <1>0, <2>1, <2>2, TypeFrames
  <2>3. CASE /\ declared' = upload.offset /\ pc' = "declareLast"
             /\ UNCHANGED <<upload, completes, chunkVars, histVars>>
    <3>1. RequestOK'
      BY <1>0, <2>3 DEF RequestOK, UploadInfo
    <3> QED
      BY <1>0, <2>1, <2>3, <3>1, TypeFrames
  <2>4. CASE Respond(err = "none")
    <3>1. (err = "none") \in BOOLEAN
      OBVIOUS
    <3>2. RequestOK' /\ ChunkOK' /\ HistOK'
      BY <1>0, <2>4, <3>1, RespondType
    <3> QED
      BY <1>0, <2>1, <3>2, TypeFrames
  <2> QED
    BY <1>15, <2>2, <2>3, <2>4 DEF finishUploadIfComplete
<1>16. CASE UploadEmptyPart
  <2>1. /\ parts' = [parts EXCEPT ![1] = <<>>]
        /\ upload' = [upload EXCEPT !.parts = <<[number |-> 1, etag |-> <<>>]>>]
        /\ pc' = "complete"
        /\ UNCHANGED <<mpu, tail, info, object, declared, completes, chunkVars, semVars, histVars>>
    BY <1>16 DEF UploadEmptyPart
  <2>2. BucketOK'
    BY <1>0, <2>1, EmptyPartType DEF BucketOK
  <2>3. <<[number |-> 1, etag |-> <<>>]>> \in Seq(Listed)
    BY DEF Listed
  <2>4. RequestOK'
    BY <1>0, <2>1, <2>3 DEF RequestOK, UploadInfo
  <2> QED
    BY <1>0, <2>1, <2>2, <2>4, TypeFrames
<1>17. CASE FinishUpload
  <2>1. /\ \/ CompleteUpload \/ UNCHANGED <<mpu, parts, object>>
        /\ Respond(err = "none") \/ Respond(FALSE)
        /\ UNCHANGED <<tail, info, semVars>>
    BY <1>17 DEF FinishUpload
  <2>2. BucketOK'
    BY <1>0, <2>1, CompleteType DEF BucketOK
  <2>3. (err = "none") \in BOOLEAN
    OBVIOUS
  <2>4. RequestOK' /\ ChunkOK' /\ HistOK'
    BY <1>0, <2>1, <2>3, RespondType
  <2> QED
    BY <1>0, <2>1, <2>2, <2>4, TypeFrames
<1>18. CASE FinishUploadFails
  <2>1. /\ \/ CompleteUpload \/ UNCHANGED <<mpu, parts, object>>
           \/ parts' = [parts EXCEPT ![1] = <<>>] /\ UNCHANGED <<mpu, object>>
        /\ Respond(FALSE)
        /\ UNCHANGED <<tail, info, semVars>>
    BY <1>18 DEF FinishUploadFails
  <2>2. BucketOK'
    BY <1>0, <2>1, CompleteType, EmptyPartType DEF BucketOK
  <2>4. RequestOK' /\ ChunkOK' /\ HistOK'
    BY <1>0, <2>1, RespondType
  <2> QED
    BY <1>0, <2>1, <2>2, <2>4, TypeFrames
<1>19. CASE Terminate
  <2>1. PICK failed \in SUBSET {"abort", "object", "part", "info"} :
       /\ mpu' = IF mpu = "open" /\ "abort" \notin failed THEN "aborted" ELSE mpu
       /\ parts' = IF "abort" \in failed THEN parts ELSE NoParts
       /\ object' = IF "object" \in failed THEN object ELSE NoObject
       /\ tail' = IF "part" \in failed THEN tail ELSE NoObject
       /\ info' = IF "info" \in failed THEN info ELSE NoObject
    BY <1>19 DEF Terminate
  <2>2. /\ acked' = 0 /\ succeeded' = FALSE
        /\ UNCHANGED <<file, behindHole, pc, reqVars, chunkVars, semVars>>
    BY <1>19 DEF Terminate
  <2>3. BucketOK'
    BY <1>0, <2>1 DEF BucketOK, NoParts, PartMap
  <2>4. HistOK'
    BY <1>0, <2>2 DEF HistOK
  <2>5. pc' \in Pcs
    BY <1>0, <2>2 DEF RequestOK, Pcs
  <2> QED
    BY <1>0, <2>2, <2>3, <2>4, <2>5, TypeFrames DEF Pcs
<1>20. CASE OthersAcquire \/ OthersRelease
  <2>1. SemOK' /\ UNCHANGED <<bucketVars, pc, reqVars, chunkVars, histVars>>
    BY <1>0, <1>20 DEF OthersAcquire, OthersRelease, SemOK
  <2>2. pc' \in Pcs
    BY <1>0, <2>1 DEF RequestOK, Pcs
  <2> QED
    BY <1>0, <2>1, <2>2, TypeFrames DEF Pcs
<1>21. CASE Crash
  <2>1. PICK P \in SUBSET {p \in inflight : Accepted(p)} : Put(P)
    BY <1>21 DEF Crash
  <2>2. P \in SUBSET inflight
    BY <2>1
  <2>3. Respond(FALSE) /\ slots' = 0 /\ others' = 0 /\ UNCHANGED <<mpu, info, object>>
    BY <1>21 DEF Crash
  <2>4. BucketOK'
    <3>1. parts' \in PartMap /\ tail' \in Seq(Nat) \cup {NoObject}
      BY <1>0, <2>1, <2>2, PutType
    <3> QED
      BY <1>0, <2>3, <3>1 DEF BucketOK
  <2>5. RequestOK' /\ ChunkOK' /\ HistOK'
    BY <1>0, <2>3, RespondType
  <2>6. SemOK'
    BY <1>0, <2>3 DEF SemOK
  <2> QED
    BY <2>4, <2>5, <2>6
<1>22. CASE UNCHANGED vars
  <2>1. pc' \in Pcs
    BY <1>0, <1>22 DEF RequestOK, vars, Pcs
  <2> QED
    BY <1>0, <1>22, <2>1, TypeFrames DEF vars, Pcs
<1> QED
  BY <1>1, <1>2, <1>3, <1>4, <1>5, <1>6, <1>7, <1>8, <1>9, <1>10, <1>11, <1>12, <1>13, <1>14,
     <1>15, <1>16, <1>17, <1>18, <1>19, <1>20, <1>21, <1>22 DEF Next, RequestStep

(* Every step keeps the balance: Acquire takes a slot and the goroutine    *)
(* that follows inherits it; ReceiveEnd, PartUploaded and PartFails give   *)
(* one back; a crash frees all of them with the process.                   *)
LEMMA SlotStep ==
  SlotInv /\ [Next]_vars => SlotInv'
<1> SUFFICES ASSUME SlotInv, [Next]_vars PROVE InflightOK' /\ SlotsBalanced'
  BY TypeStep DEF SlotInv
<1>0. /\ TypeOK /\ InflightOK /\ SlotsBalanced /\ upload \in UploadInfo
      /\ upload.parts \in Seq(Listed) /\ Len(upload.parts) \in Nat /\ upload.offset \in Nat
      /\ upload.size \in Nat /\ src \in Seq(Nat) /\ slots \in Nat /\ others \in Nat /\ file \in Nat
      /\ IsFiniteSet(inflight) /\ Cardinality(inflight) \in Nat
      /\ IsFiniteSet({}) /\ Cardinality({}) = 0
  BY TypeSplit, FS_CardinalityType, FS_EmptySet, S3Assumption, PartSizeAssumption
     DEF SlotInv, RequestOK, UploadInfo, ChunkOK, SemOK, InflightOK, HistOK
<1>1. CASE /\ inflight = {} /\ inflight' = {} /\ pc # "receive" /\ pc' # "receive" /\ UNCHANGED semVars
           /\ pc' \in {"declare", "declareLast"} => declared' \in Nat
  BY <1>0, <1>1 DEF InflightOK, SlotsBalanced, semVars
<1>2. CASE NewUpload \/ CreateInfo \/ DeclareLength \/ WriteChunk \/ WriteChunkFails \/ UploadEmptyPart
  <2>1. /\ pc \in {"idle", "newInfo", "declare", "declareLast", "write", "emptyPart"}
        /\ pc' \in {"newInfo", "write", "finish", "acquire", "complete"}
        /\ UNCHANGED <<inflight, semVars>>
    BY <1>2 DEF NewUpload, CreateInfo, DeclareLength, WriteChunk, WriteChunkFails, UploadEmptyPart, chunkVars
  <2> QED
    BY <1>0, <1>1, <2>1 DEF InflightOK
<1>3. CASE Patch
  <2>1. pc = "idle" /\ UNCHANGED <<inflight, semVars>> /\ declared' \in {-1} \cup {file}
        /\ pc' = IF declared' = -1 THEN "write" ELSE "declare"
    BY <1>3 DEF Patch
  <2> QED
    BY <1>0, <1>1, <2>1 DEF InflightOK
<1>4. CASE WriteInfoFails \/ FinishUpload \/ FinishUploadFails
  <2>1. /\ pc \in {"newInfo", "declare", "declareLast", "emptyPart", "complete"}
        /\ pc' = "idle" /\ inflight' = {} /\ UNCHANGED semVars
    BY <1>4 DEF WriteInfoFails, FinishUpload, FinishUploadFails, Respond
  <2> QED
    BY <1>0, <1>1, <2>1 DEF InflightOK
<1>5. CASE Acquire
  <2>1. pc = "acquire" /\ pc' = "receive" /\ slots' = slots + 1
        /\ UNCHANGED <<others, inflight, src, upload>>
    BY <1>5 DEF Acquire, reqVars, chunkVars
  <2> QED
    BY <1>0, <2>1 DEF InflightOK, SlotsBalanced
<1>6. CASE ReceivePart
  <2> DEFINE part == [index  |-> IF PartWorthy THEN Len(upload.parts) + 1 ELSE 0,
                      number |-> Len(upload.parts) + 1, bytes |-> nextPart]
             entry == [number |-> part.number, etag |-> NoObject]
  <2>1. /\ inflight' = inflight \cup {part}
        /\ upload' = IF PartWorthy THEN [upload EXCEPT !.parts = Append(@, entry)] ELSE upload
        /\ src' = SubSeq(src, Len(nextPart) + 1, Len(src))
        /\ pc = "receive" /\ src # <<>> /\ pc' = "acquire" /\ UNCHANGED semVars
    BY <1>6 DEF ReceivePart
  <2>2. part.number = Len(upload.parts) + 1 /\ part.index = IF PartWorthy THEN Len(upload.parts) + 1 ELSE 0
    OBVIOUS
  <2> HIDE DEF part
  <2>3. /\ Len(nextPart) \in Nat /\ Len(src') = Len(src) - Len(nextPart) /\ src' \in Seq(Nat)
        /\ Len(nextPart) < Len(src) => Len(nextPart) >= MinPartSize
    <3>1. /\ nextPart \in Seq(Nat)
          /\ SubSeq(src, Len(nextPart) + 1, Len(src)) \in Seq(Nat)
          /\ Len(SubSeq(src, Len(nextPart) + 1, Len(src))) = Len(src) - Len(nextPart)
          /\ Len(nextPart) < Len(src) => Len(nextPart) >= MinPartSize
      BY <1>0, CutType
    <3>2. src' = SubSeq(src, Len(nextPart) + 1, Len(src))
      BY <2>1
    <3>3. Len(nextPart) \in Nat
      BY <3>1
    <3> QED
      BY <3>1, <3>2, <3>3
  <2>4. src' # <<>> => PartWorthy
    <3>1. src' # <<>> => Len(src') > 0
      BY <2>3
    <3> QED
      BY <1>0, <2>3, <3>1 DEF PartWorthy
  <2>5. \A p \in inflight : p.index \in 1..Len(upload.parts) /\ p.number = p.index
    BY <1>0, <2>1 DEF InflightOK
  <2>6. part \notin inflight
    BY <1>0, <2>2, <2>5
  <2>7. IsFiniteSet(inflight') /\ Cardinality(inflight') = Cardinality(inflight) + 1
    BY <1>0, <2>1, <2>6, FS_AddElement
  <2>8. Len(upload'.parts) = IF PartWorthy THEN Len(upload.parts) + 1 ELSE Len(upload.parts)
    <3>1. entry \in Listed
      BY <1>0, <2>2 DEF Listed
    <3> HIDE DEF entry
    <3>2. Len(Append(upload.parts, entry)) = Len(upload.parts) + 1
      BY <1>0, <3>1, AppendProperties
    <3>3. PartWorthy => upload'.parts = Append(upload.parts, entry)
      BY <1>0, <2>1 DEF UploadInfo
    <3> QED
      BY <2>1, <3>2, <3>3
  <2>9. \A p \in inflight' : p.index \in 0..Len(upload'.parts) /\ (p.index > 0 => p.number = p.index)
    <3>1. ASSUME NEW p \in inflight
          PROVE  p.index \in 0..Len(upload'.parts) /\ (p.index > 0 => p.number = p.index)
      BY <1>0, <2>5, <2>8
    <3>2. part.index \in 0..Len(upload'.parts) /\ (part.index > 0 => part.number = part.index)
      BY <1>0, <2>2, <2>8
    <3> QED
      BY <2>1, <3>1, <3>2
  <2>10. src' # <<>> => \A p \in inflight' : p.index > 0
    BY <1>0, <2>1, <2>2, <2>4, <2>5
  <2>11. InflightOK'
    BY <2>1, <2>7, <2>9, <2>10 DEF InflightOK
  <2>12. SlotsBalanced'
    BY <1>0, <2>1, <2>7 DEF SlotsBalanced, semVars
  <2> QED
    BY <2>11, <2>12
<1>7. CASE ReceiveEnd
  <2>1. pc = "receive" /\ pc' = "wait" /\ slots' = slots - 1
        /\ UNCHANGED <<others, inflight, src, upload>>
    BY <1>7 DEF ReceiveEnd, reqVars, chunkVars
  <2> QED
    BY <1>0, <2>1 DEF InflightOK, SlotsBalanced
<1>8. CASE ProducerStops
  <2>1. pc \in {"acquire", "receive"} /\ src' = <<>>
        /\ UNCHANGED <<pc, slots, others, inflight, upload, declared>>
    BY <1>8 DEF ProducerStops, reqVars, semVars
  <2> QED
    BY <1>0, <2>1 DEF InflightOK, SlotsBalanced
<1>9. ASSUME NEW p \in inflight, PartUploaded(p) \/ PartFails(p)
      PROVE  InflightOK' /\ SlotsBalanced'
  <2>1. inflight' = inflight \ {p} /\ slots' = slots - 1 /\ UNCHANGED <<pc, others, src>>
    BY <1>9 DEF PartUploaded, PartFails
  <2>2. p.index \in 0..Len(upload.parts)
    BY <1>0 DEF InflightOK
  <2>3. Len(upload'.parts) = Len(upload.parts)
    <3>1. CASE PartUploaded(p) /\ p.index > 0
      <4>1. upload' = [upload EXCEPT !.parts[p.index].etag = p.bytes]
        BY <3>1 DEF PartUploaded
      <4>2. upload'.parts = [upload.parts EXCEPT ![p.index] = [upload.parts[p.index] EXCEPT !.etag = p.bytes]]
        BY <1>0, <4>1 DEF UploadInfo
      <4>3. p \in Part
        BY <1>0 DEF TypeOK
      <4>4. [upload.parts[p.index] EXCEPT !.etag = p.bytes] \in Listed
        <5>1. p.index \in 1..Len(upload.parts)
          BY <2>2, <3>1
        <5>2. upload.parts[p.index] \in Listed
          BY <1>0, <5>1, ElementOfSeq
        <5> QED
          BY <4>3, <5>2 DEF Listed, Part
      <4> QED
        BY <1>0, <2>2, <3>1, <4>2, <4>4, ExceptSeq
    <3>2. CASE PartUploaded(p) /\ ~(p.index > 0)
      <4>1. upload' = [upload EXCEPT !.tailSize = Len(p.bytes)]
        BY <3>2 DEF PartUploaded
      <4> QED
        BY <1>0, <4>1 DEF UploadInfo
    <3>3. CASE PartFails(p)
      BY <3>3 DEF PartFails, reqVars
    <3> QED
      BY <1>9, <3>1, <3>2, <3>3
  <2>4. IsFiniteSet(inflight') /\ Cardinality(inflight') = Cardinality(inflight) - 1
    BY <2>1, InflightTaken
  <2>5. pc \in {"acquire", "receive", "wait"}
    BY <1>0 DEF InflightOK
  <2>6. InflightOK'
    BY <1>0, <2>1, <2>3, <2>4, <2>5 DEF InflightOK
  <2>7. SlotsBalanced'
    BY <1>0, <2>1, <2>4 DEF SlotsBalanced
  <2> QED
    BY <2>6, <2>7
<1>10. CASE ChunkWritten
  <2>1. pc = "wait" /\ inflight = {} /\ inflight' = {} /\ pc' = "finish" /\ UNCHANGED semVars
    BY <1>10 DEF ChunkWritten, chunkVars
  <2> QED
    BY <1>1, <2>1
<1>11. CASE finishUploadIfComplete
  <2>1. /\ pc = "finish" /\ pc' \in {"emptyPart", "complete", "declareLast", "idle"}
        /\ inflight' \in {inflight, {}} /\ UNCHANGED semVars
        /\ pc' = "declareLast" => declared' = upload.offset
    BY <1>11 DEF finishUploadIfComplete, chunkVars, Respond
  <2> QED
    BY <1>0, <1>1, <2>1 DEF InflightOK
<1>12. CASE Terminate
  <2>1. pc = "idle" /\ pc' = "idle" /\ UNCHANGED <<inflight, semVars>>
    BY <1>12 DEF Terminate, chunkVars
  <2> QED
    BY <1>0, <1>1, <2>1 DEF InflightOK
<1>13. CASE OthersAcquire \/ OthersRelease
  <2>1. /\ UNCHANGED <<pc, inflight, src, upload, declared>>
        /\ \/ slots' = slots + 1 /\ others' = others + 1
           \/ slots' = slots - 1 /\ others' = others - 1
    BY <1>13 DEF OthersAcquire, OthersRelease, reqVars, chunkVars
  <2> QED
    BY <1>0, <2>1 DEF InflightOK, SlotsBalanced
<1>14. CASE Crash
  <2>1. pc' = "idle" /\ inflight' = {} /\ slots' = 0 /\ others' = 0
    BY <1>14 DEF Crash, Respond
  <2> QED
    BY <1>0, <2>1 DEF InflightOK, SlotsBalanced
<1>15. CASE UNCHANGED vars
  <2>1. UNCHANGED <<pc, inflight, src, upload, declared, slots, others>>
    BY <1>15 DEF vars, reqVars, chunkVars, semVars
  <2> QED
    BY <1>0, <2>1 DEF InflightOK, SlotsBalanced
<1> QED
  BY <1>2, <1>3, <1>4, <1>5, <1>6, <1>7, <1>8, <1>9, <1>10, <1>11, <1>12, <1>13, <1>14, <1>15
     DEF Next, RequestStep

(* The invariant holds at the start ... *)
LEMMA SlotInit ==
  Init => SlotInv
<1> SUFFICES ASSUME Init PROVE SlotInv
  OBVIOUS
<1>1. BucketOK
  BY DEF Init, BucketOK, PartMap, NoParts
<1>2. RequestOK
  <2>1. NoUpload \in UploadInfo
    BY DEF NoUpload, UploadInfo
  <2> QED
    BY <2>1 DEF Init, RequestOK
<1>3. ChunkOK
  BY DEF Init, ChunkOK
<1>5. SemOK
  BY S3Assumption DEF Init, SemOK
<1>6. HistOK
  <2>1. file = 0 /\ acked = 0 /\ succeeded = FALSE /\ behindHole = FALSE
    BY DEF Init
  <2>2. file \in 0..MaxObjectSize /\ acked \in Nat
    BY <2>1, PartSizeAssumption
  <2>3. succeeded \in BOOLEAN /\ behindHole \in BOOLEAN
    BY <2>1, Zenon
  <2> QED
    BY <2>2, <2>3, Zenon DEF HistOK
<1>4. InflightOK /\ SlotsBalanced
  BY FS_EmptySet DEF Init, InflightOK, SlotsBalanced
<1> QED
  BY <1>1, <1>2, <1>3, <1>4, <1>5, <1>6, TypeSplit DEF SlotInv

(* ... and always. *)
LEMMA SlotInvariance ==
  Spec => []SlotInv
BY SlotInit, SlotStep, PTL DEF Spec

(* Every variable keeps its type, for every size of parts and of files,    *)
(* every number of slots and whatever fails.                               *)
THEOREM TypeCorrect ==
  Spec => []TypeOK
<1>1. SlotInv => TypeOK
  BY DEF SlotInv
<1> QED
  BY <1>1, SlotInvariance, PTL

(* SlotsBalanced: uploadSemaphore counts exactly the part uploads that     *)
(* run, and the one that waits for its part, through failures, cancelled   *)
(* producers and crashes.  No slot is lost, so the semaphore cannot run    *)
(* dry.                                                                    *)
THEOREM SlotsBalancedCorrect ==
  Spec => []SlotsBalanced
<1>1. SlotInv => SlotsBalanced
  BY DEF SlotInv
<1> QED
  BY <1>1, SlotInvariance, PTL

(* PartSizeFits: the part size computed by calcOptimalPartSize is never    *)
(* too small, cuts the upload into at most MaxMultipartParts parts, and is *)
(* at most MaxPartSize for every length that S3 can store at all.          *)
THEOREM PartSizeFitsCorrect ==
  Spec => []PartSizeFits
<1>1. TypeOK => PartSizeFits
  <2> SUFFICES ASSUME TypeOK, info # NoObject
               PROVE LET n == calcOptimalPartSize(info.size)
                     IN  /\ n * MaxMultipartParts >= info.size
                         /\ n >= MinPartSize
                         /\ info.size <= MaxPartSize * MaxMultipartParts => n <= MaxPartSize
    BY DEF PartSizeFits
  <2>1. info.size \in Nat
    BY DEF TypeOK
  <2> QED
    BY <2>1, PartSizes
<1> QED
  BY <1>1, TypeCorrect, PTL

-----------------------------------------------------------------------------
(* The length in a FileInfo is that of the client's file, once it is       *)
(* declared.                                                               *)
LengthOK(i) == i.size = IF i.deferred THEN 0 ELSE file

(* Part n of the layout b: the bytes of the file after b[n - 1] up to b[n]. *)
Slice(b, n) == Bytes(b[n - 1], b[n] - b[n - 1])

(* The file is being cut at b[1] < b[2] < ... < b[K].  Whatever parts      *)
(* there are in the bucket, they are slices of that layout in their        *)
(* places, and `.part` follows after the last one.  Only the slice that    *)
(* ends the file may be too short for a part.                              *)
Layout(K, b) ==
  /\ K \in Nat /\ b \in [Nat -> Nat]
  /\ b[0] = 0 /\ b[K] <= file
  /\ \A n \in 1..K : b[n - 1] < b[n] /\ (b[n] - b[n - 1] >= MinPartSize \/ b[n] = file)
  /\ \A n \in PartNumbers : parts[n] # NoObject => n <= K /\ parts[n] = Slice(b, n)
  /\ tail # NoObject => /\ Len(tail) \in 1..(MinPartSize - 1) /\ b[K] + Len(tail) <= file
                        /\ tail = Bytes(b[K], Len(tail))

(* The first k parts are in the bucket. *)
AllStored(k) == \A n \in 1..k : n \in PartNumbers /\ parts[n] # NoObject

(* What has been acknowledged is stored in an unbroken run of parts, but   *)
(* for less than MinPartSize bytes.                                        *)
AckedStored(K, b) == \E k \in 0..K : AllStored(k) /\ acked < b[k] + MinPartSize

(* After a success every part is stored, and the offset that was sent      *)
(* counts them and `.part`.                                                *)
Answered(K, b) == pc = "idle" /\ succeeded => AllStored(K) /\ acked = b[K] + Len(Tail0)

(* The lengths that `.info` and the request know of. *)
Lengths ==
  /\ info # NoObject => LengthOK(info)
  /\ pc # "idle" => LengthOK(upload)
  /\ pc \notin {"idle", "newInfo"} /\ info # NoObject =>
       info.size = upload.size /\ info.deferred = upload.deferred

(* The request lists the K parts of the layout, and an ETag that it knows  *)
(* is that of the part in the bucket.                                      *)
Request(K, b) ==
  pc # "idle" =>
    /\ K = Len(upload.parts)
    /\ \A i \in 1..K : /\ upload.parts[i].number = i
                       /\ upload.parts[i].etag # NoObject =>
                            i \in PartNumbers /\ parts[i] = upload.parts[i].etag

(* Before WriteChunk: the offset is the end of what is stored and the      *)
(* request sends the bytes that follow it.  A request that completes the   *)
(* upload sends them all and leaves no short rest.                         *)
Ready(K, b) ==
  pc \in {"newInfo", "declare", "write"} =>
    /\ upload.tailSize = Len(Tail0) /\ upload.offset = b[K] + Len(Tail0)
    /\ src = Bytes(upload.offset, Len(src)) /\ upload.offset + Len(src) <= file
    /\ ~upload.deferred => upload.offset < file \/ file = 0
    /\ completes => /\ upload.deferred /\ upload.offset + Len(src) = file
                    /\ ~ShortRest(upload.tailSize + Len(src))
    /\ pc = "declare" => declared = file /\ upload.offset < file /\ ~completes

(* How far the file has been cut by the request. *)
Cut == upload.offset - taken + bytesUploaded

(* All that was cut off became parts, ... *)
CutIntoParts(K, b) ==
  Cut = b[K] /\ tail = NoObject /\ \A p \in inflight : p.index > 0

(* ... or the last piece is too short and goes to `.part`: this is the end *)
(* of the data, but not that of the file.                                  *)
CutWithTail(K, b) ==
  LET rest == Bytes(b[K], Cut - b[K])
  IN  /\ src = <<>> /\ ~completes
      /\ Cut - b[K] \in 1..(MinPartSize - 1)
      /\ upload.deferred \/ Cut < file
      /\ \A p \in inflight : p.index = 0 => p.bytes = rest
      /\ tail # NoObject => tail = rest
      /\ tail = NoObject => err = "store" \/ \E p \in inflight : p.index = 0

(* In uploadParts: the data that is left follows what was cut off, and     *)
(* every goroutine uploads the slice that its number stands for.           *)
Cutting(K, b) ==
  pc \in {"acquire", "receive", "wait"} =>
    /\ taken <= upload.offset
    /\ src = Bytes(Cut, Len(src)) /\ Cut + Len(src) <= file
    /\ ~upload.deferred => upload.offset < file \/ file = 0
    /\ err = "none" => taken <= bytesUploaded + Len(src)
    /\ completes => /\ upload.deferred /\ ~ShortRest(Len(src))
                    /\ err = "none" => Cut + Len(src) = file
    /\ \A p \in inflight : p.index > 0 => p.bytes = Slice(b, p.index)
    /\ pc = "wait" => src = <<>>
    /\ CutIntoParts(K, b) \/ CutWithTail(K, b)

(* After WriteChunk: without an error the offset counts the parts and      *)
(* `.part`; and if the offset has reached the length of the file, the last *)
(* slice ends there, also after an error.                                  *)
Written(K, b) ==
  pc \in {"finish", "declareLast", "emptyPart", "complete"} =>
    /\ err = "none" => upload.offset = b[K] + Len(Tail0)
    /\ ~upload.deferred /\ upload.offset = file => b[K] = file
    /\ completes /\ err = "none" => upload.offset = file /\ b[K] = file
    /\ pc = "declareLast" => declared = file /\ completes /\ err = "none"
    /\ pc \in {"emptyPart", "complete"} => Complete(upload)
    /\ pc = "emptyPart" => upload.parts = <<>>

(* The upload is open, cut at b into K parts. *)
Body(K, b) ==
  Layout(K, b) /\ AckedStored(K, b) /\ Answered(K, b) /\ Lengths
  /\ Request(K, b) /\ Ready(K, b) /\ Cutting(K, b) /\ Written(K, b)

(* The upload of an empty file whose empty part, which S3 wants for        *)
(* CompleteMultipartUpload, may be stored already.                         *)
Sealed ==
  /\ file = 0 /\ acked < MinPartSize /\ tail = NoObject
  /\ pc = "idle" => ~succeeded
  /\ \A n \in PartNumbers : parts[n] # NoObject => n = 1 /\ parts[n] = <<>>
  /\ info # NoObject => ~info.deferred /\ info.size = 0
  /\ pc \in {"idle", "complete"}
  /\ pc = "complete" => /\ parts[1] = <<>>
                        /\ upload.parts = <<[number |-> 1, etag |-> <<>>]>>
                        /\ upload.offset = 0

(* The multipart upload has been completed: nobody writes any more, and    *)
(* the object is the file.                                                 *)
Finished ==
  /\ pc = "idle"
  /\ info # NoObject => ~info.deferred /\ info.size = file
  /\ object # NoObject => object = Bytes(0, file)

(* What the list of a request says of the part uploads: an entry without   *)
(* ETag belongs to a goroutine that still runs or to one that has failed;  *)
(* nothing is stored once the multipart upload is gone.                    *)
Etags ==
  /\ object # NoObject => mpu = "completed"
  /\ pc \in {"idle", "newInfo", "declare", "write"} =>
       taken = 0 /\ bytesUploaded = 0 /\ err = "none"
  /\ \A i \in 1..Len(upload.parts) :
       /\ upload.parts[i].etag = NoObject => err = "store" \/ \E p \in inflight : p.index = i
       /\ mpu # "open" => upload.parts[i].etag = NoObject
  /\ pc = "complete" => upload.parts # <<>>
  /\ pc = "idle" => upload.parts = <<>>

(* Bytes of the file, ... *)
LEMMA BytesFacts ==
  ASSUME NEW o \in Nat, NEW n \in Nat
  PROVE  /\ Bytes(o, n) \in Seq(Nat) /\ Len(Bytes(o, n)) = n
         /\ \A k \in 1..n : Bytes(o, n)[k] = o + k
         /\ n = 0 => Bytes(o, n) = <<>>
BY DEF Bytes

(* ... put together, ... *)
LEMMA BytesConcat ==
  ASSUME NEW o \in Nat, NEW m \in Nat, NEW n \in Nat
  PROVE  Bytes(o, m) \o Bytes(o + m, n) = Bytes(o, m + n)
<1> DEFINE x == Bytes(o, m)
           y == Bytes(o + m, n)
           z == Bytes(o, m + n)
<1>1. /\ x \in Seq(Nat) /\ y \in Seq(Nat) /\ z \in Seq(Nat)
      /\ Len(x) = m /\ Len(y) = n /\ Len(z) = m + n
      /\ \A k \in 1..m : x[k] = o + k
      /\ \A k \in 1..n : y[k] = o + m + k
      /\ \A k \in 1..(m + n) : z[k] = o + k
  <2>1. o + m \in Nat /\ m + n \in Nat
    OBVIOUS
  <2> QED
    BY <2>1, BytesFacts
<1> HIDE DEF x, y, z
<1>2. x \o y \in Seq(Nat) /\ Len(x \o y) = m + n
  BY <1>1, ConcatProperties
<1>3. ASSUME NEW k \in 1..(m + n) PROVE (x \o y)[k] = z[k]
  <2>1. (x \o y)[k] = IF k <= m THEN x[k] ELSE y[k - m]
    BY <1>1, ConcatProperties
  <2>2. CASE k <= m
    BY <1>1, <2>1, <2>2
  <2>3. CASE ~(k <= m)
    <3>1. k - m \in 1..n
      BY <2>3
    <3> QED
      BY <1>1, <2>1, <2>3, <3>1
  <2> QED
    BY <2>2, <2>3
<1> QED
  BY <1>1, <1>2, <1>3, SeqEqual DEF x, y, z

(* ... from the start, ... *)
LEMMA BytesNext ==
  ASSUME NEW m \in Nat, NEW n \in Nat, m <= n
  PROVE  Bytes(0, m) \o Bytes(m, n - m) = Bytes(0, n)
<1>1. n - m \in Nat /\ 0 + m = m /\ m + (n - m) = n
  OBVIOUS
<1>2. Bytes(0, m) \o Bytes(0 + m, n - m) = Bytes(0, m + (n - m))
  BY <1>1, BytesConcat
<1> QED
  BY <1>1, <1>2

(* ... and cut. *)
LEMMA BytesSplit ==
  ASSUME NEW o \in Nat, NEW n \in Nat, NEW k \in 0..n
  PROVE  /\ SubSeq(Bytes(o, n), 1, k) = Bytes(o, k)
         /\ SubSeq(Bytes(o, n), k + 1, n) = Bytes(o + k, n - k)
<1>1. /\ Bytes(o, n) \in Seq(Nat) /\ Bytes(o, k) \in Seq(Nat) /\ Bytes(o + k, n - k) \in Seq(Nat)
      /\ Len(Bytes(o, n)) = n /\ Len(Bytes(o, k)) = k /\ Len(Bytes(o + k, n - k)) = n - k
      /\ \A i \in 1..n : Bytes(o, n)[i] = o + i
      /\ \A i \in 1..k : Bytes(o, k)[i] = o + i
      /\ \A i \in 1..(n - k) : Bytes(o + k, n - k)[i] = o + k + i
  <2>1. o + k \in Nat /\ n - k \in Nat /\ k \in Nat
    OBVIOUS
  <2> QED
    BY <2>1, BytesFacts
<1>2. SubSeq(Bytes(o, n), 1, k) = Bytes(o, k)
  BY <1>1 DEF Bytes
<1>3. SubSeq(Bytes(o, n), k + 1, n) = Bytes(o + k, n - k)
  BY <1>1 DEF Bytes
<1> QED
  BY <1>2, <1>3

(* The cuts of a layout increase. *)
LEMMA Increasing ==
  ASSUME NEW K \in Nat, NEW b \in [Nat -> Nat], \A n \in 1..K : b[n - 1] < b[n]
  PROVE  \A i \in 0..K, j \in 0..K : i < j => b[i] < b[j]
<1> SUFFICES ASSUME NEW i \in 0..K PROVE \A j \in 0..K : i < j => b[i] < b[j]
  OBVIOUS
<1> DEFINE V == {j \in Nat : j \in 0..K /\ i < j => b[i] < b[j]}
<1>1. 0 \in V
  OBVIOUS
<1>2. ASSUME NEW j \in Nat, j \in V PROVE j + 1 \in V
  <2> SUFFICES ASSUME j + 1 \in 0..K, i < j + 1 PROVE b[i] < b[j + 1]
    OBVIOUS
  <2>1. j + 1 \in 1..K /\ (j + 1) - 1 = j /\ j \in 0..K /\ i \in Nat
    OBVIOUS
  <2>2. b[j] < b[j + 1] /\ b[j] \in Nat /\ b[j + 1] \in Nat /\ b[i] \in Nat
    BY <2>1
  <2>3. i = j \/ i < j
    BY <2>1
  <2> QED
    BY <1>2, <2>1, <2>2, <2>3
<1>3. \A j \in Nat : j \in V
  BY <1>1, <1>2, SetInduction
<1> QED
  BY <1>3

(* The data of a longer list. *)
LEMMA ContentAppend ==
  ASSUME NEW S, NEW list \in Seq([number: S, etag: Seq(Nat)]), NEW e \in [number: S, etag: Seq(Nat)]
  PROVE  Content(Append(list, e)) = Content(list) \o e.etag /\ Content(<<>>) = <<>>
<1> DEFINE s == [i \in 1..Len(list) |-> list[i].etag]
           l2 == Append(list, e)
           t == [i \in 1..Len(l2) |-> l2[i].etag]
<1>1. /\ l2 \in Seq([number: S, etag: Seq(Nat)]) /\ Len(l2) = Len(list) + 1 /\ Len(list) \in Nat
      /\ \A i \in 1..Len(list) : l2[i] = list[i] 
      /\ l2[Len(list) + 1] = e
  BY AppendProperties
<1> HIDE DEF l2
<1>2. \A i \in 1..Len(list) : list[i].etag \in Seq(Nat)
  <2>1. \A i \in 1..Len(list) : list[i] \in [number: S, etag: Seq(Nat)]
    BY ElementOfSeq
  <2> QED
    BY <2>1
<1>3. s \in Seq(Seq(Nat)) /\ Len(s) = Len(list)
  BY <1>1, <1>2
<1>4. e.etag \in Seq(Nat)
  OBVIOUS
<1>5. t = Append(s, e.etag)
  <2>1. Append(s, e.etag) = [i \in 1..(Len(s) + 1) |-> IF i = Len(s) + 1 THEN e.etag ELSE s[i]]
    BY <1>3
  <2> QED
    BY <1>1, <1>3, <2>1
<1>6. Content(list) = FlattenSeq(s) /\ Content(l2) = FlattenSeq(t)
  BY DEF Content
<1> HIDE DEF s, t
<1>7. FlattenSeq(t) = FlattenSeq(s) \o e.etag
  BY <1>3, <1>4, <1>5, FlattenAppend
<1>8. Content(<<>>) = <<>>
  <2>1. [i \in 1..Len(<<>>) |-> <<>>[i].etag] = <<>>
    OBVIOUS
  <2> QED
    BY <2>1, FlattenAppend DEF Content
<1> QED
  BY <1>6, <1>7, <1>8 DEF l2

(* The data of the parts 1 to n that exist. *)
Run(n) == Content(ListedOf(parts)[n])

(* It grows part by part; together with `.part` it is what is stored. *)
LEMMA Runs ==
  ASSUME TypeOK
  PROVE  /\ Run(0) = <<>>
         /\ \A n \in 0..MaxMultipartParts : Run(n) \in Seq(Nat)
         /\ \A n \in PartNumbers :
              Run(n) = IF parts[n] = NoObject THEN Run(n - 1) ELSE Run(n - 1) \o parts[n]
         /\ listAllParts = ListedOf(parts)[MaxMultipartParts]
         /\ Stored = Run(MaxMultipartParts) \o Tail0 /\ Tail0 \in Seq(Nat)
<1>0. parts \in PartMap /\ MaxMultipartParts \in Nat \ {0} /\ tail \in Seq(Nat) \cup {NoObject}
  BY TypeSplit, PartSizeAssumption DEF BucketOK
<1>1. /\ ListedOf(parts) \in [0..MaxMultipartParts -> Seq(ListedPart)]
      /\ ListedOf(parts)[0] = <<>>
      /\ \A n \in PartNumbers :
              ListedOf(parts)[n] = IF parts[n] = NoObject THEN ListedOf(parts)[n - 1]
                          ELSE Append(ListedOf(parts)[n - 1], [number |-> n, etag |-> parts[n]])
  BY <1>0, Listing
<1>2. \A n \in 0..MaxMultipartParts : ListedOf(parts)[n] \in Seq(ListedPart)
  BY <1>1
<1>3. Run(0) = <<>>
  <2>1. Content(<<>>) = <<>>
    <3>1. [i \in 1..Len(<<>>) |-> <<>>[i].etag] = <<>>
      OBVIOUS
    <3> QED
      BY <3>1, FlattenAppend DEF Content
  <2> QED
    BY <1>1, <2>1 DEF Run
<1>4. \A n \in 0..MaxMultipartParts : Run(n) \in Seq(Nat)
  BY <1>2, ContentType DEF Run, ListedPart
<1>5. ASSUME NEW n \in PartNumbers
      PROVE  Run(n) = IF parts[n] = NoObject THEN Run(n - 1) ELSE Run(n - 1) \o parts[n]
  <2>1. n - 1 \in 0..MaxMultipartParts
    BY <1>0 DEF PartNumbers
  <2>2. CASE parts[n] = NoObject
    BY <1>1, <2>2 DEF Run
  <2>3. CASE parts[n] # NoObject
    <3> DEFINE e == [number |-> n, etag |-> parts[n]]
    <3>1. e \in [number: PartNumbers, etag: Seq(Nat)]
      BY <1>0, <2>3 DEF PartMap
    <3>2. ListedOf(parts)[n - 1] \in Seq([number: PartNumbers, etag: Seq(Nat)])
      BY <1>2, <2>1 DEF ListedPart
    <3>3. e.etag = parts[n] /\ ListedOf(parts)[n] = Append(ListedOf(parts)[n - 1], e)
      BY <1>1, <2>3
    <3> HIDE DEF e
    <3>4. Content(Append(ListedOf(parts)[n - 1], e)) = Content(ListedOf(parts)[n - 1]) \o e.etag
      BY <3>1, <3>2, ContentAppend
    <3> QED
      BY <2>3, <3>3, <3>4 DEF Run
  <2> QED
    BY <2>2, <2>3
<1>6. listAllParts = ListedOf(parts)[MaxMultipartParts]
  BY ListedNow DEF listAllParts
<1>7. Stored = Run(MaxMultipartParts) \o Tail0
  BY <1>6 DEF Stored, Run
<1>8. Tail0 \in Seq(Nat)
  BY <1>0 DEF Tail0
<1> QED
  BY <1>3, <1>4, <1>5, <1>6, <1>7, <1>8

(* The data of fewer parts is a start of the data of more, ... *)
LEMMA RunPrefix ==
  ASSUME TypeOK, NEW j \in 0..MaxMultipartParts, NEW n \in j..MaxMultipartParts
  PROVE  /\ Run(n) \in Seq(Nat) /\ Run(j) \in Seq(Nat) /\ Len(Run(j)) <= Len(Run(n))
         /\ \A i \in 1..Len(Run(j)) : Run(n)[i] = Run(j)[i]
<1> DEFINE Ext(m) == /\ Len(Run(j)) <= Len(Run(m))
                     /\ \A i \in 1..Len(Run(j)) : Run(m)[i] = Run(j)[i]
           V == {m \in Nat : m \in j..MaxMultipartParts => Ext(m)}
<1>0. MaxMultipartParts \in Nat \ {0} /\ parts \in PartMap
  BY PartSizeAssumption, TypeSplit DEF BucketOK
<1>1. 0 \in V
  <2>1. j \in Nat /\ (0 \in j..MaxMultipartParts => j = 0)
    BY <1>0
  <2>2. Run(j) \in Seq(Nat)
    BY <1>0, Runs
  <2> QED
    BY <2>1, <2>2
<1>2. ASSUME NEW m \in Nat, m \in V PROVE m + 1 \in V
  <2> SUFFICES ASSUME m + 1 \in j..MaxMultipartParts PROVE Ext(m + 1)
    OBVIOUS
  <2>0. Run(j) \in Seq(Nat) /\ j \in Nat
    BY <1>0, Runs
  <2>1. CASE m + 1 = j
    BY <2>0, <2>1
  <2>2. CASE m + 1 # j
    <3>1. m \in j..MaxMultipartParts /\ m \in 0..MaxMultipartParts /\ m + 1 \in PartNumbers /\ (m + 1) - 1 = m
      BY <1>0, <2>0, <2>2 DEF PartNumbers
    <3>2. Ext(m)
      BY <1>2, <3>1
    <3>3. Run(m) \in Seq(Nat)
      BY <3>1, Runs
    <3>4. CASE parts[m + 1] = NoObject
      <4>1. Run(m + 1) = Run(m)
        BY <3>1, <3>4, Runs
      <4> QED
        BY <3>2, <4>1
    <3>5. CASE parts[m + 1] # NoObject
      <4>1. Run(m + 1) = Run(m) \o parts[m + 1]
        BY <3>1, <3>5, Runs
      <4>2. parts[m + 1] \in Seq(Nat)
        BY <1>0, <3>1, <3>5 DEF PartMap
      <4> DEFINE x == Run(m)
                 y == parts[m + 1]
      <4>3. Len(x \o y) = Len(x) + Len(y) /\ \A i \in 1..Len(x) : (x \o y)[i] = x[i]
        BY <3>3, <4>2, ConcatProperties
      <4>4. Len(Run(j)) <= Len(x) /\ Len(x) \in Nat /\ Len(y) \in Nat /\ Len(Run(j)) \in Nat
        BY <2>0, <3>2, <3>3, <4>2
      <4>5. Len(Run(j)) <= Len(x \o y)
        BY <4>3, <4>4
      <4>6. \A i \in 1..Len(Run(j)) : (x \o y)[i] = Run(j)[i]
        BY <3>2, <4>3, <4>4
      <4> QED
        BY <4>1, <4>5, <4>6
    <3> QED
      BY <3>4, <3>5
  <2> QED
    BY <2>1, <2>2
<1>3. \A m \in Nat : m \in V
  <2> HIDE DEF V
  <2> QED
    BY <1>1, <1>2, SetInduction
<1>4. n \in V /\ Run(n) \in Seq(Nat) /\ Run(j) \in Seq(Nat)
  BY <1>0, <1>3, Runs
<1> QED
  BY <1>4

(* ... and the list stays the same where no part exists. *)
LEMMA RunStays ==
  ASSUME TypeOK, NEW j \in 0..MaxMultipartParts, NEW n \in j..MaxMultipartParts,
         \A m \in PartNumbers : j < m /\ m <= n => parts[m] = NoObject
  PROVE  ListedOf(parts)[n] = ListedOf(parts)[j]
<1> DEFINE V == {m \in Nat : m \in j..n => ListedOf(parts)[m] = ListedOf(parts)[j]}
<1>0. MaxMultipartParts \in Nat \ {0} /\ parts \in PartMap
  BY PartSizeAssumption, TypeSplit DEF BucketOK
<1>1. 0 \in V
  <2>1. j \in Nat /\ (0 \in j..n => j = 0)
    BY <1>0
  <2> QED
    BY <2>1
<1>2. ASSUME NEW m \in Nat, m \in V PROVE m + 1 \in V
  <2> SUFFICES ASSUME m + 1 \in j..n, m + 1 # j PROVE ListedOf(parts)[m + 1] = ListedOf(parts)[j]
    OBVIOUS
  <2>1. m \in j..n /\ m + 1 \in PartNumbers /\ (m + 1) - 1 = m /\ j < m + 1 /\ m + 1 <= n
    BY <1>0 DEF PartNumbers
  <2>2. parts[m + 1] = NoObject
    BY <2>1
  <2>3. ListedOf(parts)[m + 1] = ListedOf(parts)[m]
    BY <1>0, <2>1, <2>2, Listing
  <2> QED
    BY <1>2, <2>1, <2>3
<1>3. \A m \in Nat : m \in V
  <2> HIDE DEF V
  <2> QED
    BY <1>1, <1>2, SetInduction
<1>4. n \in V
  BY <1>0, <1>3
<1> QED
  BY <1>0, <1>4

(* The elements of a concatenation. *)
LEMMA ConcatStart ==
  ASSUME NEW x \in Seq(Nat), NEW y \in Seq(Nat)
  PROVE  /\ x \o y \in Seq(Nat) /\ Len(x \o y) = Len(x) + Len(y) /\ Len(x) \in Nat /\ Len(y) \in Nat
         /\ \A i \in 1..Len(x) : (x \o y)[i] = x[i]
         /\ \A i \in 1..Len(y) : (x \o y)[Len(x) + i] = y[i]
         /\ Len(y) > 0 => (x \o y)[Len(x) + 1] = y[1]
OBVIOUS

(* What follows from a layout. *)
LEMMA LayoutFacts ==
  ASSUME TypeOK, NEW K, NEW b, Layout(K, b)
  PROVE  /\ K \in Nat /\ b[K] \in Nat /\ b[0] = 0
         /\ \A i \in 0..K, j \in 0..K : i < j => b[i] < b[j]
         /\ \A i \in 0..K : b[i] \in Nat /\ b[i] <= b[K] /\ b[i] <= file
         /\ \A n \in 1..K : b[n] - b[n - 1] \in Nat /\ Slice(b, n) \in Seq(Nat)
                            /\ Len(Slice(b, n)) = b[n] - b[n - 1]
         /\ file \in Nat
<1>0. K \in Nat /\ b \in [Nat -> Nat] /\ b[0] = 0
  BY DEF Layout
<1>1. \A i \in 0..K, j \in 0..K : i < j => b[i] < b[j]
  BY <1>0, Increasing DEF Layout
<1>2. file \in Nat /\ b[K] <= file /\ b[K] \in Nat
  BY TypeSplit DEF Layout, HistOK
<1>3. ASSUME NEW i \in 0..K PROVE b[i] \in Nat /\ b[i] <= b[K] /\ b[i] <= file
  <2>1. i = K \/ (i < K /\ K \in 0..K)
    BY <1>0
  <2>2. b[i] \in Nat
    BY <1>0
  <2> QED
    BY <1>1, <1>2, <2>1, <2>2
<1>4. ASSUME NEW n \in 1..K
      PROVE  b[n] - b[n - 1] \in Nat /\ Slice(b, n) \in Seq(Nat) /\ Len(Slice(b, n)) = b[n] - b[n - 1]
  <2>1. n \in Nat /\ n - 1 \in Nat
    BY <1>0
  <2>2. b[n] \in Nat /\ b[n - 1] \in Nat /\ b[n - 1] < b[n]
    BY <1>0, <2>1 DEF Layout
  <2>3. b[n] - b[n - 1] \in Nat
    BY <2>2
  <2> QED
    BY <2>2, <2>3, BytesFacts DEF Slice
<1> QED
  BY <1>0, <1>1, <1>2, <1>3, <1>4

(* The listing of k parts without a gap. *)
FullList(k, b) ==
  /\ k \in 0..MaxMultipartParts /\ Run(k) = Bytes(0, b[k])
  /\ ListedOf(parts)[k] = [i \in 1..k |-> [number |-> i, etag |-> parts[i]]]

(* If the parts 1 to k exist, they are the start of the file. *)
LEMMA FullRun ==
  ASSUME TypeOK, NEW K, NEW b, Layout(K, b),
         NEW k \in 0..K, AllStored(k)
  PROVE  FullList(k, b)
<1>k. K \in Nat /\ k \in Nat /\ k <= K
  BY LayoutFacts
<1> DEFINE L == ListedOf(parts)
           Full(n) == [i \in 1..n |-> [number |-> i, etag |-> parts[i]]]
           V == {n \in Nat : n <= k => n <= MaxMultipartParts /\ Run(n) = Bytes(0, b[n]) /\ L[n] = Full(n)}
<1>0. MaxMultipartParts \in Nat \ {0} /\ parts \in PartMap
  BY PartSizeAssumption, TypeSplit DEF BucketOK
<1>1. 0 \in V
  <2>1. Run(0) = <<>> /\ b[0] = 0 /\ Bytes(0, 0) = <<>>
    BY Runs, BytesFacts DEF Layout
  <2>2. L[0] = <<>> /\ Full(0) = <<>>
    BY <1>0, Listing
  <2> QED
    BY <1>0, <2>1, <2>2
<1>2. ASSUME NEW n \in Nat, n \in V PROVE n + 1 \in V
  <2> SUFFICES ASSUME n + 1 <= k
               PROVE  n + 1 <= MaxMultipartParts /\ Run(n + 1) = Bytes(0, b[n + 1]) /\ L[n + 1] = Full(n + 1)
    OBVIOUS
  <2>1. /\ n + 1 \in 1..k /\ n + 1 \in 1..K /\ (n + 1) - 1 = n /\ n <= k /\ n \in 0..K /\ n + 1 \in 0..K
        /\ n < n + 1
    BY <1>k
  <2>2. n + 1 \in PartNumbers /\ parts[n + 1] # NoObject
    BY <2>1 DEF AllStored
  <2>3. parts[n + 1] = Bytes(b[n], b[n + 1] - b[n])
    BY <2>1, <2>2 DEF Layout, Slice
  <2>4. Run(n + 1) = Run(n) \o parts[n + 1] /\ Run(n) = Bytes(0, b[n]) /\ L[n] = Full(n)
    BY <1>2, <2>1, <2>2, Runs
  <2>5. b[n] \in Nat /\ b[n + 1] \in Nat /\ b[n] < b[n + 1]
    BY <2>1, LayoutFacts
  <2>6. Bytes(0, b[n]) \o Bytes(b[n], b[n + 1] - b[n]) = Bytes(0, b[n + 1])
    <3>1. b[n] <= b[n + 1]
      BY <2>5
    <3> QED
      BY <2>5, <3>1, BytesNext
  <2>7. L[n + 1] = Append(L[n], [number |-> n + 1, etag |-> parts[n + 1]])
    BY <1>0, <2>1, <2>2, Listing
  <2>8. Full(n + 1) = Append(Full(n), [number |-> n + 1, etag |-> parts[n + 1]])
    <3>1. Append(Full(n), [number |-> n + 1, etag |-> parts[n + 1]])
            = [i \in 1..(n + 1) |-> IF i = n + 1 THEN [number |-> n + 1, etag |-> parts[n + 1]] ELSE Full(n)[i]]
      OBVIOUS
    <3> QED
      BY <3>1
  <2> HIDE DEF Full, L
  <2>9. L[n + 1] = Full(n + 1)
    BY <2>4, <2>7, <2>8
  <2> QED
    BY <2>2, <2>3, <2>4, <2>6, <2>9 DEF PartNumbers
<1>3. \A n \in Nat : n \in V
  <2> HIDE DEF V
  <2> QED
    BY <1>1, <1>2, SetInduction
<1>4. k \in V /\ k \in Nat /\ k <= k
  <2>1. k \in Nat /\ k <= k
    BY <1>k
  <2> HIDE DEF V
  <2> QED
    BY <1>3, <2>1
<1> HIDE DEF L, Full
<1>5. k <= MaxMultipartParts /\ Run(k) = Bytes(0, b[k]) /\ L[k] = Full(k)
  BY <1>4
<1> QED
  BY <1>0, <1>4, <1>5 DEF L, Full, FullList

(* Then what is stored begins with the bytes of the file up to b[k]. *)
LEMMA StoredStart ==
  ASSUME TypeOK, NEW K, NEW b, Layout(K, b),
         NEW k \in 0..K, AllStored(k)
  PROVE  /\ Stored \in Seq(Nat) /\ b[k] \in 0..Len(Stored)
         /\ \A i \in 1..b[k] : Stored[i] = i
         /\ SubSeq(Stored, 1, b[k]) = Bytes(0, b[k])
<1> DEFINE M == MaxMultipartParts
           x == Run(M)
<1>a. b[k] \in Nat
  BY LayoutFacts
<1>b. FullList(k, b)
  BY FullRun
<1>0. k \in 0..M /\ Run(k) = Bytes(0, b[k]) /\ b[k] \in Nat
  BY <1>a, <1>b DEF FullList
<1>1. k \in 0..M /\ M \in k..M /\ Run(k) = Bytes(0, b[k]) /\ b[k] \in Nat /\ k \in Nat
  BY <1>0, PartSizeAssumption
<1>2. /\ x \in Seq(Nat) /\ Len(Run(k)) <= Len(x)
      /\ \A i \in 1..Len(Run(k)) : x[i] = Run(k)[i]
  BY <1>1, RunPrefix
<1>3. Len(Run(k)) = b[k] /\ \A i \in 1..b[k] : Run(k)[i] = 0 + i
  <2>1. \A m \in Nat : Len(Bytes(0, m)) = m /\ \A i \in 1..m : Bytes(0, m)[i] = 0 + i
    BY BytesFacts
  <2> QED
    BY <1>1, <2>1
<1>4. Stored = x \o Tail0 /\ Tail0 \in Seq(Nat)
  BY Runs
<1> HIDE DEF x
<1>5. Stored \in Seq(Nat) /\ Len(Stored) = Len(x) + Len(Tail0) /\ Len(x) \in Nat /\ Len(Tail0) \in Nat
      /\ \A i \in 1..Len(x) : Stored[i] = x[i]
  BY <1>2, <1>4, ConcatStart
<1>6. b[k] \in 0..Len(Stored)
  BY <1>1, <1>2, <1>3, <1>5
<1>7. ASSUME NEW i \in 1..b[k] PROVE Stored[i] = i
  <2>1. i \in 1..Len(x) /\ i \in 1..Len(Run(k)) /\ 0 + i = i
    BY <1>1, <1>2, <1>3, <1>5
  <2>2. Stored[i] = x[i] /\ x[i] = Run(k)[i] /\ Run(k)[i] = 0 + i
    BY <1>2, <1>3, <1>5, <2>1
  <2> QED
    BY <2>1, <2>2
<1>8. SubSeq(Stored, 1, b[k]) = Bytes(0, b[k])
  <2>1. ASSUME NEW s \in Seq(Nat), NEW n \in 0..Len(s), \A i \in 1..n : s[i] = i
        PROVE  SubSeq(s, 1, n) = Bytes(0, n)
    <3>0. Len(s) \in Nat /\ n \in Nat
      OBVIOUS
    <3>1. Len(s) \in Nat /\ n \in Nat /\ Bytes(0, n) \in Seq(Nat) /\ Len(Bytes(0, n)) = n
          /\ \A i \in 1..n : Bytes(0, n)[i] = 0 + i
      BY <3>0, BytesFacts
    <3>2. SubSeq(s, 1, n) \in Seq(Nat) /\ Len(SubSeq(s, 1, n)) = n /\ \A i \in 1..n : SubSeq(s, 1, n)[i] = s[i]
      BY <3>1
    <3>3. \A i \in 1..n : SubSeq(s, 1, n)[i] = Bytes(0, n)[i]
      BY <2>1, <3>1, <3>2
    <3> HIDE DEF Bytes
    <3> QED
      BY <3>1, <3>2, <3>3, SeqEqual
  <2> QED
    BY <1>5, <1>6, <1>7, <2>1
<1> QED
  BY <1>5, <1>6, <1>7, <1>8

(* Exactly the parts 1 to k exist, and `.part` follows the last one. *)
StoredUpTo(k, K, b) ==
  /\ AllStored(k) /\ \A n \in PartNumbers : parts[n] # NoObject => n <= k
  /\ tail # NoObject => b[k] = b[K]

(* Then the offset that fetchInfo computes is where the data ends. *)
LEMMA StoredAll ==
  ASSUME TypeOK, NEW K, NEW b, Layout(K, b),
         NEW k \in 0..K, StoredUpTo(k, K, b)
  PROVE  /\ Stored = Bytes(0, b[k] + Len(Tail0)) /\ Len(Stored) = b[k] + Len(Tail0)
         /\ Len(Tail0) \in Nat
         /\ listAllParts = [i \in 1..k |-> [number |-> i, etag |-> parts[i]]]
<1> DEFINE M == MaxMultipartParts
<1>0. /\ k \in 0..M /\ Run(k) = Bytes(0, b[k])
      /\ ListedOf(parts)[k] = [i \in 1..k |-> [number |-> i, etag |-> parts[i]]]
  BY FullRun DEF StoredUpTo, FullList
<1>1. k \in Nat /\ M \in Nat /\ M \in k..M /\ b[k] \in Nat
  BY <1>0, LayoutFacts, PartSizeAssumption
<1>2. \A m \in PartNumbers : k < m /\ m <= M => parts[m] = NoObject
  <2>1. \A m \in PartNumbers : m \in Nat
    BY DEF PartNumbers
  <2>2. \A m \in PartNumbers : parts[m] # NoObject => m <= k
    BY DEF StoredUpTo
  <2> QED
    BY <1>1, <2>1, <2>2
<1>3. ListedOf(parts)[M] = ListedOf(parts)[k]
  BY <1>0, <1>1, <1>2, RunStays
<1>4. listAllParts = ListedOf(parts)[k] /\ Stored = Bytes(0, b[k]) \o Tail0 /\ Tail0 \in Seq(Nat)
  BY <1>0, <1>3, Runs DEF Run
<1>5. Tail0 = Bytes(b[k], Len(Tail0)) /\ Len(Tail0) \in Nat
  <2>1. CASE tail = NoObject
    <3>1. Tail0 = <<>> /\ Len(Tail0) = 0
      BY <2>1 DEF Tail0
    <3> QED
      BY <1>1, <3>1, BytesFacts
  <2>2. CASE tail # NoObject
    <3>1. Tail0 = tail
      BY <2>2 DEF Tail0
    <3> QED
      BY <1>4, <2>2, <3>1 DEF StoredUpTo, Layout
  <2> QED
    BY <2>1, <2>2
<1>6. \A m \in Nat, n \in Nat : /\ Bytes(0, m) \o Bytes(m, n) = Bytes(0, m + n)
                                /\ Len(Bytes(0, m + n)) = m + n
  <2> TAKE m \in Nat, n \in Nat
  <2>1. 0 + m = m /\ m + n \in Nat
    OBVIOUS
  <2>2. Bytes(0, m) \o Bytes(0 + m, n) = Bytes(0, m + n)
    BY BytesConcat
  <2>3. Len(Bytes(0, m + n)) = m + n
    BY <2>1, BytesFacts
  <2> QED
    BY <2>1, <2>2, <2>3
<1>7. Stored = Bytes(0, b[k] + Len(Tail0))
  BY <1>1, <1>4, <1>5, <1>6
<1>8. Len(Stored) = b[k] + Len(Tail0)
  BY <1>1, <1>5, <1>6, <1>7
<1> QED
  BY <1>0, <1>4, <1>5, <1>7, <1>8

(* The place after x bytes is in every run that is longer. *)
LEMMA Beyond ==
  ASSUME NEW x \in Nat, NEW d \in Nat, d > 0, NEW y, y = x + d, NEW z \in Nat, y <= z
  PROVE  x + 1 \in 1..y /\ x + 1 \in 1..z
OBVIOUS

(* Conversely: if what is stored is a start of the file, no part is        *)
(* missing before another one or before `.part`.  The byte after the first *)
(* gap would be in the wrong place, as slices are not empty.               *)
LEMMA NoHole ==
  ASSUME TypeOK, NEW K, NEW b, Layout(K, b), IsStart(Stored)
  PROVE  \E k \in 0..K : StoredUpTo(k, K, b)
<1> DEFINE M == MaxMultipartParts
           Missing == {n \in Nat : n >= 1 /\ ~(n \in PartNumbers /\ parts[n] # NoObject)}
<1>0. M \in Nat \ {0} /\ parts \in PartMap
  BY PartSizeAssumption, TypeSplit DEF BucketOK
<1>1. PICK m \in Missing : \A n \in Missing : m <= n
  <2>1. M + 1 \in Missing
    BY <1>0 DEF PartNumbers
  <2> QED
    BY <2>1, LeastElement
<1> DEFINE k == m - 1
<1>2. k \in Nat /\ k + 1 = m /\ m \in Nat /\ K \in Nat
  BY <1>1, LayoutFacts
<1>3. AllStored(k)
  <2>1. ASSUME NEW n \in 1..k PROVE n \in PartNumbers /\ parts[n] # NoObject
    <3>1. n \in Nat /\ n >= 1 /\ ~(m <= n)
      BY <1>2
    <3>2. n \notin Missing
      BY <1>1, <3>1
    <3> QED
      BY <3>1, <3>2
  <2> QED
    BY <2>1 DEF AllStored
<1>4. k \in 0..K
  <2>1. CASE k = 0
    BY <1>2, <2>1
  <2>2. CASE k # 0
    <3>1. k \in 1..k
      BY <1>2, <2>2
    <3>2. k \in PartNumbers /\ parts[k] # NoObject
      BY <1>3, <3>1 DEF AllStored
    <3> QED
      BY <1>2, <3>2 DEF Layout
  <2> QED
    BY <2>1, <2>2
<1>5. ~(m \in PartNumbers /\ parts[m] # NoObject)
  BY <1>1
<1> HIDE DEF Missing, k
<1>6. k \in 0..M /\ Run(k) = Bytes(0, b[k]) /\ b[k] \in Nat
  <2>0. FullList(k, b)
    BY <1>3, <1>4, FullRun
  <2>1. k \in 0..M /\ Run(k) = Bytes(0, b[k])
    BY <2>0 DEF FullList
  <2> QED
    BY <1>4, <2>1, LayoutFacts
<1>7. Stored \in Seq(Nat) /\ \A i \in 1..Len(Stored) : Stored[i] = i
  <2>0. Stored \in Seq(Nat)
    BY <1>3, <1>4, StoredStart
  <2>1. Stored \in Seq(Nat) /\ Len(Stored) \in Nat
    BY <2>0
  <2>2. Stored = Bytes(0, Len(Stored))
    BY DEF IsStart
  <2>3. \A i \in 1..Len(Stored) : Bytes(0, Len(Stored))[i] = 0 + i
    BY <2>1, BytesFacts
  <2> QED
    BY <2>1, <2>2, <2>3
<1>8. \A n \in PartNumbers : parts[n] # NoObject => n <= k
  <2> DEFINE Later == {n \in PartNumbers : parts[n] # NoObject /\ n > k}
  <2> SUFFICES ASSUME Later # {} PROVE FALSE
    BY <1>2 DEF PartNumbers
  <2>1. PICK n \in Later : \A j \in Later : n <= j
    <3>1. Later \subseteq Nat
      BY DEF PartNumbers
    <3> HIDE DEF Later
    <3> QED
      BY <3>1, LeastElement
  <2>2. /\ n \in PartNumbers /\ parts[n] # NoObject /\ n > m /\ n - 1 \in k..M /\ n \in Nat /\ n \in 1..M
        /\ n - 1 \in 0..M
    BY <1>0, <1>2, <1>5, <2>1 DEF PartNumbers
  <2>3. \A j \in PartNumbers : k < j /\ j <= n - 1 => parts[j] = NoObject
    <3>1. ASSUME NEW j \in PartNumbers, k < j, j <= n - 1, parts[j] # NoObject PROVE FALSE
      <4>1. j \in Later
        BY <1>2, <3>1
      <4>2. n <= j /\ j \in Nat
        BY <2>1, <4>1 DEF PartNumbers
      <4> QED
        BY <2>2, <3>1, <4>2
    <3> QED
      BY <3>1
  <2>4. ListedOf(parts)[n - 1] = ListedOf(parts)[k]
    BY <1>6, <2>2, <2>3, RunStays
  <2>5. Run(n) = Bytes(0, b[k]) \o parts[n]
    BY <1>6, <2>2, <2>4, Runs DEF Run
  <2>6a. parts[n] = Slice(b, n) /\ n <= K
    BY <2>2 DEF Layout
  <2>6. parts[n] = Slice(b, n) /\ n <= K /\ n \in 1..K /\ n - 1 \in 0..K /\ n - 1 \in Nat
    BY <1>2, <2>2, <2>6a
  <2>7. b[n - 1] > b[k] /\ b[n - 1] \in Nat
    <3>1. n - 1 > k
      BY <1>2, <2>2
    <3> QED
      BY <1>4, <2>6, <3>1, LayoutFacts
  <2>8a. b[n - 1] < b[n] /\ b[n] \in Nat
    BY <2>2, <2>6 DEF Layout
  <2>8. b[n] - b[n - 1] \in Nat /\ b[n] - b[n - 1] > 0 /\ 1 \in 1..(b[n] - b[n - 1])
    BY <2>7, <2>8a
  <2> DEFINE u == Bytes(0, b[k])
             v == Bytes(b[n - 1], b[n] - b[n - 1])
  <2>9a. u \in Seq(Nat) /\ Len(u) = b[k]
    BY <1>6, BytesFacts
  <2>9b. v \in Seq(Nat) /\ Len(v) = b[n] - b[n - 1] /\ v[1] = b[n - 1] + 1
    BY <2>7, <2>8, BytesFacts
  <2>9. u \in Seq(Nat) /\ Len(u) = b[k] /\ v \in Seq(Nat) /\ Len(v) > 0 /\ v[1] = b[n - 1] + 1
    BY <2>8, <2>9a, <2>9b
  <2>10. parts[n] = v /\ Run(n) = u \o v
    BY <2>5, <2>6 DEF Slice
  <2> HIDE DEF u, v
  <2>11. Len(Run(n)) = Len(u) + Len(v) /\ Run(n)[b[k] + 1] = v[1] /\ Len(u) \in Nat /\ Len(v) \in Nat
    <3>1. /\ Len(u \o v) = Len(u) + Len(v) /\ (u \o v)[Len(u) + 1] = v[1]
          /\ Len(u) \in Nat /\ Len(v) \in Nat
      BY <2>9, ConcatStart
    <3> QED
      BY <2>9, <2>10, <3>1
  <2>12. /\ Run(M) \in Seq(Nat) /\ Run(n) \in Seq(Nat) /\ Len(Run(n)) <= Len(Run(M))
         /\ \A i \in 1..Len(Run(n)) : Run(M)[i] = Run(n)[i]
    <3>1. n \in 0..M /\ M \in n..M
      BY <1>0, <2>2
    <3> QED
      BY <3>1, RunPrefix
  <2>13. b[k] + 1 \in 1..Len(Run(n)) /\ b[k] + 1 \in 1..Len(Run(M))
    <3>1. Len(Run(M)) \in Nat
      BY <2>12
    <3>2. Len(Run(n)) = b[k] + Len(v) /\ Len(v) \in Nat /\ Len(v) > 0
      BY <2>9, <2>11
    <3>3. b[k] \in Nat /\ Len(Run(n)) <= Len(Run(M))
      BY <1>6, <2>12
    <3> QED
      BY <3>1, <3>2, <3>3, Beyond
  <2>14. Stored[b[k] + 1] = Run(M)[b[k] + 1] /\ b[k] + 1 \in 1..Len(Stored)
    <3> DEFINE w == Run(M)
    <3>1. Stored = w \o Tail0 /\ Tail0 \in Seq(Nat) /\ w \in Seq(Nat) /\ b[k] + 1 \in 1..Len(w)
      BY <2>12, <2>13, Runs
    <3> HIDE DEF w
    <3>2. Len(w \o Tail0) = Len(w) + Len(Tail0) /\ (w \o Tail0)[b[k] + 1] = w[b[k] + 1]
      BY <3>1, ConcatProperties
    <3> QED
      BY <1>6, <3>1, <3>2 DEF w
  <2>15. Stored[b[k] + 1] = b[n - 1] + 1 /\ Stored[b[k] + 1] = b[k] + 1
    BY <1>7, <2>9, <2>11, <2>12, <2>13, <2>14
  <2> QED
    BY <1>6, <2>7, <2>15
<1>9. tail # NoObject => b[k] = b[K]
  <2> SUFFICES ASSUME tail # NoObject PROVE b[k] = b[K]
    OBVIOUS
  <2>1. ListedOf(parts)[M] = ListedOf(parts)[k]
    <3>1. \A j \in PartNumbers : k < j /\ j <= M => parts[j] = NoObject
      BY <1>6, <1>8 DEF PartNumbers
    <3>2. M \in k..M
      BY <1>0, <1>6
    <3> QED
      BY <1>6, <3>1, <3>2, RunStays
  <2>2. Stored = Bytes(0, b[k]) \o tail
    BY <1>6, <2>1, Runs DEF Run, Tail0
  <2>3. tail = Bytes(b[K], Len(tail)) /\ Len(tail) \in 1..(MinPartSize - 1) /\ b[K] \in Nat /\ Len(tail) \in Nat
    BY DEF Layout
  <2>4. tail \in Seq(Nat) /\ tail[1] = b[K] + 1
    <3>1. 1 \in 1..Len(tail)
      BY <2>3, PartSizeAssumption
    <3>2. Bytes(b[K], Len(tail)) \in Seq(Nat) /\ Bytes(b[K], Len(tail))[1] = b[K] + 1
      BY <2>3, <3>1, BytesFacts
    <3> QED
      BY <2>3, <3>2
  <2> DEFINE u == Bytes(0, b[k])
  <2>5. u \in Seq(Nat) /\ Len(u) = b[k]
    BY <1>6, BytesFacts
  <2> HIDE DEF u
  <2>6. Len(tail) > 0
    BY <2>3, PartSizeAssumption
  <2>7. Len(u \o tail) = Len(u) + Len(tail) /\ (u \o tail)[b[k] + 1] = tail[1]
    <3>1. Len(u \o tail) = Len(u) + Len(tail) /\ (u \o tail)[Len(u) + 1] = tail[1]
      BY <2>4, <2>5, <2>6, ConcatStart
    <3> QED
      BY <2>5, <3>1
  <2>8. Stored[b[k] + 1] = tail[1] /\ Len(Stored) = b[k] + Len(tail)
    BY <2>2, <2>5, <2>7 DEF u
  <2>10. b[k] + 1 \in 1..Len(Stored)
    BY <1>6, <2>3, <2>6, <2>8
  <2>9. b[k] + 1 = b[K] + 1
    BY <1>7, <2>4, <2>8, <2>10
  <2> QED
    BY <1>6, <2>3, <2>9
<1> QED
  BY <1>3, <1>4, <1>8, <1>9 DEF StoredUpTo

(* All slices together are the file up to b[K]. *)
LEMMA ContentOfSlices ==
  ASSUME TypeOK, NEW K, NEW b, Layout(K, b),
         NEW list \in Seq([number: Nat, etag: Seq(Nat)]), Len(list) = K,
         \A i \in 1..K : list[i].etag = Slice(b, i)
  PROVE  Content(list) = Bytes(0, b[K])
<1> DEFINE s == [i \in 1..Len(list) |-> list[i].etag]
           F == [i \in 0..K |-> Bytes(0, b[i])]
<1>0. K \in Nat /\ b[0] = 0
  BY LayoutFacts
<1>1. \A i \in 1..K : list[i].etag \in Seq(Nat)
  BY LayoutFacts
<1>2. s \in Seq(Seq(Nat)) /\ Len(s) = K /\ \A i \in 1..K : s[i] = Slice(b, i)
  BY <1>0, <1>1
<1>3. \A i \in 0..K : Bytes(0, b[i]) \in Seq(Nat)
  <2>1. \A i \in 0..K : b[i] \in Nat
    BY LayoutFacts
  <2>2. \A n \in Nat : Bytes(0, n) \in Seq(Nat)
    BY BytesFacts
  <2> QED
    BY <2>1, <2>2
<1>4. F \in [0..K -> Seq(Nat)]
  BY <1>3
<1>5. F[0] = <<>> /\ F[K] = Bytes(0, b[K])
  <2>1. Bytes(0, 0) = <<>>
    BY BytesFacts
  <2> QED
    BY <1>0, <2>1
<1>6. ASSUME NEW i \in 1..K PROVE F[i] = F[i - 1] \o s[i]
  <2>1. i \in 0..K /\ i - 1 \in 0..K /\ i - 1 < i
    BY <1>0
  <2>2. F[i] = Bytes(0, b[i]) /\ F[i - 1] = Bytes(0, b[i - 1])
    BY <2>1
  <2>3. b[i] \in Nat /\ b[i - 1] \in Nat /\ b[i - 1] < b[i]
    BY <2>1, LayoutFacts
  <2>4. b[i - 1] <= b[i]
    BY <2>3
  <2>5. Bytes(0, b[i - 1]) \o Bytes(b[i - 1], b[i] - b[i - 1]) = Bytes(0, b[i])
    BY <2>3, <2>4, BytesNext
  <2>6. s[i] = Bytes(b[i - 1], b[i] - b[i - 1])
    BY <1>2 DEF Slice
  <2> HIDE DEF F, s
  <2> QED
    BY <2>2, <2>5, <2>6
<1>7. Content(list) = FlattenSeq(s)
  BY DEF Content
<1> HIDE DEF F, s
<1>8. FlattenSeq(s) = F[Len(s)]
  <2>1. /\ F \in [0..Len(s) -> Seq(Nat)] /\ F[0] = <<>>
        /\ \A i \in 1..Len(s) : F[i] = F[i - 1] \o s[i]
    BY <1>2, <1>4, <1>5, <1>6
  <2>2. s \in Seq(Seq(Nat))
    BY <1>2
  <2> QED
    BY <2>1, <2>2, FlattenRuns
<1> QED
  BY <1>2, <1>5, <1>7, <1>8

-----------------------------------------------------------------------------

(* A request that has ended has no list. *)
LEMMA RespondEtags ==
  ASSUME NEW ok, Respond(ok), object' # NoObject => mpu' = "completed"
  PROVE  Etags'
<1>1. /\ pc' = "idle" /\ upload' = NoUpload /\ taken' = 0 /\ bytesUploaded' = 0 /\ err' = "none"
  BY Zenon DEF Respond
<1>2. upload'.parts = <<>> /\ Len(upload'.parts) = 0
  BY <1>1 DEF NoUpload
<1> QED
  BY <1>1, <1>2 DEF Etags

(* Every step preserves Etags. *)
LEMMA EtagsStep ==
  SlotInv /\ Etags /\ [Next]_vars => Etags'
<1> SUFFICES ASSUME SlotInv, Etags, [Next]_vars PROVE Etags'
  OBVIOUS
<1>0. /\ TypeOK /\ upload \in UploadInfo /\ upload.parts \in Seq(Listed) /\ Len(upload.parts) \in Nat
      /\ inflight \subseteq Part /\ InflightOK /\ NoObject \notin Seq(Nat)
  BY TypeSplit, S3Assumption DEF SlotInv, RequestOK, UploadInfo, ChunkOK
<1>1. CASE /\ UNCHANGED <<mpu, object, inflight, taken, bytesUploaded>> /\ upload'.parts = upload.parts
           /\ err' \in {err, "store"} \/ err = "none"
           /\ pc' # "idle" \/ pc = "idle"
           /\ pc' \in {"idle", "newInfo", "declare", "write"} =>
                pc \in {"idle", "newInfo", "declare", "write"} /\ err' = err
           /\ pc' = "complete" => upload.parts # <<>>
  BY <1>1 DEF Etags
<1>2. CASE NewUpload
  <2>1. /\ object' = NoObject /\ pc = "idle" /\ pc' = "newInfo" /\ UNCHANGED <<taken, bytesUploaded, err>>
    BY <1>2 DEF NewUpload
  <2>2. upload'.parts = <<>> /\ Len(upload'.parts) = 0
    BY <1>2 DEF NewUpload, NoUpload
  <2> QED
    BY <2>1, <2>2 DEF Etags
<1>3. CASE CreateInfo
  BY <1>1, <1>3 DEF CreateInfo, reqVars, chunkVars
<1>4. CASE DeclareLength
  <2>1. upload'.parts = upload.parts
    BY <1>0, <1>4 DEF DeclareLength, UploadInfo
  <2> QED
    BY <1>1, <1>4, <2>1 DEF DeclareLength, chunkVars
<1>5. CASE WriteInfoFails
  BY <1>5, RespondEtags DEF WriteInfoFails, Etags
<1>6. CASE Patch
  <2>1. /\ pc = "idle" /\ info # NoObject /\ upload' = fetchInfo
        /\ pc' \in {"write", "declare"}
        /\ UNCHANGED <<mpu, object, taken, bytesUploaded, err, inflight>>
    BY <1>6 DEF Patch, bucketVars
  <2>2. CASE mpu = "open"
    <3>1. upload'.parts = listAllParts
      BY <2>1, <2>2 DEF fetchInfo
    <3>2. listAllParts \in Seq(ListedPart)
      BY <1>0, StoredType, TypeSplit DEF BucketOK
    <3>3. \A i \in 1..Len(listAllParts) : listAllParts[i].etag # NoObject
      <4>1. \A i \in 1..Len(listAllParts) : listAllParts[i] \in ListedPart
        BY <3>2, ElementOfSeq
      <4> QED
        BY <1>0, <4>1 DEF ListedPart
    <3> QED
      BY <2>1, <2>2, <3>1, <3>3 DEF Etags
  <2>3. CASE mpu # "open"
    <3>1. upload'.parts = <<>> /\ Len(upload'.parts) = 0
      BY <2>1, <2>3 DEF fetchInfo
    <3> QED
      BY <2>1, <3>1 DEF Etags
  <2> QED
    BY <2>2, <2>3
<1>7. CASE WriteChunk \/ WriteChunkFails
  <2>1. /\ UNCHANGED <<mpu, object, inflight, bytesUploaded, upload>>
        /\ err' \in {err, "store"} /\ pc = "write" /\ pc' \in {"acquire", "finish"}
    BY <1>7 DEF WriteChunk, WriteChunkFails, reqVars
  <2> QED
    BY <2>1 DEF Etags
<1>8. CASE Acquire \/ ReceiveEnd
  BY <1>1, <1>8 DEF Acquire, ReceiveEnd, bucketVars, reqVars, chunkVars
<1>9. CASE ReceivePart
  <2> DEFINE part == [index  |-> IF PartWorthy THEN Len(upload.parts) + 1 ELSE 0,
                      number |-> Len(upload.parts) + 1, bytes |-> nextPart]
             entry == [number |-> part.number, etag |-> NoObject]
             l == upload.parts
  <2>1. /\ inflight' = inflight \cup {part}
        /\ upload' = IF PartWorthy THEN [upload EXCEPT !.parts = Append(@, entry)] ELSE upload
        /\ pc' = "acquire"
        /\ UNCHANGED <<mpu, object, err>>
    BY <1>9 DEF ReceivePart, bucketVars
  <2>2. part.index = IF PartWorthy THEN Len(l) + 1 ELSE 0
    OBVIOUS
  <2>3. entry.etag = NoObject /\ entry \in Listed
    BY <1>0 DEF Listed
  <2> HIDE DEF part, entry
  <2>4. CASE PartWorthy
    <3>1. upload'.parts = Append(l, entry)
      BY <1>0, <2>1, <2>4 DEF UploadInfo
    <3>2. Len(upload'.parts) = Len(l) + 1 /\ upload'.parts[Len(l) + 1] = entry
          /\ \A i \in 1..Len(l) : upload'.parts[i] = l[i]
      BY <1>0, <2>3, <3>1, AppendProperties
    <3>3. ASSUME NEW i \in 1..Len(upload'.parts)
          PROVE  /\ upload'.parts[i].etag = NoObject => err' = "store" \/ \E p \in inflight' : p.index = i
                 /\ mpu' # "open" => upload'.parts[i].etag = NoObject
      <4>1. i = Len(l) + 1 \/ i \in 1..Len(l)
        BY <1>0, <3>2
      <4>2. CASE i = Len(l) + 1
        BY <2>1, <2>2, <2>3, <2>4, <3>2, <4>2
      <4>3. CASE i \in 1..Len(l)
        BY <2>1, <3>2, <4>3 DEF Etags
      <4> QED
        BY <4>1, <4>2, <4>3
    <3> QED
      BY <2>1, <3>3 DEF Etags
  <2>5. CASE ~PartWorthy
    BY <2>1, <2>5 DEF Etags
  <2> QED
    BY <2>4, <2>5
<1>10. CASE ProducerStops
  BY <1>1, <1>10 DEF ProducerStops, bucketVars, reqVars
<1>11. ASSUME NEW p \in inflight, PartUploaded(p)
       PROVE  Etags'
  <2>1. /\ Accepted(p) /\ inflight' = inflight \ {p}
        /\ upload' = IF p.index > 0 THEN [upload EXCEPT !.parts[p.index].etag = p.bytes]
                                    ELSE [upload EXCEPT !.tailSize = Len(p.bytes)]
        /\ UNCHANGED <<mpu, object, pc, err, taken, bytesUploaded>>
    BY <1>11 DEF PartUploaded
  <2>2. p.index \in 0..Len(upload.parts) /\ p.bytes \in Seq(Nat) /\ p.bytes # NoObject
        /\ pc \in {"acquire", "receive", "wait"}
    BY <1>0 DEF InflightOK, Part
  <2>3. CASE p.index > 0
    <3> DEFINE l == upload.parts
               e == [l[p.index] EXCEPT !.etag = p.bytes]
    <3>1. upload'.parts = [l EXCEPT ![p.index] = e] /\ mpu = "open" /\ p.index \in 1..Len(l)
      BY <1>0, <2>1, <2>2, <2>3 DEF UploadInfo, Accepted
    <3>2. e.etag = p.bytes /\ e \in Listed
      <4>1. l[p.index] \in Listed
        BY <1>0, <3>1, ElementOfSeq
      <4> QED
        BY <2>2, <4>1 DEF Listed
    <3> HIDE DEF e
    <3>3. Len(upload'.parts) = Len(l) /\ \A i \in 1..Len(l) : upload'.parts[i] = IF i = p.index THEN e ELSE l[i]
      BY <1>0, <3>1, <3>2, ExceptSeq
    <3>4. ASSUME NEW i \in 1..Len(l), upload'.parts[i].etag = NoObject
          PROVE  err' = "store" \/ \E q \in inflight' : q.index = i
      <4>1. i # p.index /\ l[i].etag = NoObject
        BY <2>2, <3>2, <3>3, <3>4
      <4>2. err = "store" \/ \E q \in inflight : q.index = i
        BY <4>1 DEF Etags
      <4> QED
        BY <2>1, <4>1, <4>2
    <3> QED
      BY <2>1, <2>2, <3>1, <3>3, <3>4 DEF Etags
  <2>4. CASE ~(p.index > 0)
    <3>1. upload'.parts = upload.parts
      BY <1>0, <2>1, <2>4 DEF UploadInfo
    <3>2. ASSUME NEW i \in 1..Len(upload.parts), upload.parts[i].etag = NoObject
          PROVE  err' = "store" \/ \E q \in inflight' : q.index = i
      <4>1. err = "store" \/ \E q \in inflight : q.index = i
        BY <3>2 DEF Etags
      <4>2. i # p.index
        BY <1>0, <2>2, <2>4
      <4> QED
        BY <2>1, <4>1, <4>2
    <3> QED
      BY <2>1, <2>2, <3>1, <3>2 DEF Etags
  <2> QED
    BY <2>3, <2>4
<1>12. ASSUME NEW p \in inflight, PartFails(p)
       PROVE  Etags'
  <2>1. UNCHANGED <<mpu, object, pc, upload>> /\ err' = "store"
    BY <1>12 DEF PartFails, reqVars
  <2>2. pc \in {"acquire", "receive", "wait"}
    BY <1>0 DEF InflightOK
  <2> QED
    BY <2>1, <2>2 DEF Etags
<1>13. CASE ChunkWritten
  <2>1. upload'.parts = upload.parts
    BY <1>0, <1>13 DEF ChunkWritten, UploadInfo
  <2> QED
    BY <1>1, <1>13, <2>1 DEF ChunkWritten, chunkVars, bucketVars
<1>14. CASE finishUploadIfComplete
  <2>1. UNCHANGED <<mpu, object>> /\ pc = "finish"
    BY <1>14 DEF finishUploadIfComplete, bucketVars
  <2>2. CASE \/ /\ pc' = IF upload.parts = <<>> THEN "emptyPart" ELSE "complete"
                /\ UNCHANGED <<reqVars, chunkVars, histVars>>
             \/ /\ pc' = "declareLast"
                /\ UNCHANGED <<upload, completes, chunkVars, histVars>>
    <3>1. UNCHANGED <<upload, taken, bytesUploaded, inflight, err>>
      BY <2>2 DEF reqVars, chunkVars
    <3> QED
      BY <1>1, <2>1, <2>2, <3>1
  <2>3. CASE Respond(err = "none")
    BY <2>1, <2>3, RespondEtags DEF Etags
  <2> QED
    BY <1>14, <2>2, <2>3 DEF finishUploadIfComplete
<1>15. CASE UploadEmptyPart
  <2>1. /\ mpu = "open" /\ UNCHANGED <<mpu, object>> /\ pc' = "complete"
        /\ upload' = [upload EXCEPT !.parts = <<[number |-> 1, etag |-> <<>>]>>]
    BY <1>15 DEF UploadEmptyPart
  <2>2. upload'.parts = <<[number |-> 1, etag |-> <<>>]>>
    BY <1>0, <2>1 DEF UploadInfo
  <2>3. Len(upload'.parts) = 1 /\ upload'.parts[1].etag = <<>> /\ <<>> # NoObject /\ upload'.parts # <<>>
    <3>1. <<>> # NoObject
      BY <1>0, EmptySeq
    <3>2. Len(upload'.parts) = 1 /\ upload'.parts[1].etag = <<>>
      BY <2>2
    <3>3. Len(<<>>) = 0
      OBVIOUS
    <3> QED
      BY <3>1, <3>2, <3>3
  <2> QED
    BY <2>1, <2>3 DEF Etags
<1>16. CASE FinishUpload \/ FinishUploadFails
  <2>1. /\ Respond(err = "none") \/ Respond(FALSE)
        /\ mpu' = "completed" \/ UNCHANGED <<mpu, object>>
    BY <1>16 DEF FinishUpload, FinishUploadFails, CompleteUpload
  <2> QED
    BY <2>1, RespondEtags DEF Etags
<1>17. CASE Terminate
  <2>1. /\ pc = "idle" /\ UNCHANGED <<pc, upload, taken, bytesUploaded, err>>
        /\ object' \in {object, NoObject} /\ (mpu = "completed" => mpu' = mpu)
    BY <1>17 DEF Terminate, reqVars, chunkVars
  <2>2. upload.parts = <<>> /\ Len(upload.parts) = 0
    BY <2>1 DEF Etags
  <2> QED
    BY <2>1, <2>2 DEF Etags
<1>18. CASE OthersAcquire \/ OthersRelease
  BY <1>1, <1>18 DEF OthersAcquire, OthersRelease, bucketVars, reqVars, chunkVars, Etags
<1>19. CASE Crash
  BY <1>19, RespondEtags DEF Crash, Etags
<1>20. CASE UNCHANGED vars
  BY <1>1, <1>20 DEF vars, bucketVars, reqVars, chunkVars, Etags
<1> QED
  BY <1>2, <1>3, <1>4, <1>5, <1>6, <1>7, <1>8, <1>9, <1>10, <1>11, <1>12, <1>13, <1>14, <1>15,
     <1>16, <1>17, <1>18, <1>19, <1>20 DEF Next, RequestStep

(* The requests of tus 1, and those of the IETF draft that complete an     *)
(* upload unless a short rest is left.  The other two kinds lose a rest    *)
(* that is too short for a part: "draftTail", as the run S3Store_tail      *)
(* shows, and "declareOffset" in the same way.                             *)
PlainRequests == Requests \subseteq {"draft"}

(* An open upload is cut at some layout, or is sealed. *)
OpenInv == Sealed \/ \E K, b : Body(K, b)

(* The invariant of the data, as long as no request was begun behind a hole. *)
DataInv ==
  ~behindHole => /\ mpu = "open" => OpenInv
                 /\ mpu = "completed" => Finished

(* The types that the proofs below use. *)
LEMMA Types ==
  ASSUME SlotInv
  PROVE  /\ upload \in UploadInfo /\ upload.size \in Nat /\ upload.deferred \in BOOLEAN
         /\ upload.offset \in Nat /\ upload.tailSize \in Nat /\ upload.parts \in Seq(Listed)
         /\ Len(upload.parts) \in Nat
         /\ src \in Seq(Nat) /\ Len(src) \in Nat /\ taken \in Nat /\ bytesUploaded \in Nat
         /\ inflight \subseteq Part /\ file \in Nat /\ acked \in Nat /\ Cut \in Int
         /\ parts \in PartMap /\ tail \in Seq(Nat) \cup {NoObject}
         /\ Tail0 \in Seq(Nat) /\ Len(Tail0) \in Nat
         /\ NoObject \notin Seq(Nat) /\ MinPartSize \in Nat \ {0} /\ MaxMultipartParts \in Nat \ {0}
         /\ PreferredPartSize \in Nat /\ MinPartSize <= PreferredPartSize
         /\ TypeOK /\ InflightOK
<1>1. TypeOK /\ BucketOK /\ RequestOK /\ ChunkOK /\ SemOK /\ HistOK /\ InflightOK
  BY TypeSplit DEF SlotInv
<1>2. upload \in UploadInfo
  BY <1>1 DEF RequestOK
<1>3. /\ upload.size \in Nat /\ upload.offset \in Nat /\ upload.tailSize \in Nat
      /\ upload.parts \in Seq(Listed) /\ Len(upload.parts) \in Nat /\ upload.deferred \in BOOLEAN
  BY <1>2 DEF UploadInfo
<1>4. /\ src \in Seq(Nat) /\ Len(src) \in Nat /\ taken \in Nat /\ bytesUploaded \in Nat /\ inflight \subseteq Part
  BY <1>1 DEF ChunkOK
<1>5. Cut \in Int
  BY <1>3, <1>4 DEF Cut
<1>6. file \in Nat /\ acked \in Nat
  BY <1>1 DEF HistOK
<1>7. parts \in PartMap /\ tail \in Seq(Nat) \cup {NoObject}
  BY <1>1 DEF BucketOK
<1>8. Tail0 \in Seq(Nat) /\ Len(Tail0) \in Nat
  BY <1>7 DEF Tail0
<1> QED
  BY <1>1, <1>2, <1>3, <1>4, <1>5, <1>6, <1>7, <1>8, PartSizeAssumption, S3Assumption

(* The layout outlives `.part`. *)
LEMMA KeepLayout ==
  ASSUME NEW K, NEW b, Layout(K, b), UNCHANGED <<parts, file>>, tail' \in {tail, NoObject}
  PROVE  Layout(K, b)'
BY DEF Layout

(* What is stored stays stored. *)
LEMMA KeepAcked ==
  ASSUME NEW K, NEW b, AckedStored(K, b), UNCHANGED acked,
         \A n \in PartNumbers : parts[n] # NoObject => parts'[n] # NoObject
  PROVE  AckedStored(K, b)'
<1>1. PICK k \in 0..K : AllStored(k) /\ acked < b[k] + MinPartSize
  BY DEF AckedStored
<1>2. AllStored(k)'
  BY <1>1 DEF AllStored
<1> QED
  BY <1>1, <1>2 DEF AckedStored

(* A request that fails leaves a layout behind. *)
LEMMA FailBody ==
  ASSUME NEW K, NEW b, Respond(FALSE), Layout(K, b)', AckedStored(K, b)',
         info' # NoObject => LengthOK(info)'
  PROVE  Body(K, b)'
<1>1. pc' = "idle" /\ ~succeeded'
  BY DEF Respond
<1>2. Answered(K, b)'
  BY <1>1 DEF Answered
<1>3. Lengths'
  BY <1>1 DEF Lengths
<1>4. Request(K, b)' /\ Ready(K, b)' /\ Cutting(K, b)' /\ Written(K, b)'
  BY <1>1 DEF Request, Ready, Cutting, Written
<1> QED
  BY <1>2, <1>3, <1>4 DEF Body

(* A new upload has no parts. *)
LEMMA BodyNewUpload ==
  ASSUME SlotInv, Etags, PlainRequests, NewUpload
  PROVE  Body(0, [n \in Nat |-> 0])'
<1> DEFINE b == [n \in Nat |-> 0]
<1>1. PICK deferred \in BOOLEAN, n \in 0..file' :
       /\ upload' = [NoUpload EXCEPT !.size = IF deferred THEN 0 ELSE file', !.deferred = deferred]
       /\ src' = Bytes(0, n)
       /\ completes' \in {FALSE, deferred /\ n = file' /\ MayComplete(n)}
  BY DEF NewUpload
<1>2. /\ file' \in 0..MaxObjectSize /\ pc' = "newInfo" /\ parts' = NoParts /\ tail' = NoObject
      /\ acked' = 0 /\ info' = info /\ info = NoObject
  BY DEF NewUpload
<1>3. /\ upload'.size = (IF deferred THEN 0 ELSE file') /\ upload'.deferred = deferred
      /\ upload'.offset = 0 /\ upload'.parts = <<>> /\ upload'.tailSize = 0 /\ Len(upload'.parts) = 0
  BY <1>1 DEF NoUpload
<1>4. file' \in Nat /\ n \in Nat /\ n <= file' /\ b \in [Nat -> Nat] /\ b[0] = 0 /\ MinPartSize \in Nat \ {0}
  BY <1>2, PartSizeAssumption
<1> HIDE DEF b
<1>5. \A m \in PartNumbers : parts'[m] = NoObject
  BY <1>2 DEF NoParts
<1>6. Layout(0, b)'
  BY <1>2, <1>4, <1>5 DEF Layout
<1>7. AckedStored(0, b)'
  <2>1. AllStored(0)'
    BY DEF AllStored
  <2>2. acked' < b[0] + MinPartSize /\ 0 \in 0..0
    BY <1>2, <1>4
  <2> QED
    BY <2>1, <2>2 DEF AckedStored
<1>8. Answered(0, b)' /\ Cutting(0, b)' /\ Written(0, b)'
  BY <1>2 DEF Answered, Cutting, Written
<1>9. Lengths'
  BY <1>2, <1>3 DEF Lengths, LengthOK
<1>10. Request(0, b)'
  BY <1>3 DEF Request
<1>11. Len(src') = n /\ src' = Bytes(upload'.offset, Len(src'))
  <2>1. Len(Bytes(0, n)) = n
    BY <1>4, BytesFacts
  <2> QED
    BY <1>1, <1>3, <2>1
<1>12. Len(Tail0') = 0 /\ Tail0' = <<>>
  BY <1>2 DEF Tail0
<1>13. completes' => deferred /\ n = file' /\ ~ShortRest(0 + n)
  <2>1. completes' => deferred /\ n = file' /\ MayComplete(n)
    BY <1>1
  <2>2. MayComplete(n) => ~ShortRest(n)
    BY DEF MayComplete, PlainRequests
  <2>3. 0 + n = n
    BY <1>4
  <2> QED
    BY <2>1, <2>2, <2>3
<1>14. ~upload'.deferred => upload'.offset < file' \/ file' = 0
  BY <1>3, <1>4
<1>15. upload'.tailSize = Len(Tail0') /\ upload'.offset = b[0] + Len(Tail0')
  BY <1>3, <1>4, <1>12
<1>16. completes' => /\ upload'.deferred /\ upload'.offset + Len(src') = file'
                     /\ ~ShortRest(upload'.tailSize + Len(src'))
  BY <1>3, <1>4, <1>11, <1>13
<1>17. upload'.offset + Len(src') <= file'
  BY <1>3, <1>4, <1>11
<1>18. Ready(0, b)'
  BY <1>2, <1>11, <1>14, <1>15, <1>16, <1>17 DEF Ready, ShortRest
<1> QED
  BY <1>6, <1>7, <1>8, <1>9, <1>10, <1>18 DEF Body, b

(* writeInfo for the new upload. *)
LEMMA BodyCreateInfo ==
  ASSUME SlotInv, Etags, NEW K, NEW b, Body(K, b), CreateInfo
  PROVE  Body(K, b)'
<1>1. /\ pc = "newInfo" /\ pc' = "write" /\ info' = [size |-> upload.size, deferred |-> upload.deferred]
      /\ UNCHANGED <<parts, tail, file, acked, upload, src, completes, declared>>
  BY DEF CreateInfo, reqVars, chunkVars, histVars
<1>2. info'.size = upload.size /\ info'.deferred = upload.deferred
  BY <1>1
<1>3. Layout(K, b)'
  BY <1>1, KeepLayout DEF Body
<1>4. AckedStored(K, b)'
  BY <1>1, KeepAcked DEF Body
<1>5. Answered(K, b)' /\ Cutting(K, b)' /\ Written(K, b)'
  BY <1>1 DEF Answered, Cutting, Written
<1>6. Lengths'
  BY <1>1, <1>2 DEF Body, Lengths, LengthOK
<1>7. Request(K, b)'
  BY <1>1 DEF Body, Request
<1>8. Ready(K, b)'
  BY <1>1 DEF Body, Ready, Tail0, ShortRest
<1> QED
  BY <1>3, <1>4, <1>5, <1>6, <1>7, <1>8 DEF Body

(* The length that is declared is that of the file: the client declares    *)
(* it, or the offset has reached the end of the file.                      *)
LEMMA BodyDeclareLength ==
  ASSUME SlotInv, Etags, NEW K, NEW b, Body(K, b), DeclareLength
  PROVE  Body(K, b)'
<1>1. /\ pc \in {"declare", "declareLast"} /\ pc' = IF pc = "declare" THEN "write" ELSE "finish"
      /\ info' = [size |-> declared, deferred |-> FALSE]
      /\ upload' = [upload EXCEPT !.size = declared, !.deferred = FALSE]
      /\ UNCHANGED <<parts, tail, file, acked, src, completes, declared, err, taken, bytesUploaded>>
  BY DEF DeclareLength, chunkVars, histVars
<1>2. info'.size = declared /\ info'.deferred = FALSE
  BY <1>1
<1>3. /\ upload'.size = declared /\ upload'.deferred = FALSE /\ upload'.offset = upload.offset
      /\ upload'.parts = upload.parts /\ upload'.tailSize = upload.tailSize
  BY <1>1, Types DEF UploadInfo
<1>4. declared = file
  BY <1>1 DEF Body, Ready, Written
<1>5. Layout(K, b)'
  BY <1>1, KeepLayout DEF Body
<1>6. AckedStored(K, b)'
  BY <1>1, KeepAcked DEF Body
<1>7. Answered(K, b)' /\ Cutting(K, b)'
  BY <1>1 DEF Answered, Cutting
<1>8. Lengths'
  BY <1>1, <1>2, <1>3, <1>4 DEF Lengths, LengthOK
<1>9. Request(K, b)'
  BY <1>1, <1>3 DEF Body, Request
<1>10. Ready(K, b)'
  <2>1. CASE pc = "declare"
    BY <1>1, <1>3, <2>1 DEF Body, Ready, Tail0, ShortRest
  <2>2. CASE pc = "declareLast"
    BY <1>1, <2>2 DEF Ready
  <2> QED
    BY <1>1, <2>1, <2>2
<1>11. Written(K, b)'
  <2>1. CASE pc = "declare"
    BY <1>1, <2>1 DEF Written
  <2>2. CASE pc = "declareLast"
    BY <1>1, <1>3, <2>2 DEF Body, Written, Tail0
  <2> QED
    BY <1>1, <2>1, <2>2
<1> QED
  BY <1>5, <1>6, <1>7, <1>8, <1>9, <1>10, <1>11 DEF Body

(* A failed writeInfo may have had its effect. *)
LEMMA BodyWriteInfoFails ==
  ASSUME SlotInv, Etags, NEW K, NEW b, Body(K, b), WriteInfoFails
  PROVE  Body(K, b)'
<1>1. /\ pc \in {"newInfo", "declare", "declareLast"} /\ Respond(FALSE) /\ UNCHANGED <<parts, tail>>
      /\ info' \in {info, [size     |-> IF pc = "newInfo" THEN upload.size ELSE declared,
                           deferred |-> pc = "newInfo" /\ upload.deferred]}
  BY DEF WriteInfoFails
<1>2. UNCHANGED <<file, acked>>
  BY <1>1, Zenon DEF Respond
<1>3. info' # NoObject => LengthOK(info)'
  <2>1. CASE info' = info
    BY <1>2, <2>1 DEF Body, Lengths, LengthOK
  <2>2. CASE /\ info' # info /\ pc = "newInfo"
    <3>0. info' = [size |-> upload.size, deferred |-> TRUE /\ upload.deferred]
      BY <1>1, <2>2, Zenon
    <3>1. info'.size = upload.size
      BY <3>0
    <3>2. info'.deferred = (TRUE /\ upload.deferred)
      BY <3>0, Zenon
    <3>3. upload.deferred \in BOOLEAN
      BY Types
    <3>4. info'.deferred = upload.deferred
      <4>1. CASE upload.deferred = TRUE
        BY <3>2, <4>1, Zenon
      <4>2. CASE upload.deferred = FALSE
        BY <3>2, <4>2, Zenon
      <4> QED
        BY <3>3, <4>1, <4>2, Zenon
    <3> QED
      BY <1>2, <2>2, <3>1, <3>4 DEF Body, Lengths, LengthOK
  <2>3. CASE info' # info /\ pc # "newInfo"
    <3>0. info' = [size |-> declared, deferred |-> FALSE /\ upload.deferred]
      BY <1>1, <2>3, Zenon
    <3>1. info'.size = declared
      BY <3>0
    <3>3. info'.deferred = (FALSE /\ upload.deferred)
      BY <3>0, Zenon
    <3>4. ~info'.deferred
      BY <3>3, Zenon
    <3>2. declared = file
      BY <1>1, <2>3 DEF Body, Ready, Written
    <3> QED
      BY <1>2, <3>1, <3>2, <3>4 DEF LengthOK
  <2> QED
    BY <2>1, <2>2, <2>3
<1>4. Layout(K, b)'
  BY <1>1, <1>2, KeepLayout DEF Body
<1>5. AckedStored(K, b)'
  BY <1>1, <1>2, KeepAcked DEF Body
<1> QED
  BY <1>1, <1>3, <1>4, <1>5, FailBody

(* A `.part` that cannot be read or deleted: it is only lost with the error. *)
LEMMA BodyWriteChunkFails ==
  ASSUME SlotInv, Etags, NEW K, NEW b, Body(K, b), WriteChunkFails
  PROVE  Body(K, b)'
<1>1. /\ pc = "write" /\ pc' = "finish" /\ err' = "store" /\ tail' \in {tail, NoObject}
      /\ upload.tailSize > 0
      /\ UNCHANGED <<parts, file, acked, upload, completes, info>>
  BY DEF WriteChunkFails, reqVars, histVars
<1>2. Layout(K, b)'
  BY <1>1, KeepLayout DEF Body
<1>3. AckedStored(K, b)'
  BY <1>1, KeepAcked DEF Body
<1>4. Answered(K, b)' /\ Ready(K, b)' /\ Cutting(K, b)'
  BY <1>1 DEF Answered, Ready, Cutting
<1>5. Lengths' /\ Request(K, b)'
  BY <1>1 DEF Body, Lengths, LengthOK, Request
<1>6. ~upload.deferred => upload.offset # file
  <2>1. upload.tailSize = Len(Tail0) /\ upload.offset = b[K] + Len(Tail0)
        /\ (~upload.deferred => upload.offset < file \/ file = 0)
    BY <1>1 DEF Body, Ready
  <2>2. b[K] \in Nat /\ upload.offset \in Nat /\ file \in Nat /\ Len(Tail0) \in Nat
    BY Types, LayoutFacts DEF Body
  <2> QED
    BY <1>1, <2>1, <2>2
<1>7. Written(K, b)'
  BY <1>1, <1>6 DEF Written
<1> QED
  BY <1>2, <1>3, <1>4, <1>5, <1>7 DEF Body

(* Waiting for a slot or for the last part. *)
LEMMA BodyAcquire ==
  ASSUME SlotInv, Etags, NEW K, NEW b, Body(K, b), Acquire \/ ReceiveEnd
  PROVE  Body(K, b)'
<1>1. /\ pc \in {"acquire", "receive"} /\ pc' \in {"receive", "wait"} /\ (pc' = "wait" => src = <<>>)
      /\ UNCHANGED <<parts, tail, info, upload, declared, completes, src, taken, bytesUploaded, inflight,
                     err, file, acked>>
  BY DEF Acquire, ReceiveEnd, bucketVars, reqVars, chunkVars, histVars
<1>2. Layout(K, b)'
  BY <1>1, KeepLayout DEF Body
<1>3. AckedStored(K, b)'
  BY <1>1, KeepAcked DEF Body
<1>4. Answered(K, b)' /\ Ready(K, b)' /\ Written(K, b)'
  BY <1>1 DEF Answered, Ready, Written
<1>5. Lengths' /\ Request(K, b)'
  BY <1>1 DEF Body, Lengths, LengthOK, Request
<1>6. Cutting(K, b)'
  BY <1>1 DEF Body, Cutting, CutIntoParts, CutWithTail, Cut, ShortRest
<1> QED
  BY <1>2, <1>3, <1>4, <1>5, <1>6 DEF Body

(* The rest of the data is dropped, together with the claim that it is the *)
(* rest of the file.                                                       *)
LEMMA BodyProducerStops ==
  ASSUME SlotInv, Etags, NEW K, NEW b, Body(K, b), ProducerStops
  PROVE  Body(K, b)'
<1>1. /\ pc \in {"acquire", "receive"} /\ pc' = pc /\ src # <<>> /\ src' = <<>>
      /\ err' = IF err = "none" THEN "producer" ELSE err
      /\ UNCHANGED <<parts, tail, info, upload, declared, completes, taken, bytesUploaded, inflight,
                     file, acked>>
  BY DEF ProducerStops, bucketVars, reqVars, histVars
<1>2. Layout(K, b)'
  BY <1>1, KeepLayout DEF Body
<1>3. AckedStored(K, b)'
  BY <1>1, KeepAcked DEF Body
<1>4. Answered(K, b)' /\ Ready(K, b)' /\ Written(K, b)'
  BY <1>1 DEF Answered, Ready, Written
<1>5. Lengths' /\ Request(K, b)'
  BY <1>1 DEF Body, Lengths, LengthOK, Request
<1>6. Cutting(K, b)'
  <2>0. Cutting(K, b) /\ Cut \in Int /\ file \in Nat /\ Len(src) \in Nat
    BY Types DEF Body
  <2>1. CutIntoParts(K, b)
    BY <1>1, <2>0 DEF Cutting, CutWithTail
  <2>2. CutIntoParts(K, b)' /\ Cut' = Cut
    BY <1>1, <2>1 DEF CutIntoParts, Cut
  <2>3. Cut \in Nat /\ Cut <= file
    <3>1. b[K] \in Nat /\ b[K] <= file
      BY Types, LayoutFacts DEF Body, Layout
    <3>2. Cut = b[K]
      BY <2>1 DEF CutIntoParts
    <3> QED
      BY <3>1, <3>2
  <2>4. Len(src') = 0 /\ src' = Bytes(Cut', Len(src')) /\ Cut' + Len(src') <= file
    <3>1. Bytes(Cut, 0) = <<>>
      BY <2>3, BytesFacts
    <3>2. Len(<<>>) = 0
      OBVIOUS
    <3> QED
      BY <1>1, <2>0, <2>2, <2>3, <3>1, <3>2
  <2>5. ~ShortRest(Len(src'))
    <3>1. PreferredPartSize \in Nat \ {0} /\ MinPartSize \in Nat
      BY PartSizeAssumption
    <3>2. 0 % PreferredPartSize = 0
      BY <3>1
    <3> QED
      BY <2>4, <3>1, <3>2 DEF ShortRest
  <2> QED
    BY <1>1, <2>0, <2>2, <2>4, <2>5 DEF Cutting, ShortRest
<1> QED
  BY <1>2, <1>3, <1>4, <1>5, <1>6 DEF Body

(* Steps for other uploads. *)
LEMMA BodyFrame ==
  ASSUME NEW K, NEW b, Body(K, b),
         UNCHANGED <<bucketVars, pc, reqVars, chunkVars, histVars>>
  PROVE  Body(K, b)'
<1>1. UNCHANGED <<parts, tail, info, pc, upload, declared, completes, src, taken, bytesUploaded, inflight,
                     err, file, acked, succeeded>>
  BY DEF bucketVars, reqVars, chunkVars, histVars
<1>2. Layout(K, b)'
  BY <1>1, KeepLayout DEF Body
<1>3. AckedStored(K, b)'
  BY <1>1, KeepAcked DEF Body
<1>4. Answered(K, b)' /\ Ready(K, b)' /\ Written(K, b)'
  BY <1>1 DEF Body, Answered, Ready, Written, Tail0, AllStored, ShortRest, Complete
<1>5. Lengths' /\ Request(K, b)'
  BY <1>1 DEF Body, Lengths, LengthOK, Request
<1>6. Cutting(K, b)'
  BY <1>1 DEF Body, Cutting, CutIntoParts, CutWithTail, Cut, ShortRest
<1> QED
  BY <1>2, <1>3, <1>4, <1>5, <1>6 DEF Body

(* The bytes that go to `.part`. *)
Rest(K, b) == Bytes(b[K], Cut - b[K])

(* They are too few for a part. *)
LEMMA RestFacts ==
  ASSUME SlotInv, NEW K, NEW b, Body(K, b), pc \in {"acquire", "receive", "wait"}, CutWithTail(K, b)
  PROVE  /\ Rest(K, b) \in Seq(Nat) /\ Rest(K, b) # NoObject
         /\ Len(Rest(K, b)) = Cut - b[K] /\ Cut - b[K] \in 1..(MinPartSize - 1)
         /\ b[K] + (Cut - b[K]) = Cut /\ Cut <= file /\ b[K] \in Nat
<1>1. b[K] \in Nat /\ Cut \in Int /\ MinPartSize \in Nat /\ Len(src) \in Nat /\ file \in Nat
      /\ NoObject \notin Seq(Nat)
  BY Types, LayoutFacts DEF Body
<1>2. Cut - b[K] \in 1..(MinPartSize - 1)
  BY DEF CutWithTail
<1>3. Cut + Len(src) <= file
  BY DEF Body, Cutting
<1>4. Cut - b[K] \in Nat
  BY <1>1, <1>2
<1>5. Rest(K, b) \in Seq(Nat) /\ Len(Rest(K, b)) = Cut - b[K]
  BY <1>1, <1>4, BytesFacts DEF Rest
<1>6. b[K] + (Cut - b[K]) = Cut
  BY <1>1
<1>7. Cut <= file
  BY <1>1, <1>3
<1> QED
  BY <1>1, <1>2, <1>5, <1>6, <1>7

(* What a set of goroutines does to `.part`. *)
PutTail(P, K, b) ==
  \/ tail' = tail /\ \A p \in P : p.index > 0
  \/ pc \in {"acquire", "receive", "wait"} /\ CutWithTail(K, b) /\ tail' = Rest(K, b)

(* Any of the goroutines may finish, in any order or at the crash of the   *)
(* process: a part is stored in its place, and a part that was stored      *)
(* before is written again with the same bytes.                            *)
LEMMA PutLayout ==
  ASSUME SlotInv, NEW K, NEW b, Body(K, b), NEW P \in SUBSET inflight, Put(P), UNCHANGED file
  PROVE  /\ Layout(K, b)'
         /\ \A n \in PartNumbers : parts[n] # NoObject => parts'[n] = parts[n]
         /\ PutTail(P, K, b)
<1>1. CASE P = {}
  <2>1. parts' = parts /\ tail' = tail
    <3>1. parts' = [n \in PartNumbers |-> parts[n]] /\ tail' = tail
      BY <1>1 DEF Put
    <3> QED
      BY <3>1, Types DEF PartMap
  <2> QED
    BY <1>1, <2>1, KeepLayout DEF Body, PutTail
<1>2. CASE P # {}
  <2>0. pc \in {"acquire", "receive", "wait"}
    BY <1>2, Types DEF InflightOK
  <2>1. /\ K = Len(upload.parts) /\ K \in Nat /\ inflight \subseteq Part
        /\ \A p \in inflight : p.index > 0 => p.bytes = Slice(b, p.index)
        /\ CutIntoParts(K, b) \/ CutWithTail(K, b)
    <3>1. K = Len(upload.parts)
      BY <2>0 DEF Body, Request
    <3> QED
      BY <2>0, <3>1, Types DEF Body, Cutting
  <2>2. \A p \in inflight : p.index \in 0..K /\ (p.index > 0 => p.number = p.index)
    BY <2>1, Types DEF InflightOK
  <2>3. ASSUME NEW n \in PartNumbers
        PROVE  parts'[n] = parts[n] \/ (n <= K /\ parts'[n] = Slice(b, n))
    <3>0. parts'[n] = IF \E p \in P : p.index > 0 /\ p.number = n
                      THEN (CHOOSE p \in P : p.index > 0 /\ p.number = n).bytes ELSE parts[n]
      BY DEF Put
    <3>1. CASE \E p \in P : p.index > 0 /\ p.number = n
      <4> DEFINE q == CHOOSE p \in P : p.index > 0 /\ p.number = n
      <4>1. q \in P /\ q.index > 0 /\ q.number = n
        BY <3>1
      <4>2. parts'[n] = q.bytes
        BY <3>0, <3>1
      <4> HIDE DEF q
      <4>3. q \in inflight /\ q.index = n /\ q.index <= K
        BY <2>1, <2>2, <4>1
      <4> QED
        BY <2>1, <4>1, <4>2, <4>3
    <3> QED
      BY <3>0, <3>1
  <2>4. \A n \in PartNumbers : parts[n] # NoObject => n <= K /\ parts[n] = Slice(b, n)
    BY DEF Body, Layout
  <2>5. \A n \in PartNumbers : parts'[n] # NoObject => n <= K /\ parts'[n] = Slice(b, n)
    BY <2>3, <2>4
  <2>6. PutTail(P, K, b)
    <3>1. CASE \E p \in P : p.index = 0
      <4> DEFINE q == CHOOSE p \in P : p.index = 0
      <4>1. q \in P /\ q.index = 0 /\ tail' = q.bytes
        BY <3>1 DEF Put
      <4> HIDE DEF q
      <4>2. CutWithTail(K, b)
        BY <2>1, <4>1 DEF CutIntoParts
      <4>3. q.bytes = Rest(K, b)
        BY <4>1, <4>2 DEF CutWithTail, Rest
      <4> QED
        BY <2>0, <4>1, <4>2, <4>3 DEF PutTail
    <3>2. CASE ~ \E p \in P : p.index = 0
      <4>1. tail' = tail
        BY <3>2 DEF Put
      <4>2. \A p \in P : p.index > 0
        BY <2>1, <2>2, <3>2
      <4> QED
        BY <4>1, <4>2 DEF PutTail
    <3> QED
      BY <3>1, <3>2
  <2>7. tail' # NoObject => /\ Len(tail') \in 1..(MinPartSize - 1) /\ b[K] + Len(tail') <= file
                            /\ tail' = Bytes(b[K], Len(tail'))
    <3>1. CASE tail' = tail
      BY <3>1 DEF Body, Layout
    <3>2. CASE tail' # tail
      <4>1. CutWithTail(K, b) /\ tail' = Rest(K, b)
        BY <2>6, <3>2 DEF PutTail
      <4>2. /\ Len(tail') = Cut - b[K] /\ Cut - b[K] \in 1..(MinPartSize - 1)
            /\ b[K] + (Cut - b[K]) = Cut /\ Cut <= file
        BY <2>0, <4>1, RestFacts
      <4>3. tail' = Bytes(b[K], Len(tail'))
        BY <4>1, <4>2 DEF Rest
      <4> QED
        BY <4>2, <4>3
    <3> QED
      BY <3>1, <3>2
  <2>8. Layout(K, b)'
    BY <2>5, <2>7 DEF Body, Layout
  <2> QED
    BY <2>3, <2>4, <2>6, <2>8
<1> QED
  BY <1>1, <1>2

(* The others go on. *)
LEMMA CuttingPart ==
  ASSUME SlotInv, NEW K, NEW b, Body(K, b), NEW p \in inflight, pc' = pc,
         inflight' = inflight \ {p}, UNCHANGED <<completes, src, taken, bytesUploaded, file>>,
         upload'.offset = upload.offset, upload'.deferred = upload.deferred,
         err' \in {err, "store"},
         tail' = tail \/ PutTail({p}, K, b),
         err' = "store" \/ PutTail({p}, K, b)
  PROVE  Cutting(K, b)'
<1>0. pc \in {"acquire", "receive", "wait"} /\ err \in {"none", "store", "producer"}
  BY Types, TypeSplit DEF InflightOK, ChunkOK
<1>1. Cut' = Cut
  BY DEF Cut
<1>2. Cutting(K, b)
  BY DEF Body
<1>3. /\ taken' <= upload'.offset
      /\ src' = Bytes(Cut', Len(src')) /\ Cut' + Len(src') <= file'
      /\ ~upload'.deferred => upload'.offset < file' \/ file' = 0
      /\ \A q \in inflight' : q.index > 0 => q.bytes = Slice(b, q.index)
      /\ pc' = "wait" => src' = <<>>
  BY <1>0, <1>1, <1>2 DEF Cutting
<1>4. err' = "none" => err = "none" /\ taken' <= bytesUploaded' + Len(src')
  BY <1>0, <1>2 DEF Cutting
<1>5. completes' => /\ upload'.deferred /\ ~ShortRest(Len(src'))
                    /\ err' = "none" => Cut' + Len(src') = file'
  BY <1>0, <1>1, <1>2, <1>4 DEF Cutting
<1>6. (CutIntoParts(K, b) \/ CutWithTail(K, b))'
  <2>1. CASE CutIntoParts(K, b)
    <3>1. tail' = tail
      <4>1. ~CutWithTail(K, b)
        <5> SUFFICES ASSUME CutWithTail(K, b) PROVE FALSE
          OBVIOUS
        <5>1. Cut - b[K] \in 1..(MinPartSize - 1) /\ Cut = b[K] /\ MinPartSize \in Nat /\ b[K] \in Nat
          BY <1>0, <2>1, Types, RestFacts DEF CutIntoParts
        <5> QED
          BY <5>1
      <4> QED
        BY <4>1 DEF PutTail
    <3> QED
      BY <1>1, <2>1, <3>1 DEF CutIntoParts
  <2>2. CASE CutWithTail(K, b)
    <3>0. Rest(K, b) # NoObject /\ (tail # NoObject => tail = Rest(K, b))
      BY <1>0, <2>2, RestFacts DEF CutWithTail, Rest
    <3>1. tail' \in {tail, Rest(K, b)}
      BY DEF PutTail
    <3>2. tail' = NoObject => err' = "store" \/ \E q \in inflight' : q.index = 0
      <4> SUFFICES ASSUME tail' = NoObject, err' # "store" PROVE \E q \in inflight' : q.index = 0
        OBVIOUS
      <4>1. tail = NoObject /\ err # "store" /\ ~(p.index = 0)
        <5>1. PutTail({p}, K, b)
          OBVIOUS
        <5>2. tail' = tail /\ p.index > 0
          BY <3>0, <5>1 DEF PutTail
        <5>3. err = err'
          OBVIOUS
        <5> QED
          BY <5>2, <5>3, Types DEF Part
      <4>2. \E q \in inflight : q.index = 0
        BY <2>2, <4>1 DEF CutWithTail
      <4> QED
        BY <4>1, <4>2
    <3>3. tail' # NoObject => tail' = Bytes(b[K], Cut' - b[K])
      BY <1>1, <3>0, <3>1 DEF Rest
    <3> QED
      BY <1>1, <2>2, <3>2, <3>3 DEF CutWithTail
  <2> QED
    BY <1>0, <1>2, <2>1, <2>2 DEF Cutting
<1> QED
  BY <1>0, <1>3, <1>4, <1>5, <1>6 DEF Cutting, ShortRest

(* A goroutine succeeds: now the part has the ETag that the list shows. *)
LEMMA BodyPartUploaded ==
  ASSUME SlotInv, Etags, NEW K, NEW b, Body(K, b), NEW p \in inflight, PartUploaded(p)
  PROVE  Body(K, b)'
<1>0. /\ Accepted(p) /\ Put({p}) /\ inflight' = inflight \ {p} /\ pc' = pc
      /\ upload' = IF p.index > 0 THEN [upload EXCEPT !.parts[p.index].etag = p.bytes]
                                  ELSE [upload EXCEPT !.tailSize = Len(p.bytes)]
      /\ UNCHANGED <<info, declared, completes, src, taken, bytesUploaded, err, file, acked>>
  BY DEF PartUploaded, histVars
<1>1. /\ pc \in {"acquire", "receive", "wait"} /\ p.index \in Nat /\ p.bytes \in Seq(Nat)
      /\ p.index \in 0..Len(upload.parts) /\ Len(upload.parts) \in Nat /\ upload \in UploadInfo
      /\ upload.parts \in Seq(Listed) /\ (p.index > 0 => p.number = p.index)
      /\ NoObject \notin Seq(Nat)
  BY Types DEF InflightOK, Part
<1>2. /\ upload'.size = upload.size /\ upload'.deferred = upload.deferred /\ upload'.offset = upload.offset
  BY <1>0, <1>1 DEF UploadInfo
<1>3. /\ Layout(K, b)' /\ PutTail({p}, K, b)
      /\ \A n \in PartNumbers : parts[n] # NoObject => parts'[n] = parts[n]
  BY <1>0, PutLayout
<1>4. AckedStored(K, b)'
  BY <1>0, <1>3, KeepAcked DEF Body
<1>5. Answered(K, b)' /\ Ready(K, b)' /\ Written(K, b)'
  BY <1>0, <1>1 DEF Answered, Ready, Written
<1>6. Lengths'
  BY <1>0, <1>2 DEF Body, Lengths, LengthOK
<1>7. Cutting(K, b)'
  BY <1>0, <1>2, <1>3, CuttingPart
<1>8. Request(K, b)'
  <2>1. /\ K = Len(upload.parts)
        /\ \A i \in 1..K : /\ upload.parts[i].number = i
                           /\ upload.parts[i].etag # NoObject =>
                                i \in PartNumbers /\ parts[i] = upload.parts[i].etag
    BY <1>1 DEF Body, Request
  <2>2. CASE p.index = 0
    <3>1. upload'.parts = upload.parts
      BY <1>0, <1>1, <2>2 DEF UploadInfo
    <3>2. ASSUME NEW i \in 1..K, upload.parts[i].etag # NoObject
          PROVE  i \in PartNumbers /\ parts'[i] = upload.parts[i].etag
      <4>1. i \in PartNumbers /\ parts[i] = upload.parts[i].etag /\ parts[i] # NoObject
        BY <2>1, <3>2
      <4> QED
        BY <1>3, <4>1
    <3> QED
      BY <2>1, <3>1, <3>2 DEF Request
  <2>3. CASE p.index > 0
    <3>0. upload' = [upload EXCEPT !.parts = [upload.parts EXCEPT ![p.index] =
                       [upload.parts[p.index] EXCEPT !.etag = p.bytes]]]
      BY <1>0, <2>3
    <3>1. upload'.parts = [upload.parts EXCEPT ![p.index] = [upload.parts[p.index] EXCEPT !.etag = p.bytes]]
      BY <1>1, <3>0 DEF UploadInfo
    <3>a. p.index \in 1..K /\ p.number = p.index
      BY <1>1, <2>1, <2>3
    <3>2. Len(upload'.parts) = K
      BY <1>1, <2>1, <3>1, <3>a, ExceptSeq
    <3>3. ASSUME NEW i \in 1..K
          PROVE  /\ upload'.parts[i].number = i
                 /\ upload'.parts[i].etag # NoObject =>
                      i \in PartNumbers /\ parts'[i] = upload'.parts[i].etag
      <4>1. upload.parts[i] \in Listed
        BY <1>1, <2>1, ElementOfSeq
      <4>2. CASE i = p.index
        <5>1. upload'.parts[i] = [upload.parts[i] EXCEPT !.etag = p.bytes]
          BY <1>1, <2>1, <3>1, <4>2, ExceptSeq
        <5>2. upload'.parts[i].number = i /\ upload'.parts[i].etag = p.bytes
          BY <2>1, <4>1, <5>1 DEF Listed
        <5>3. i \in PartNumbers
          BY <1>0, <2>3, <3>a, <4>2 DEF Accepted
        <5>4. parts'[i] = p.bytes
          <6>1. \E q \in {p} : q.index > 0 /\ q.number = i
            BY <2>3, <3>a, <4>2
          <6>2. parts'[i] = (CHOOSE q \in {p} : q.index > 0 /\ q.number = i).bytes
            BY <1>0, <5>3, <6>1 DEF Put
          <6>3. (CHOOSE q \in {p} : q.index > 0 /\ q.number = i) = p
            BY <6>1
          <6> QED
            BY <6>2, <6>3
        <5> QED
          BY <5>2, <5>3, <5>4
      <4>3. CASE i # p.index
        <5>1. upload'.parts[i] = upload.parts[i]
          BY <1>1, <2>1, <3>1, <4>3, ExceptSeq
        <5> QED
          BY <1>3, <2>1, <5>1
      <4> QED
        BY <4>2, <4>3
    <3> QED
      BY <3>2, <3>3 DEF Request
  <2> QED
    BY <1>1, <2>2, <2>3
<1> QED
  BY <1>3, <1>4, <1>5, <1>6, <1>7, <1>8 DEF Body

(* A goroutine fails, before or after the part was stored. *)
LEMMA BodyPartFails ==
  ASSUME SlotInv, Etags, NEW K, NEW b, Body(K, b), NEW p \in inflight, PartFails(p)
  PROVE  Body(K, b)'
<1>0. /\ inflight' = inflight \ {p} /\ pc' = pc /\ err' = "store"
      /\ UNCHANGED <<upload, info, declared, completes, src, taken, bytesUploaded, file, acked>>
  BY DEF PartFails, histVars, reqVars
<1>1. pc \in {"acquire", "receive", "wait"}
  BY Types DEF InflightOK
<1>3. /\ Layout(K, b)'
      /\ tail' = tail \/ PutTail({p}, K, b)
      /\ \A n \in PartNumbers : parts[n] # NoObject => parts'[n] = parts[n]
  <2>1. CASE Put({p})
    BY <1>0, <2>1, PutLayout
  <2>2. CASE UNCHANGED <<parts, tail>>
    BY <1>0, <2>2, KeepLayout DEF Body
  <2> QED
    BY <2>1, <2>2 DEF PartFails
<1>4. AckedStored(K, b)'
  BY <1>0, <1>3, KeepAcked DEF Body
<1>5. Answered(K, b)' /\ Ready(K, b)' /\ Written(K, b)'
  BY <1>0, <1>1 DEF Answered, Ready, Written
<1>6. Lengths'
  BY <1>0 DEF Body, Lengths, LengthOK
<1>7. Cutting(K, b)'
  BY <1>0, <1>3, CuttingPart
<1>8. Request(K, b)'
  BY <1>0, <1>1, <1>3 DEF Body, Request
<1> QED
  BY <1>3, <1>4, <1>5, <1>6, <1>7, <1>8 DEF Body

(* A crash: some of the parts under way arrive. *)
LEMMA BodyCrash ==
  ASSUME SlotInv, Etags, NEW K, NEW b, Body(K, b), Crash
  PROVE  Body(K, b)'
<1>0. Respond(FALSE) /\ info' = info
  BY DEF Crash
<1>1. UNCHANGED <<file, acked>>
  BY <1>0, Zenon DEF Respond
<1>2. PICK P \in SUBSET inflight : Put(P)
  BY DEF Crash
<1>3. Layout(K, b)' /\ \A n \in PartNumbers : parts[n] # NoObject => parts'[n] = parts[n]
  BY <1>1, <1>2, PutLayout
<1>4. AckedStored(K, b)'
  BY <1>1, <1>3, KeepAcked DEF Body
<1>5. info' # NoObject => LengthOK(info)'
  BY <1>0, <1>1 DEF Body, Lengths, LengthOK
<1> QED
  BY <1>0, <1>3, <1>4, <1>5, FailBody

(* `.part` in a layout. *)
LEMMA TailFacts ==
  ASSUME SlotInv, NEW K, NEW b, Layout(K, b)
  PROVE  /\ Len(Tail0) \in Nat /\ Len(Tail0) < MinPartSize /\ b[K] + Len(Tail0) <= file
         /\ Tail0 = Bytes(b[K], Len(Tail0)) /\ b[K] \in Nat
<1>1. b[K] \in Nat /\ b[K] <= file /\ Len(Tail0) \in Nat /\ MinPartSize \in Nat \ {0} /\ file \in Nat
  BY Types, LayoutFacts DEF Layout
<1>2. CASE tail = NoObject
  <2>1. Tail0 = <<>> /\ Len(Tail0) = 0
    BY <1>2 DEF Tail0
  <2>2. Bytes(b[K], 0) = <<>>
    BY <1>1, BytesFacts
  <2> QED
    BY <1>1, <2>1, <2>2
<1>3. CASE tail # NoObject
  <2>1. Tail0 = tail
    BY <1>3 DEF Tail0
  <2>2. /\ Len(tail) \in 1..(MinPartSize - 1) /\ b[K] + Len(tail) <= file
        /\ tail = Bytes(b[K], Len(tail))
    BY <1>3 DEF Layout
  <2> QED
    BY <1>1, <2>1, <2>2
<1> QED
  BY <1>2, <1>3

(* WriteChunk puts `.part` in front of the data, and so goes back to the   *)
(* end of the last part: the bytes of `.part` are cut again.               *)
LEMMA BodyWriteChunk ==
  ASSUME SlotInv, Etags, NEW K, NEW b, Body(K, b), WriteChunk
  PROVE  Body(K, b)'
<1>0. /\ pc = "write" /\ src' = Tail0 \o src /\ taken' = upload.tailSize /\ tail' = NoObject
      /\ \/ pc' = "acquire" /\ err' = err
         \/ pc' = "finish" /\ err' = "store"
      /\ UNCHANGED <<parts, info, upload, declared, completes, bytesUploaded, inflight, file, acked>>
  BY DEF WriteChunk, reqVars, histVars
<1>1. /\ inflight = {} /\ taken = 0 /\ bytesUploaded = 0 /\ err = "none" /\ file \in Nat
      /\ upload.offset \in Nat /\ Len(src) \in Nat /\ upload.tailSize \in Nat
  BY <1>0, Types DEF InflightOK, Etags
<1>2. /\ Len(Tail0) \in Nat /\ Tail0 = Bytes(b[K], Len(Tail0)) /\ b[K] \in Nat /\ b[K] <= file
  BY TailFacts DEF Body, Layout
<1>3. /\ upload.tailSize = Len(Tail0) /\ upload.offset = b[K] + Len(Tail0)
      /\ src = Bytes(upload.offset, Len(src)) /\ upload.offset + Len(src) <= file
      /\ ~upload.deferred => upload.offset < file \/ file = 0
      /\ completes => /\ upload.deferred /\ upload.offset + Len(src) = file
                      /\ ~ShortRest(upload.tailSize + Len(src))
  BY <1>0 DEF Body, Ready
<1>4. Layout(K, b)'
  BY <1>0, KeepLayout DEF Body
<1>5. AckedStored(K, b)'
  BY <1>0, KeepAcked DEF Body
<1>6. Answered(K, b)' /\ Ready(K, b)'
  BY <1>0 DEF Answered, Ready
<1>7. Lengths' /\ Request(K, b)'
  BY <1>0 DEF Body, Lengths, LengthOK, Request
<1>8. Written(K, b)'
  <2>1. CASE pc' = "finish"
    <3>1. err' = "store"
      BY <1>0, <2>1
    <3>2. ~upload.deferred /\ upload.offset = file => b[K] = file
      BY <1>1, <1>2, <1>3
    <3> QED
      BY <1>0, <2>1, <3>1, <3>2 DEF Written
  <2>2. CASE pc' = "acquire"
    BY <2>2 DEF Written
  <2> QED
    BY <1>0, <2>1, <2>2
<1>9. Cutting(K, b)'
  <2>1. CASE pc' = "acquire"
    <3> DEFINE t == Len(Tail0)
    <3>1. src' = Bytes(b[K], t + Len(src))
      <4>1. Bytes(b[K], t) \o Bytes(b[K] + t, Len(src)) = Bytes(b[K], t + Len(src))
        BY <1>1, <1>2, BytesConcat
      <4> QED
        BY <1>0, <1>2, <1>3, <4>1
    <3>2. Len(src') = t + Len(src)
      <4>1. t + Len(src) \in Nat
        BY <1>1, <1>2
      <4> QED
        BY <1>2, <3>1, <4>1, BytesFacts
    <3>3. Cut' = b[K]
      <4>1. Cut' = upload.offset - upload.tailSize + 0
        BY <1>0, <1>1 DEF Cut
      <4> QED
        BY <1>1, <1>2, <1>3, <4>1
    <3>4. CutIntoParts(K, b)'
      BY <1>0, <1>1, <3>3 DEF CutIntoParts
    <3> HIDE DEF t
    <3>5. t \in Nat /\ upload.tailSize = t /\ upload.offset = b[K] + t
      BY <1>2, <1>3 DEF t
    <3>6. taken' <= upload'.offset /\ src' = Bytes(Cut', Len(src')) /\ Cut' + Len(src') <= file'
      BY <1>0, <1>1, <1>2, <1>3, <3>1, <3>2, <3>3, <3>5
    <3>7. taken' <= bytesUploaded' + Len(src')
      BY <1>0, <1>1, <3>2, <3>5
    <3>8. completes' => upload'.deferred /\ ~ShortRest(Len(src')) /\ Cut' + Len(src') = file'
      BY <1>0, <1>1, <1>2, <1>3, <3>2, <3>3, <3>5
    <3> QED
      BY <1>0, <1>1, <1>3, <2>1, <3>4, <3>6, <3>7, <3>8 DEF Cutting, ShortRest
  <2>2. CASE pc' = "finish"
    BY <2>2 DEF Cutting
  <2> QED
    BY <1>0, <2>1, <2>2
<1> QED
  BY <1>4, <1>5, <1>6, <1>7, <1>8, <1>9 DEF Body

(* The new offset.  If there was no error, all data was cut, and the       *)
(* offset is where it ends; a chunk that ends the file is a part and not   *)
(* `.part`, however short it is.                                           *)
LEMMA BodyChunkWritten ==
  ASSUME SlotInv, Etags, NEW K, NEW b, Body(K, b), ChunkWritten
  PROVE  Body(K, b)'
<1> DEFINE d == IF err = "store" \/ bytesUploaded < taken THEN 0 ELSE bytesUploaded - taken
<1>0. /\ pc = "wait" /\ inflight = {} /\ pc' = "finish" /\ upload' = [upload EXCEPT !.offset = @ + d]
      /\ UNCHANGED <<parts, tail, info, declared, completes, err, file, acked>>
  BY DEF ChunkWritten, bucketVars, chunkVars, histVars
<1>1. /\ upload'.offset = upload.offset + d /\ upload'.size = upload.size
      /\ upload'.deferred = upload.deferred /\ upload'.parts = upload.parts
  BY <1>0, Types DEF UploadInfo
<1>2. /\ upload.offset \in Nat /\ bytesUploaded \in Nat /\ taken \in Nat /\ file \in Nat
      /\ b[K] \in Nat /\ b[K] <= file
  BY Types, TailFacts DEF Body, Layout
<1>3. /\ src = <<>> /\ Len(src) = 0 /\ Cut + Len(src) <= file
      /\ ~upload.deferred => upload.offset < file \/ file = 0
      /\ err = "none" => taken <= bytesUploaded + Len(src)
      /\ completes /\ err = "none" => Cut + Len(src) = file
      /\ CutIntoParts(K, b) \/ CutWithTail(K, b)
  <2>1. src = <<>>
    BY <1>0 DEF Body, Cutting
  <2>2. Len(src) = 0
    BY <2>1
  <2> QED
    BY <1>0, <2>1, <2>2 DEF Body, Cutting
<1>4. d = 0 \/ (err # "store" /\ upload.offset + d = Cut)
  BY <1>2 DEF Cut
<1>5. err = "none" => upload.offset + d = Cut
  BY <1>2, <1>3 DEF Cut
<1>6. Cut \in Int
  BY <1>2 DEF Cut
<1> HIDE DEF d
<1>7. err = "none" => Cut = b[K] + Len(Tail0)
  <2>1. CASE CutIntoParts(K, b)
    <3>1. Cut = b[K] /\ Tail0 = <<>>
      BY <2>1 DEF CutIntoParts, Tail0
    <3>2. Len(Tail0) = 0
      BY <3>1
    <3> QED
      BY <1>2, <3>1, <3>2
  <2>2. CASE CutWithTail(K, b) /\ err = "none"
    <3>1. tail = Rest(K, b) /\ tail # NoObject
      BY <1>0, <2>2 DEF CutWithTail, Rest
    <3>2. Tail0 = Rest(K, b)
      BY <3>1 DEF Tail0
    <3>3. Len(Rest(K, b)) = Cut - b[K]
      BY <1>0, <2>2, RestFacts
    <3> QED
      BY <1>2, <1>6, <3>2, <3>3
  <2> QED
    BY <1>3, <2>1, <2>2
<1>8. ~upload.deferred /\ upload.offset + d = file => b[K] = file
  <2> SUFFICES ASSUME ~upload.deferred, upload.offset + d = file PROVE b[K] = file
    OBVIOUS
  <2>1. CASE d = 0
    BY <1>2, <1>3, <2>1
  <2>2. CASE d # 0
    <3>1. Cut = file
      BY <1>4, <2>2
    <3>2. CutIntoParts(K, b)
      BY <1>2, <1>3, <3>1 DEF CutWithTail
    <3> QED
      BY <3>1, <3>2 DEF CutIntoParts
  <2> QED
    BY <2>1, <2>2
<1>9. completes /\ err = "none" => upload.offset + d = file /\ b[K] = file
  <2> SUFFICES ASSUME completes, err = "none" PROVE upload.offset + d = file /\ b[K] = file
    OBVIOUS
  <2>1. Cut = file
    BY <1>3, <1>6
  <2>2. CutIntoParts(K, b)
    BY <1>3 DEF CutWithTail
  <2> QED
    BY <1>5, <2>1, <2>2 DEF CutIntoParts
<1>10. Written(K, b)'
  BY <1>0, <1>1, <1>5, <1>7, <1>8, <1>9 DEF Written, Tail0
<1>11. Layout(K, b)'
  BY <1>0, KeepLayout DEF Body
<1>12. AckedStored(K, b)'
  BY <1>0, KeepAcked DEF Body
<1>13. Answered(K, b)' /\ Ready(K, b)' /\ Cutting(K, b)'
  BY <1>0 DEF Answered, Ready, Cutting
<1>14. Lengths' /\ Request(K, b)'
  BY <1>0, <1>1 DEF Body, Lengths, LengthOK, Request
<1> QED
  BY <1>10, <1>11, <1>12, <1>13, <1>14 DEF Body

(* A success is only reported if all part uploads succeeded. *)
LEMMA BodyFinishUploadIfComplete ==
  ASSUME SlotInv, Etags, NEW K, NEW b, Body(K, b), finishUploadIfComplete
  PROVE  Body(K, b)'
<1>0. pc = "finish" /\ UNCHANGED <<parts, tail, info>> /\ inflight = {}
  BY Types DEF finishUploadIfComplete, bucketVars, InflightOK
<1>1. /\ err = "none" => upload.offset = b[K] + Len(Tail0)
      /\ ~upload.deferred /\ upload.offset = file => b[K] = file
      /\ completes /\ err = "none" => upload.offset = file /\ b[K] = file
  BY <1>0 DEF Body, Written
<1>2. CASE /\ Complete(upload)
           /\ pc' = IF upload.parts = <<>> THEN "emptyPart" ELSE "complete"
           /\ UNCHANGED <<reqVars, chunkVars, histVars>>
  <2>0. UNCHANGED <<upload, completes, declared, err, file, acked>>
    BY <1>2 DEF reqVars, chunkVars, histVars
  <2>1. Layout(K, b)'
    BY <1>0, <2>0, KeepLayout DEF Body
  <2>2. AckedStored(K, b)'
    BY <1>0, <2>0, KeepAcked DEF Body
  <2>3. Answered(K, b)' /\ Ready(K, b)' /\ Cutting(K, b)'
    BY <1>2 DEF Answered, Ready, Cutting
  <2>4. Lengths' /\ Request(K, b)'
    BY <1>0, <2>0 DEF Body, Lengths, LengthOK, Request
  <2>5. Written(K, b)'
    BY <1>0, <1>1, <1>2, <2>0 DEF Written, Tail0, Complete
  <2> QED
    BY <2>1, <2>2, <2>3, <2>4, <2>5 DEF Body
<1>3. CASE /\ ~Complete(upload) /\ completes /\ err = "none"
           /\ declared' = upload.offset
           /\ pc' = "declareLast"
           /\ UNCHANGED <<upload, completes, chunkVars, histVars>>
  <2>0. UNCHANGED <<upload, completes, err, file, acked>>
    BY <1>3 DEF chunkVars, histVars
  <2>1. Layout(K, b)'
    BY <1>0, <2>0, KeepLayout DEF Body
  <2>2. AckedStored(K, b)'
    BY <1>0, <2>0, KeepAcked DEF Body
  <2>3. Answered(K, b)' /\ Ready(K, b)' /\ Cutting(K, b)'
    BY <1>3 DEF Answered, Ready, Cutting
  <2>4. Lengths' /\ Request(K, b)'
    BY <1>0, <1>3, <2>0 DEF Body, Lengths, LengthOK, Request
  <2>5. Written(K, b)'
    BY <1>0, <1>1, <1>3, <2>0 DEF Written, Tail0, Complete
  <2> QED
    BY <2>1, <2>2, <2>3, <2>4, <2>5 DEF Body
<1>4. CASE err # "none" /\ Respond(err = "none")
  <2>0. Respond(FALSE)
    <3>1. (err = "none") = FALSE
      BY <1>4
    <3> QED
      BY <1>4, <3>1
  <2>1. UNCHANGED <<file, acked>>
    BY <2>0, Zenon DEF Respond
  <2>2. Layout(K, b)'
    BY <1>0, <2>1, KeepLayout DEF Body
  <2>3. AckedStored(K, b)'
    BY <1>0, <2>1, KeepAcked DEF Body
  <2>4. info' # NoObject => LengthOK(info)'
    BY <1>0, <2>1 DEF Body, Lengths, LengthOK
  <2> QED
    BY <2>0, <2>2, <2>3, <2>4, FailBody
<1>5. CASE err = "none" /\ Respond(err = "none")
  <2>0. Respond(TRUE)
    <3>1. (err = "none") = TRUE
      BY <1>5
    <3> QED
      BY <1>5, <3>1
  <2>1. UNCHANGED file /\ acked' = upload.offset /\ pc' = "idle"
    BY <2>0, Zenon DEF Respond
  <2>2. Layout(K, b)'
    BY <1>0, <2>1, KeepLayout DEF Body
  <2>3. AllStored(K)
    <3>1. /\ K = Len(upload.parts)
          /\ \A i \in 1..K : upload.parts[i].etag # NoObject =>
                                i \in PartNumbers /\ parts[i] = upload.parts[i].etag
      BY <1>0 DEF Body, Request
    <3>2. \A i \in 1..K : upload.parts[i].etag # NoObject
      BY <1>0, <1>5, <3>1 DEF Etags
    <3> QED
      BY <3>1, <3>2 DEF AllStored
  <2>4. AllStored(K)' /\ Tail0' = Tail0
    BY <1>0, <2>3 DEF AllStored, Tail0
  <2>5. acked' = b[K] + Len(Tail0)
    BY <1>1, <1>5, <2>1
  <2>6. AckedStored(K, b)'
    <3>1. /\ Len(Tail0) \in Nat /\ Len(Tail0) < MinPartSize /\ b[K] \in Nat /\ K \in Nat
          /\ MinPartSize \in Nat
      BY Types, TailFacts DEF Body, Layout
    <3>2. acked' < b[K] + MinPartSize /\ K \in 0..K
      BY <2>5, <3>1
    <3> QED
      BY <2>4, <3>2 DEF AckedStored
  <2>7. Answered(K, b)'
    BY <2>4, <2>5 DEF Answered
  <2>8. Lengths'
    BY <1>0, <2>1 DEF Body, Lengths, LengthOK
  <2>9. Request(K, b)' /\ Ready(K, b)' /\ Cutting(K, b)' /\ Written(K, b)'
    BY <2>1 DEF Request, Ready, Cutting, Written
  <2> QED
    BY <2>2, <2>6, <2>7, <2>8, <2>9 DEF Body
<1> QED
  BY <1>2, <1>3, <1>4, <1>5 DEF finishUploadIfComplete

(* A request that does not begin behind a hole takes up the layout at the  *)
(* last part that is stored; the cuts after it are forgotten.              *)
LEMMA BodyPatch ==
  ASSUME SlotInv, Etags, PlainRequests, NEW K, NEW b, Body(K, b), mpu = "open", Patch, IsStart(Stored)
  PROVE  \E k : Body(k, b)'
<1>0. /\ pc = "idle" /\ info # NoObject /\ ~Complete(fetchInfo) /\ upload' = fetchInfo
      /\ pc' = IF declared' = -1 THEN "write" ELSE "declare"
      /\ UNCHANGED <<parts, tail, info, file, acked>>
  BY DEF Patch, bucketVars
<1>1. PICK n \in 0..file :
           /\ n = 0 \/ fetchInfo.offset + n <= file
           /\ src' = Bytes(fetchInfo.offset, n)
           /\ completes' \in {FALSE, fetchInfo.deferred /\ fetchInfo.offset + n = file
                                        /\ MayComplete(fetchInfo.tailSize + n)}
  BY DEF Patch
<1>2. declared' \in {-1} \cup {len \in {file} :
            /\ fetchInfo.deferred /\ fetchInfo.offset <= len /\ ~completes'
            /\ fetchInfo.offset = len => "declareOffset" \in Requests}
  BY DEF Patch
<1>3. PICK k \in 0..K : StoredUpTo(k, K, b)
  BY Types, NoHole DEF Body
<1>4. /\ Len(Stored) = b[k] + Len(Tail0)
      /\ listAllParts = [i \in 1..k |-> [number |-> i, etag |-> parts[i]]]
  BY <1>3, Types, StoredAll DEF Body
<1>5. /\ K \in Nat /\ k \in Nat /\ k <= K /\ b[k] \in Nat /\ b[K] \in Nat /\ b[k] <= b[K] /\ b[k] <= file
      /\ file \in Nat /\ Len(Tail0) \in Nat /\ b[K] + Len(Tail0) <= file
      /\ MinPartSize \in Nat \ {0}
  <2>1. Layout(K, b) /\ TypeOK
    BY Types DEF Body
  <2>2. /\ K \in Nat /\ b[K] \in Nat /\ file \in Nat
        /\ \A i \in 0..K : b[i] \in Nat /\ b[i] <= b[K] /\ b[i] <= file
    BY <2>1, LayoutFacts
  <2>3. Len(Tail0) \in Nat /\ b[K] + Len(Tail0) <= file
    BY <2>1, TailFacts
  <2>4. K \in Nat /\ k \in Nat /\ k <= K /\ b[k] \in Nat /\ b[k] <= b[K] /\ b[k] <= file
    BY <2>2
  <2>5. MinPartSize \in Nat \ {0}
    BY PartSizeAssumption
  <2> QED
    BY <2>2, <2>3, <2>4, <2>5
<1> DEFINE o == b[k] + Len(Tail0)
<1>6. /\ fetchInfo.size = info.size /\ fetchInfo.deferred = info.deferred
      /\ fetchInfo.offset = o /\ fetchInfo.tailSize = Len(Tail0)
      /\ fetchInfo.parts = listAllParts
  BY <1>4 DEF fetchInfo
<1>7. /\ upload'.size = info.size /\ upload'.deferred = info.deferred /\ upload'.offset = o
      /\ upload'.tailSize = Len(Tail0) /\ upload'.parts = listAllParts
  BY <1>0, <1>6
<1>8. Layout(k, b)'
  <2>1. /\ k \in Nat /\ b \in [Nat -> Nat] /\ b[0] = 0 /\ b[k] <= file
    BY <1>5 DEF Body, Layout
  <2>2. \A m \in 1..k : b[m - 1] < b[m] /\ (b[m] - b[m - 1] >= MinPartSize \/ b[m] = file)
    <3>1. 1..k \subseteq 1..K
      BY <1>5
    <3>2. \A m \in 1..K : b[m - 1] < b[m] /\ (b[m] - b[m - 1] >= MinPartSize \/ b[m] = file)
      BY DEF Body, Layout
    <3> QED
      BY <3>1, <3>2
  <2>3. \A m \in PartNumbers : parts[m] # NoObject => m <= k /\ parts[m] = Slice(b, m)
    BY <1>3 DEF StoredUpTo, Body, Layout
  <2>4. tail # NoObject => /\ Len(tail) \in 1..(MinPartSize - 1) /\ b[k] + Len(tail) <= file
                           /\ tail = Bytes(b[k], Len(tail))
    BY <1>3 DEF StoredUpTo, Body, Layout
  <2> QED
    BY <1>0, <2>1, <2>2, <2>3, <2>4 DEF Layout
<1>9. AckedStored(k, b)'
  <2>1. PICK j \in 0..K : AllStored(j) /\ acked < b[j] + MinPartSize
    BY DEF Body, AckedStored
  <2>2. j <= k
    <3> SUFFICES ASSUME ~(j <= k) PROVE FALSE
      OBVIOUS
    <3>1. j \in 1..j /\ j \in Nat
      BY <1>5, <2>1
    <3>2. j \in PartNumbers /\ parts[j] # NoObject
      BY <2>1, <3>1 DEF AllStored
    <3> QED
      BY <1>3, <3>2 DEF StoredUpTo
  <2>3. AllStored(j)' /\ j \in 0..k
    BY <1>0, <1>5, <2>1, <2>2 DEF AllStored
  <2> QED
    BY <1>0, <2>1, <2>3 DEF AckedStored
<1>10. Answered(k, b)' /\ Cutting(k, b)' /\ Written(k, b)'
  BY <1>0 DEF Answered, Cutting, Written
<1>11. Lengths'
  BY <1>0, <1>7 DEF Body, Lengths, LengthOK
<1>12. Request(k, b)'
  <2>1. Len(upload'.parts) = k
    BY <1>4, <1>5, <1>7
  <2>2. ASSUME NEW i \in 1..k
        PROVE  upload'.parts[i].number = i /\ i \in PartNumbers /\ parts'[i] = upload'.parts[i].etag
    <3>1. upload'.parts[i] = [number |-> i, etag |-> parts[i]]
      BY <1>4, <1>7
    <3>2. i \in PartNumbers
      BY <1>3 DEF StoredUpTo, AllStored
    <3> QED
      BY <1>0, <3>1, <3>2
  <2> QED
    BY <2>1, <2>2 DEF Request
<1>13. Tail0' = Tail0
  BY <1>0 DEF Tail0
<1>14. o \in Nat /\ o <= file /\ n \in Nat /\ o = b[k] + Len(Tail0)
  BY <1>5
<1> HIDE DEF o
<1>15. Len(src') = n /\ src' = Bytes(upload'.offset, Len(src'))
  <2>1. Len(Bytes(o, n)) = n
    BY <1>14, BytesFacts
  <2> QED
    BY <1>1, <1>6, <1>7, <2>1
<1>16. upload'.offset + Len(src') <= file'
  <2>1. o + n <= file
    BY <1>1, <1>6, <1>14
  <2> QED
    BY <1>0, <1>7, <1>15, <2>1
<1>17. ~upload'.deferred => upload'.offset < file' \/ file' = 0
  <2>1. ~info.deferred => info.size = file
    BY <1>0 DEF Body, Lengths, LengthOK
  <2>2. ~info.deferred => o # info.size
    BY <1>0, <1>6 DEF Complete
  <2> QED
    BY <1>0, <1>5, <1>7, <1>14, <2>1, <2>2
<1>18. completes' => /\ upload'.deferred /\ upload'.offset + Len(src') = file'
                     /\ ~ShortRest(upload'.tailSize + Len(src'))
  <2> SUFFICES ASSUME completes' PROVE /\ upload'.deferred /\ upload'.offset + Len(src') = file'
                                       /\ ~ShortRest(upload'.tailSize + Len(src'))
    OBVIOUS
  <2>1. info.deferred /\ o + n = file /\ MayComplete(Len(Tail0) + n)
    BY <1>1, <1>6
  <2>2. ~ShortRest(Len(Tail0) + n)
    BY <2>1 DEF MayComplete, PlainRequests
  <2> QED
    BY <1>0, <1>7, <1>15, <2>1, <2>2
<1>19. pc' = "declare" => declared' = file' /\ upload'.offset < file' /\ ~completes'
  <2> SUFFICES ASSUME pc' = "declare" PROVE declared' = file' /\ upload'.offset < file' /\ ~completes'
    OBVIOUS
  <2>1. /\ declared' = file /\ fetchInfo.offset <= file /\ ~completes'
        /\ fetchInfo.offset = file => "declareOffset" \in Requests
    BY <1>0, <1>2
  <2>2. fetchInfo.offset # file
    BY <2>1 DEF PlainRequests
  <2> QED
    BY <1>0, <1>5, <1>6, <1>7, <1>14, <2>1, <2>2
<1>20. Ready(k, b)'
  BY <1>7, <1>13, <1>14, <1>15, <1>16, <1>17, <1>18, <1>19 DEF Ready, ShortRest
<1>21. Body(k, b)'
  BY <1>8, <1>9, <1>10, <1>11, <1>12, <1>20 DEF Body
<1> QED
  BY <1>21

(* The rest that remains when parts are cut off. *)
LEMMA ShortRestFacts ==
  /\ ~ShortRest(0)
  /\ \A n \in 1..(MinPartSize - 1) : ShortRest(n)
  /\ \A n \in Nat : n >= PreferredPartSize => (ShortRest(n - PreferredPartSize) <=> ShortRest(n))
<1> DEFINE P == PreferredPartSize
<1>0. P \in Nat \ {0} /\ MinPartSize \in Nat /\ MinPartSize <= P
  BY PartSizeAssumption
<1> HIDE DEF P
<1>1. 0 % P = 0
  BY <1>0
<1>2. ASSUME NEW n \in 1..(MinPartSize - 1) PROVE n % P = n
  BY <1>0
<1>3. ASSUME NEW n \in Nat, n >= P PROVE (n - P) % P = n % P
  <2> DEFINE q == (n - P) \div P
             p == n \div P
             r == (n - P) % P
             t == n % P
  <2>1. n - P \in Nat
    BY <1>0, <1>3
  <2>2. n - P = P * q + r /\ r \in 0..(P - 1) /\ q \in Nat
    BY <1>0, <2>1, Division
  <2>3. n = P * p + t /\ t \in 0..(P - 1) /\ p \in Nat
    BY <1>0, Division
  <2> HIDE DEF q, p, r, t
  <2>4. P * (q + 1) + r = P * p + t
    BY <1>0, <2>2, <2>3
  <2>5. q + 1 \in Int /\ p \in Int
    BY <2>2, <2>3
  <2>6. r = t
    BY <1>0, <2>2, <2>3, <2>4, <2>5, DivisionUnique
  <2> QED
    BY <2>6 DEF r, t
<1>4. ~ShortRest(0)
  BY <1>0, <1>1 DEF ShortRest, P
<1>5. \A n \in 1..(MinPartSize - 1) : ShortRest(n)
  BY <1>0, <1>2 DEF ShortRest, P
<1>6. \A n \in Nat : n >= P => (ShortRest(n - P) <=> ShortRest(n))
  BY <1>3 DEF ShortRest, P
<1> QED
  BY <1>4, <1>5, <1>6 DEF P

(* nextPart returns the next bytes of the file, and a full part if the     *)
(* length is not known and the data suffices.                              *)
LEMMA CutBytes ==
  ASSUME SlotInv, NEW K, NEW b, Body(K, b), pc = "receive", src # <<>>
  PROVE  /\ CutIntoParts(K, b) /\ Cut = b[K] /\ Cut \in Nat
         /\ Len(nextPart) \in 1..Len(src) /\ Len(src) \in Nat
         /\ nextPart = Bytes(Cut, Len(nextPart))
         /\ SubSeq(src, Len(nextPart) + 1, Len(src)) = Bytes(Cut + Len(nextPart), Len(src) - Len(nextPart))
         /\ Len(nextPart) < Len(src) => Len(nextPart) >= MinPartSize
         /\ upload.deferred => Len(nextPart) = Len(src) \/ Len(nextPart) = PreferredPartSize
<1>1. Cutting(K, b) /\ Layout(K, b) /\ Lengths /\ b[K] \in Nat
  BY Types, LayoutFacts DEF Body
<1>2. CutIntoParts(K, b) /\ Cut = b[K] /\ src = Bytes(Cut, Len(src))
  BY <1>1 DEF Cutting, CutWithTail, CutIntoParts
<1>3. /\ nextPart \in Seq(Nat) /\ Len(nextPart) <= Len(src) /\ Len(nextPart) > 0
      /\ Len(nextPart) < Len(src) => Len(nextPart) >= MinPartSize
      /\ src \in Seq(Nat) /\ Len(src) \in Nat /\ upload.size \in Nat
  BY Types, CutType
<1>4. Len(nextPart) \in Nat /\ Len(nextPart) \in 1..Len(src)
  BY <1>3
<1> DEFINE n == calcOptimalPartSize(upload.size)
<1>5. n \in Nat \ {0} /\ (upload.size = 0 => n = PreferredPartSize)
  BY <1>3, PartSizes
<1>6. \/ nextPart = src
      \/ ~(Len(src) <= n) /\ nextPart = SubSeq(src, 1, n)
  BY DEF nextPart
<1> HIDE DEF n
<1>7. CASE nextPart = src
  <2>1. nextPart = Bytes(Cut, Len(nextPart)) /\ Len(nextPart) = Len(src)
    BY <1>2, <1>7
  <2>2. SubSeq(src, Len(src) + 1, Len(src)) = <<>>
    BY <1>3
  <2>3. Bytes(Cut + Len(src), 0) = <<>>
    <3>1. Cut + Len(src) \in Nat
      BY <1>1, <1>2, <1>3
    <3> QED
      BY <3>1, BytesFacts
  <2>4. Len(src) - Len(src) = 0
    BY <1>3
  <2>5. SubSeq(src, Len(nextPart) + 1, Len(src)) = Bytes(Cut + Len(nextPart), Len(src) - Len(nextPart))
    BY <1>7, <2>2, <2>3, <2>4
  <2> QED
    BY <1>1, <1>2, <1>3, <1>4, <2>1, <2>5
<1>8. CASE ~(Len(src) <= n) /\ nextPart = SubSeq(src, 1, n)
  <2>1. n \in 0..Len(src)
    BY <1>3, <1>5, <1>8
  <2>2. /\ SubSeq(Bytes(Cut, Len(src)), 1, n) = Bytes(Cut, n)
        /\ SubSeq(Bytes(Cut, Len(src)), n + 1, Len(src)) = Bytes(Cut + n, Len(src) - n)
    BY <1>1, <1>2, <1>3, <2>1, BytesSplit
  <2>3. nextPart = Bytes(Cut, n)
    BY <1>2, <1>8, <2>2
  <2>4. Len(nextPart) = n
    BY <1>1, <1>2, <1>5, <2>3, BytesFacts
  <2>5. SubSeq(src, n + 1, Len(src)) = Bytes(Cut + n, Len(src) - n)
    BY <1>2, <2>2
  <2>6. upload.deferred => upload.size = 0
    BY <1>1 DEF Lengths, LengthOK
  <2> QED
    BY <1>1, <1>2, <1>3, <1>4, <1>5, <2>3, <2>4, <2>5, <2>6
<1> QED
  BY <1>6, <1>7, <1>8

(* The next cut: a new slice of the layout, or the bytes for `.part`. *)
LEMMA BodyReceivePart ==
  ASSUME SlotInv, Etags, NEW K, NEW b, Body(K, b), ReceivePart
  PROVE  \E k, c : Body(k, c)'
<1> DEFINE part == [index  |-> IF PartWorthy THEN Len(upload.parts) + 1 ELSE 0,
                    number |-> Len(upload.parts) + 1, bytes |-> nextPart]
           entry == [number |-> Len(upload.parts) + 1, etag |-> NoObject]
           L == Len(nextPart)
<1>0. /\ pc = "receive" /\ src # <<>> /\ pc' = "acquire" /\ inflight' = inflight \cup {part}
      /\ upload' = IF PartWorthy THEN [upload EXCEPT !.parts = Append(@, entry)] ELSE upload
      /\ bytesUploaded' = bytesUploaded + L /\ src' = SubSeq(src, L + 1, Len(src))
      /\ UNCHANGED <<parts, tail, info, declared, completes, taken, err, file, acked>>
  BY DEF ReceivePart, bucketVars, histVars
<1>1. /\ CutIntoParts(K, b) /\ Cut = b[K] /\ Cut \in Nat /\ L \in 1..Len(src) /\ Len(src) \in Nat
      /\ nextPart = Bytes(Cut, L) /\ src' = Bytes(Cut + L, Len(src) - L)
      /\ L < Len(src) => L >= MinPartSize
      /\ upload.deferred => L = Len(src) \/ L = PreferredPartSize
  BY <1>0, CutBytes
<1>2. /\ part.bytes = nextPart /\ part.index = IF PartWorthy THEN Len(upload.parts) + 1 ELSE 0
  OBVIOUS
<1> HIDE DEF part, L
<1>3. /\ upload \in UploadInfo /\ upload.offset \in Nat /\ taken \in Nat /\ bytesUploaded \in Nat
      /\ file \in Nat /\ MinPartSize \in Nat \ {0} /\ upload.parts \in Seq(Listed)
      /\ PreferredPartSize \in Nat /\ InflightOK /\ upload.deferred \in BOOLEAN /\ TypeOK
      /\ inflight \subseteq Part
  BY Types
<1>4. /\ upload'.size = upload.size /\ upload'.deferred = upload.deferred /\ upload'.offset = upload.offset
  BY <1>0, <1>3 DEF UploadInfo
<1>5. Cut' = Cut + L
  BY <1>0, <1>1, <1>3, <1>4 DEF Cut
<1>6. L \in Nat /\ Len(src) - L \in Nat /\ Len(src') = Len(src) - L
  <2>1. L \in Nat /\ Len(src) - L \in Nat /\ Cut + L \in Nat
    BY <1>1
  <2> QED
    BY <1>1, <2>1, BytesFacts
<1>a. Cut \in Nat /\ Len(src) \in Nat
  BY <1>1
<1>b. Cut' + Len(src') = Cut + Len(src)
  BY <1>a, <1>5, <1>6
<1>c. src' = Bytes(Cut', Len(src'))
  BY <1>1, <1>5, <1>6
<1>7. /\ taken <= upload.offset /\ Cut + Len(src) <= file
      /\ ~upload.deferred => upload.offset < file \/ file = 0
      /\ err = "none" => taken <= bytesUploaded + Len(src)
      /\ completes => /\ upload.deferred /\ ~ShortRest(Len(src))
                      /\ err = "none" => Cut + Len(src) = file
      /\ \A p \in inflight : p.index > 0 => p.bytes = Slice(b, p.index)
      /\ tail = NoObject /\ \A p \in inflight : p.index > 0
  BY <1>0, <1>1 DEF Body, Cutting, CutIntoParts
<1>8. /\ K = Len(upload.parts) /\ K \in Nat
      /\ \A i \in 1..K : /\ upload.parts[i].number = i
                         /\ upload.parts[i].etag # NoObject =>
                              i \in PartNumbers /\ parts[i] = upload.parts[i].etag
  BY <1>0 DEF Body, Request, Layout
<1>9. upload.deferred \/ upload.size = file
  BY <1>0 DEF Body, Lengths, LengthOK
<1>10. Lengths'
  BY <1>0, <1>4 DEF Body, Lengths, LengthOK
<1>11. /\ taken' <= upload'.offset /\ src' = Bytes(Cut', Len(src')) /\ Cut' + Len(src') <= file'
       /\ ~upload'.deferred => upload'.offset < file' \/ file' = 0
       /\ err' = "none" => taken' <= bytesUploaded' + Len(src')
  <2>1. bytesUploaded' + Len(src') = bytesUploaded + Len(src)
    BY <1>0, <1>3, <1>6, <1>a
  <2> QED
    BY <1>0, <1>4, <1>7, <1>b, <1>c, <2>1
<1>12. completes' => /\ upload'.deferred /\ ~ShortRest(Len(src'))
                     /\ err' = "none" => Cut' + Len(src') = file'
  <2> SUFFICES ASSUME completes
               PROVE  /\ upload.deferred /\ ~ShortRest(Len(src'))
                      /\ err = "none" => Cut' + Len(src') = file
    BY <1>0, <1>4
  <2>1. CASE L = Len(src)
    <3>1. Len(src') = 0
      BY <1>6, <2>1
    <3> QED
      BY <1>7, <1>b, <3>1, ShortRestFacts
  <2>2. CASE L # Len(src)
    <3>1. L = PreferredPartSize /\ Len(src) >= PreferredPartSize
      BY <1>1, <1>7, <2>2
    <3>2. ~ShortRest(Len(src) - PreferredPartSize)
      BY <1>1, <1>7, <3>1, ShortRestFacts
    <3>3. ~ShortRest(Len(src'))
      BY <1>6, <3>1, <3>2
    <3> QED
      BY <1>7, <1>b, <3>3
  <2> QED
    BY <2>1, <2>2
<1>13. CASE PartWorthy
  <2> DEFINE k == K + 1
  <2>0. b \in [Nat -> Nat] /\ b[0] = 0
    BY DEF Body, Layout
  <2>1. k \in Nat /\ Cut + L \in Nat /\ K # k /\ k - 1 = K
    BY <1>a, <1>6, <1>8
  <2> HIDE DEF k
  <2>p. PICK c : c = [b EXCEPT ![k] = Cut + L]
    OBVIOUS
  <2>2. /\ c \in [Nat -> Nat] /\ c[k] = Cut + L /\ \A n \in 0..K : c[n] = b[n]
    <3>1. c \in [Nat -> Nat] /\ \A n \in Nat : c[n] = IF n = k THEN Cut + L ELSE b[n]
      BY <2>0, <2>1, <2>p
    <3>2. \A n \in 0..K : n \in Nat /\ n # k
      BY <1>8 DEF k
    <3> QED
      BY <2>1, <3>1, <3>2
  <2>3. \A n \in 1..K : Slice(c, n) = Slice(b, n) /\ c[n - 1] = b[n - 1] /\ c[n] = b[n]
    <3>1. \A n \in 1..K : n \in 0..K /\ n - 1 \in 0..K
      BY <1>8
    <3> QED
      BY <2>2, <3>1 DEF Slice
  <2>4. c[K] = Cut /\ c[0] = 0 /\ K \in 0..K /\ 0 \in 0..K
    <3>1. K \in 0..K /\ 0 \in 0..K /\ b[K] = Cut
      BY <1>1, <1>8
    <3> QED
      BY <2>0, <2>2, <3>1
  <2>5. Slice(c, k) = nextPart
    <3>1. c[k - 1] = Cut /\ c[k] - c[k - 1] = L
      BY <1>a, <1>6, <2>1, <2>2, <2>4
    <3> QED
      BY <1>1, <3>1 DEF Slice
  <2>6. c[k - 1] < c[k] /\ c[k] <= file /\ (c[k] - c[k - 1] >= MinPartSize \/ c[k] = file)
    <3>1. c[k - 1] = Cut /\ c[k] = Cut + L
      BY <2>1, <2>2, <2>4
    <3>2. L >= MinPartSize \/ Cut + L = file
      <4>1. CASE isFinalChunk
        <5>1. ~upload.deferred /\ upload.size = upload.offset - taken + bytesUploaded + L
          BY <4>1 DEF isFinalChunk, L
        <5> QED
          BY <1>3, <1>6, <1>9, <5>1 DEF Cut
      <4> QED
        BY <1>13, <4>1 DEF PartWorthy, L
    <3> QED
      <4>1. L >= 1 /\ L <= Len(src)
        BY <1>1
      <4> QED
        BY <1>a, <1>3, <1>6, <1>7, <3>1, <3>2, <4>1
  <2>7. \A n \in 1..k : n \in 1..K \/ n = k
    BY <1>8 DEF k
  <2>8. Layout(k, c)'
    <3>1. \A n \in 1..k : c[n - 1] < c[n] /\ (c[n] - c[n - 1] >= MinPartSize \/ c[n] = file)
      <4>1. \A n \in 1..K : b[n - 1] < b[n] /\ (b[n] - b[n - 1] >= MinPartSize \/ b[n] = file)
        BY DEF Body, Layout
      <4> QED
        BY <2>3, <2>6, <2>7, <4>1
    <3>2. \A n \in PartNumbers : parts[n] # NoObject => n <= k /\ parts[n] = Slice(c, n)
      <4> SUFFICES ASSUME NEW n \in PartNumbers, parts[n] # NoObject
                   PROVE  n <= k /\ parts[n] = Slice(c, n)
        OBVIOUS
      <4>1. n <= K /\ parts[n] = Slice(b, n)
        BY DEF Body, Layout
      <4>2. n \in 1..K /\ n <= k
        BY <1>8, <4>1 DEF PartNumbers, k
      <4> QED
        BY <2>3, <4>1, <4>2
    <3> QED
      BY <1>0, <1>7, <2>1, <2>2, <2>4, <2>6, <3>1, <3>2 DEF Layout
  <2>9. AckedStored(k, c)'
    <3>1. PICK j \in 0..K : AllStored(j) /\ acked < b[j] + MinPartSize
      BY DEF Body, AckedStored
    <3>2. j \in 0..k /\ c[j] = b[j]
      BY <1>8, <2>2, <3>1 DEF k
    <3>3. AllStored(j)'
      BY <1>0, <3>1 DEF AllStored
    <3> QED
      BY <1>0, <3>1, <3>2, <3>3 DEF AckedStored
  <2>10. Answered(k, c)' /\ Ready(k, c)' /\ Written(k, c)'
    BY <1>0 DEF Answered, Ready, Written
  <2>11. Request(k, c)'
    <3>1. upload'.parts = Append(upload.parts, entry)
      BY <1>0, <1>3, <1>13 DEF UploadInfo
    <3>2. /\ Len(upload'.parts) = k /\ upload'.parts[k] = entry
          /\ \A i \in 1..K : upload'.parts[i] = upload.parts[i]
      BY <1>3, <1>8, <3>1, AppendProperties DEF k
    <3>3. entry.number = k /\ entry.etag = NoObject
      BY <1>8 DEF k
    <3> HIDE DEF entry
    <3>4. ASSUME NEW i \in 1..k
          PROVE  /\ upload'.parts[i].number = i
                 /\ upload'.parts[i].etag # NoObject =>
                      i \in PartNumbers /\ parts'[i] = upload'.parts[i].etag
      BY <1>0, <1>8, <2>7, <3>2, <3>3
    <3> QED
      BY <3>2, <3>4 DEF Request
  <2>12. Cutting(k, c)'
    <3>1. part.index = k
      BY <1>2, <1>8, <1>13 DEF k
    <3>2. \A p \in inflight : p.index \in 1..K
      BY <1>3, <1>7, <1>8 DEF InflightOK
    <3>3. \A p \in inflight' : p.index > 0 /\ p.bytes = Slice(c, p.index)
      <4>1. k > 0
        BY <1>8 DEF k
      <4> QED
        BY <1>0, <1>2, <1>7, <2>3, <2>5, <3>1, <3>2, <4>1
    <3>4. CutIntoParts(k, c)'
      BY <1>0, <1>5, <1>7, <2>2, <3>3 DEF CutIntoParts
    <3> QED
      BY <1>0, <1>11, <1>12, <3>3, <3>4 DEF Cutting, ShortRest
  <2>13. Body(k, c)'
    BY <1>10, <2>8, <2>9, <2>10, <2>11, <2>12 DEF Body
  <2> QED
    BY <2>13
<1>14. CASE ~PartWorthy
  <2>0. upload' = upload
    BY <1>0, <1>14
  <2>1. Layout(K, b)'
    BY <1>0, KeepLayout DEF Body
  <2>2. AckedStored(K, b)'
    BY <1>0, KeepAcked DEF Body
  <2>3. Answered(K, b)' /\ Ready(K, b)' /\ Written(K, b)'
    BY <1>0 DEF Answered, Ready, Written
  <2>4. Request(K, b)'
    BY <1>0, <2>0 DEF Body, Request
  <2>5. ~(L >= MinPartSize) /\ ~isFinalChunk
    BY <1>14 DEF PartWorthy, L
  <2>6. L = Len(src) /\ L \in 1..(MinPartSize - 1)
    BY <1>1, <1>3, <1>6, <2>5
  <2>7. src' = <<>>
    <3>1. Cut + L \in Nat /\ Len(src) - L = 0
      BY <1>1, <1>6, <2>6
    <3>2. Bytes(Cut + L, 0) = <<>>
      BY <3>1, BytesFacts
    <3> QED
      BY <1>1, <3>1, <3>2
  <2>8. ~completes
    BY <1>7, <2>6, ShortRestFacts
  <2>9. Cut' - b[K] = L
    BY <1>1, <1>5, <1>6
  <2>10. upload.deferred \/ Cut' < file
    <3>1. upload.deferred \/ upload.size # upload.offset - taken + bytesUploaded + L
      BY <2>5 DEF isFinalChunk, L
    <3>2. upload.deferred \/ file # Cut + L
      BY <1>9, <3>1 DEF Cut
    <3> QED
      BY <1>1, <1>3, <1>5, <1>6, <1>7, <2>6, <3>2
  <2>11. part.index = 0 /\ part.bytes = Bytes(b[K], Cut' - b[K])
    BY <1>1, <1>2, <1>14, <2>9
  <2>12. CutWithTail(K, b)'
    <3>1. \A p \in inflight' : p.index = 0 => p.bytes = Bytes(b[K], Cut' - b[K])
      <4>1. \A p \in inflight : p.index # 0
        BY <1>3, <1>7 DEF Part
      <4> QED
        BY <1>0, <2>11, <4>1
    <3>2. \E p \in inflight' : p.index = 0
      BY <1>0, <2>11
    <3> QED
      BY <1>0, <1>7, <2>0, <2>6, <2>7, <2>8, <2>9, <2>10, <3>1, <3>2 DEF CutWithTail
  <2>13. \A p \in inflight' : p.index > 0 => p.bytes = Slice(b, p.index)
    BY <1>0, <1>7, <2>11
  <2>14. Cutting(K, b)'
    BY <1>0, <1>11, <1>12, <2>12, <2>13 DEF Cutting, ShortRest
  <2>15. Body(K, b)'
    BY <1>10, <2>1, <2>2, <2>3, <2>4, <2>14 DEF Body
  <2> QED
    BY <2>15
<1> QED
  BY <1>13, <1>14

(* A termination whose AbortMultipartUpload failed leaves the layout. *)
LEMMA BodyTerminate ==
  ASSUME SlotInv, NEW K, NEW b, Body(K, b), mpu = "open", Terminate, mpu' = "open"
  PROVE  Body(K, b)'
<1>1. PICK failed \in SUBSET {"abort", "object", "part", "info"} :
        /\ mpu' = IF mpu = "open" /\ "abort" \notin failed THEN "aborted" ELSE mpu
        /\ parts' = IF "abort" \in failed THEN parts ELSE NoParts
        /\ tail' = IF "part" \in failed THEN tail ELSE NoObject
        /\ info' = IF "info" \in failed THEN info ELSE NoObject
  BY DEF Terminate
<1>2. /\ parts' = parts /\ tail' \in {tail, NoObject} /\ info' \in {info, NoObject}
      /\ pc' = pc /\ pc = "idle" /\ file' = file /\ acked' = 0 /\ succeeded' = FALSE
  <2>1. "abort" \in failed
    BY <1>1
  <2> QED
    BY <1>1, <2>1 DEF Terminate
<1>3. Layout(K, b)'
  BY <1>2, KeepLayout DEF Body
<1>4. AckedStored(K, b)'
  <2>1. AllStored(0)'
    BY DEF AllStored
  <2>2. b[0] = 0 /\ 0 \in 0..K /\ MinPartSize \in Nat \ {0}
    BY Types DEF Body, Layout
  <2>3. acked' < b[0] + MinPartSize
    BY <1>2, <2>2
  <2> QED
    BY <2>1, <2>2, <2>3 DEF AckedStored
<1>5. Answered(K, b)'
  BY <1>2 DEF Answered
<1>6. Lengths'
  BY <1>2 DEF Body, Lengths, LengthOK
<1>7. Request(K, b)' /\ Ready(K, b)' /\ Cutting(K, b)' /\ Written(K, b)'
  BY <1>2 DEF Request, Ready, Cutting, Written
<1> QED
  BY <1>3, <1>4, <1>5, <1>6, <1>7 DEF Body

(* An empty part is only needed for an empty file. *)
LEMMA BodyEmpty ==
  ASSUME SlotInv, NEW K, NEW b, Body(K, b), pc = "emptyPart"
  PROVE  /\ file = 0 /\ acked < MinPartSize /\ tail = NoObject /\ upload.offset = 0
         /\ \A n \in PartNumbers : parts[n] = NoObject
         /\ info # NoObject => ~info.deferred /\ info.size = 0
         /\ 1 \in PartNumbers /\ parts \in PartMap
<1>1. ~upload.deferred /\ upload.offset = upload.size /\ upload.parts = <<>>
  BY DEF Body, Written, Complete
<1>2. upload.size = file /\ upload.offset = file
  BY <1>1 DEF Body, Lengths, LengthOK
<1>3. b[K] = file /\ K = 0
  <2>1. K = Len(upload.parts) /\ Len(<<>>) = 0
    BY DEF Body, Request
  <2> QED
    BY <1>1, <1>2, <2>1 DEF Body, Written
<1>4. file = 0
  BY <1>3 DEF Body, Layout
<1>5. acked < MinPartSize
  <2>1. PICK k \in 0..K : acked < b[k] + MinPartSize
    BY DEF Body, AckedStored
  <2>2. k = 0 /\ b[0] = 0 /\ MinPartSize \in Nat
    BY <1>3, <2>1, Types DEF Body, Layout
  <2> QED
    BY <2>1, <2>2
<1>6. tail = NoObject
  <2> SUFFICES ASSUME tail # NoObject PROVE FALSE
    OBVIOUS
  <2>1. Len(tail) \in 1..(MinPartSize - 1) /\ b[K] + Len(tail) <= file
    BY DEF Body, Layout
  <2> QED
    BY <1>3, <1>4, <2>1, Types
<1>7. \A n \in PartNumbers : parts[n] = NoObject
  BY <1>3 DEF Body, Layout, PartNumbers
<1>8. info # NoObject => ~info.deferred /\ info.size = 0
  BY <1>1, <1>2, <1>4 DEF Body, Lengths
<1>9. 1 \in PartNumbers
  BY PartSizeAssumption DEF PartNumbers
<1> QED
  BY <1>2, <1>4, <1>5, <1>6, <1>7, <1>8, <1>9, Types

(* With the empty part the upload is sealed. *)
LEMMA BodyUploadEmptyPart ==
  ASSUME SlotInv, NEW K, NEW b, Body(K, b), UploadEmptyPart
  PROVE  Sealed'
<1>0. /\ pc = "emptyPart" /\ parts' = [parts EXCEPT ![1] = <<>>] /\ pc' = "complete"
      /\ upload' = [upload EXCEPT !.parts = <<[number |-> 1, etag |-> <<>>]>>]
      /\ UNCHANGED <<tail, info, file, acked>>
  BY DEF UploadEmptyPart, histVars
<1>1. /\ file = 0 /\ acked < MinPartSize /\ tail = NoObject /\ upload.offset = 0
      /\ \A n \in PartNumbers : parts[n] = NoObject
      /\ info # NoObject => ~info.deferred /\ info.size = 0
      /\ 1 \in PartNumbers /\ parts \in PartMap
  BY <1>0, BodyEmpty
<1>2. parts'[1] = <<>> /\ \A n \in PartNumbers : n # 1 => parts'[n] = NoObject
  BY <1>0, <1>1 DEF PartMap
<1>3. upload'.parts = <<[number |-> 1, etag |-> <<>>]>> /\ upload'.offset = upload.offset
  BY <1>0, Types DEF UploadInfo
<1> QED
  BY <1>0, <1>1, <1>2, <1>3 DEF Sealed

(* At CompleteMultipartUpload the layout ends with the file; if S3 accepts *)
(* the list, its ETags are the slices of the layout.                       *)
LEMMA BodyComplete ==
  ASSUME SlotInv, NEW K, NEW b, Body(K, b), pc = "complete"
  PROVE  /\ b[K] = file /\ (info # NoObject => ~info.deferred /\ info.size = file)
         /\ Valid(upload.parts) => Content(upload.parts) = Bytes(0, file)
<1>1. ~upload.deferred /\ upload.offset = upload.size
  BY DEF Body, Written, Complete
<1>2. upload.size = file /\ upload.offset = file
  BY <1>1 DEF Body, Lengths, LengthOK
<1>3. b[K] = file
  BY <1>1, <1>2 DEF Body, Written
<1>4. info # NoObject => ~info.deferred /\ info.size = file
  BY <1>1, <1>2 DEF Body, Lengths
<1>5. ASSUME Valid(upload.parts) PROVE Content(upload.parts) = Bytes(0, file)
  <2>1. /\ K = Len(upload.parts) /\ K \in Nat /\ upload.parts \in Seq(Listed)
        /\ \A i \in 1..K : upload.parts[i].number = i
    BY Types DEF Body, Request, Layout
  <2>2. \A i \in 1..K : /\ i \in PartNumbers /\ upload.parts[i].etag # NoObject
                        /\ parts[i] = upload.parts[i].etag
    BY <1>5, <2>1 DEF Valid
  <2>3. \A i \in 1..K : upload.parts[i].etag = Slice(b, i)
    BY <2>2 DEF Body, Layout
  <2>4. \A i \in 1..K : upload.parts[i] \in Listed
    BY <2>1, ElementOfSeq
  <2>5. \A i \in 1..K : upload.parts[i] \in [number: Nat, etag: Seq(Nat)]
    BY <2>2, <2>4 DEF Listed
  <2>6. upload.parts \in Seq([number: Nat, etag: Seq(Nat)])
    <3> DEFINE S == [number: Nat, etag: Seq(Nat)]
               l == upload.parts
    <3>1. l \in [1..K -> Listed]
      BY <2>1, LenProperties
    <3> HIDE DEF l, S
    <3>2. \A i \in 1..K : l[i] \in S
      BY <2>5 DEF l, S
    <3>3. l \in [1..K -> S]
      BY <3>1, <3>2
    <3>4. l \in Seq(S)
      BY <2>1, <3>3
    <3> QED
      BY <3>4 DEF l, S
  <2>7. TypeOK /\ Layout(K, b)
    BY Types DEF Body
  <2>8. Content(upload.parts) = Bytes(0, b[K])
    BY <2>1, <2>3, <2>6, <2>7, ContentOfSlices
  <2> QED
    BY <1>3, <2>8
<1> QED
  BY <1>3, <1>4, <1>5

(* What is true after a step of an open multipart upload. *)
AfterOpen == /\ mpu' = "open" => OpenInv'
             /\ mpu' = "completed" => Finished'

(* To show it, a layout is enough, ... *)
LEMMA OpenBody ==
  ASSUME NEW K, NEW b, Body(K, b)', mpu' = "open"
  PROVE  AfterOpen
BY DEF AfterOpen, OpenInv

(* ... or a sealed upload. *)
LEMMA OpenSealed ==
  ASSUME Sealed', mpu' = "open"
  PROVE  AfterOpen
BY DEF AfterOpen, OpenInv

(* A request that fails without any change to the bucket. *)
LEMMA FailKeepsBody ==
  ASSUME SlotInv, NEW K, NEW b, Body(K, b), Respond(FALSE), UNCHANGED <<parts, tail, info>>
  PROVE  Body(K, b)'
<1>1. UNCHANGED <<file, acked>>
  BY Zenon DEF Respond
<1>2. Layout(K, b)'
  BY <1>1, KeepLayout DEF Body
<1>3. AckedStored(K, b)'
  BY <1>1, KeepAcked DEF Body
<1>4. info' # NoObject => LengthOK(info)'
  BY <1>1 DEF Body, Lengths, LengthOK
<1> QED
  BY <1>2, <1>3, <1>4, FailBody

(* CompleteMultipartUpload makes the object from the file. *)
LEMMA BodyCompleted ==
  ASSUME SlotInv, NEW K, NEW b, Body(K, b), pc = "complete", CompleteUpload,
         pc' = "idle", UNCHANGED <<info, file>>
  PROVE  AfterOpen
<1>1. Valid(upload.parts) /\ object' = Content(upload.parts) /\ mpu' = "completed"
  BY DEF CompleteUpload
<1>2. object' = Bytes(0, file) /\ (info # NoObject => ~info.deferred /\ info.size = file)
  BY <1>1, BodyComplete
<1>3. Finished'
  BY <1>2 DEF Finished
<1> QED
  BY <1>1, <1>3 DEF AfterOpen

(* FinishUpload, ... *)
LEMMA BodyFinishUpload ==
  ASSUME SlotInv, Etags, NEW K, NEW b, Body(K, b), mpu = "open", FinishUpload
  PROVE  AfterOpen
<1>0. pc = "complete" /\ UNCHANGED <<tail, info>>
  BY DEF FinishUpload
<1>1. CASE CompleteUpload /\ Respond(err = "none")
  <2>1. pc' = "idle" /\ UNCHANGED file
    BY <1>1, Zenon DEF Respond
  <2> QED
    BY <1>0, <1>1, <2>1, BodyCompleted
<1>2. CASE Respond(FALSE) /\ UNCHANGED <<mpu, parts, object>>
  <2>1. Body(K, b)' /\ mpu' = "open"
    BY <1>0, <1>2, FailKeepsBody
  <2> QED
    BY <2>1, OpenBody
<1> QED
  BY <1>1, <1>2 DEF FinishUpload

(* ... and with a call that fails before or after it had its effect. *)
LEMMA BodyFinishUploadFails ==
  ASSUME SlotInv, Etags, NEW K, NEW b, Body(K, b), mpu = "open", FinishUploadFails
  PROVE  AfterOpen
<1>0. Respond(FALSE) /\ UNCHANGED <<tail, info>>
  BY DEF FinishUploadFails
<1>1. pc' = "idle" /\ UNCHANGED <<file, acked>> /\ succeeded' = FALSE
  BY <1>0, Zenon DEF Respond
<1>2. CASE UNCHANGED <<mpu, parts, object>>
  <2>1. Body(K, b)' /\ mpu' = "open"
    BY <1>0, <1>2, FailKeepsBody
  <2> QED
    BY <2>1, OpenBody
<1>3. CASE pc = "emptyPart" /\ parts' = [parts EXCEPT ![1] = <<>>] /\ UNCHANGED <<mpu, object>>
  <2>1. /\ file = 0 /\ acked < MinPartSize /\ tail = NoObject
        /\ \A n \in PartNumbers : parts[n] = NoObject
        /\ info # NoObject => ~info.deferred /\ info.size = 0
        /\ 1 \in PartNumbers /\ parts \in PartMap
    BY <1>3, BodyEmpty
  <2>2. parts'[1] = <<>> /\ \A n \in PartNumbers : n # 1 => parts'[n] = NoObject
    BY <1>3, <2>1 DEF PartMap
  <2>3. Sealed'
    BY <1>0, <1>1, <2>1, <2>2 DEF Sealed
  <2> QED
    BY <1>3, <2>3, OpenSealed
<1>4. CASE pc = "complete" /\ CompleteUpload
  BY <1>0, <1>1, <1>4, BodyCompleted
<1> QED
  BY <1>2, <1>3, <1>4 DEF FinishUploadFails

(* Every step of an upload with a layout. *)
LEMMA BodyStep ==
  ASSUME SlotInv, Etags, PlainRequests, mpu = "open", NEW K, NEW b, Body(K, b),
         [Next]_vars, ~NewUpload, ~behindHole'
  PROVE  AfterOpen
<1>1. CASE Patch
  <2>1. IsStart(Stored) /\ mpu' = mpu
    BY <1>1 DEF Patch, bucketVars
  <2> QED
    BY <1>1, <2>1, BodyPatch, OpenBody
<1>2. CASE Terminate
  <2>1. mpu' # "completed"
    BY <1>2 DEF Terminate
  <2>2. CASE mpu' = "open"
    BY <1>2, <2>2, BodyTerminate, OpenBody
  <2>3. CASE mpu' # "open"
    BY <2>1, <2>3 DEF AfterOpen
  <2> QED
    BY <2>2, <2>3
<1>3. CASE CreateInfo
  <2>1. mpu' = mpu
    BY <1>3 DEF CreateInfo
  <2> QED
    BY <1>3, <2>1, BodyCreateInfo, OpenBody
<1>4. CASE DeclareLength
  <2>1. mpu' = mpu
    BY <1>4 DEF DeclareLength
  <2> QED
    BY <1>4, <2>1, BodyDeclareLength, OpenBody
<1>5. CASE WriteChunk
  <2>1. mpu' = mpu
    BY <1>5 DEF WriteChunk
  <2> QED
    BY <1>5, <2>1, BodyWriteChunk, OpenBody
<1>6. CASE ReceivePart
  <2>1. mpu' = mpu
    BY <1>6 DEF ReceivePart, bucketVars
  <2> QED
    BY <1>6, <2>1, BodyReceivePart, OpenBody
<1>7. CASE Acquire \/ ReceiveEnd
  <2>1. mpu' = mpu
    BY <1>7 DEF Acquire, ReceiveEnd, bucketVars
  <2> QED
    BY <1>7, <2>1, BodyAcquire, OpenBody
<1>8. CASE ChunkWritten
  <2>1. mpu' = mpu
    BY <1>8 DEF ChunkWritten, bucketVars
  <2> QED
    BY <1>8, <2>1, BodyChunkWritten, OpenBody
<1>9. CASE finishUploadIfComplete
  <2>1. mpu' = mpu
    BY <1>9 DEF finishUploadIfComplete, bucketVars
  <2> QED
    BY <1>9, <2>1, BodyFinishUploadIfComplete, OpenBody
<1>10. CASE UploadEmptyPart
  <2>1. mpu' = mpu
    BY <1>10 DEF UploadEmptyPart
  <2> QED
    BY <1>10, <2>1, BodyUploadEmptyPart, OpenSealed
<1>11. CASE FinishUpload
  BY <1>11, BodyFinishUpload
<1>12. CASE FinishUploadFails
  BY <1>12, BodyFinishUploadFails
<1>13. CASE WriteInfoFails
  <2>1. mpu' = mpu
    BY <1>13 DEF WriteInfoFails
  <2> QED
    BY <1>13, <2>1, BodyWriteInfoFails, OpenBody
<1>14. CASE WriteChunkFails
  <2>1. mpu' = mpu
    BY <1>14 DEF WriteChunkFails
  <2> QED
    BY <1>14, <2>1, BodyWriteChunkFails, OpenBody
<1>15. CASE ProducerStops
  <2>1. mpu' = mpu
    BY <1>15 DEF ProducerStops, bucketVars
  <2> QED
    BY <1>15, <2>1, BodyProducerStops, OpenBody
<1>16. ASSUME NEW p \in inflight, PartUploaded(p) PROVE AfterOpen
  <2>1. mpu' = mpu
    BY <1>16 DEF PartUploaded
  <2> QED
    BY <1>16, <2>1, BodyPartUploaded, OpenBody
<1>17. ASSUME NEW p \in inflight, PartFails(p) PROVE AfterOpen
  <2>1. mpu' = mpu
    BY <1>17 DEF PartFails
  <2> QED
    BY <1>17, <2>1, BodyPartFails, OpenBody
<1>18. CASE OthersAcquire \/ OthersRelease \/ UNCHANGED vars
  <2>1. UNCHANGED <<bucketVars, pc, reqVars, chunkVars, histVars>>
    BY <1>18 DEF OthersAcquire, OthersRelease, vars
  <2>2. mpu' = mpu
    BY <2>1 DEF bucketVars
  <2> QED
    BY <2>1, <2>2, BodyFrame, OpenBody
<1>19. CASE Crash
  <2>1. mpu' = mpu
    BY <1>19 DEF Crash
  <2> QED
    BY <1>19, <2>1, BodyCrash, OpenBody
<1> QED
  BY <1>1, <1>2, <1>3, <1>4, <1>5, <1>6, <1>7, <1>8, <1>9, <1>10, <1>11, <1>12, <1>13, <1>14, <1>15,
     <1>16, <1>17, <1>18, <1>19 DEF Next, RequestStep

(* Nothing is stored for an empty file. *)
LEMMA SealedStored ==
  ASSUME SlotInv, Sealed
  PROVE  Len(Stored) = 0
<1> DEFINE V == {n \in Nat : n <= MaxMultipartParts => Run(n) = <<>>}
<1>0. TypeOK /\ MaxMultipartParts \in Nat
  BY Types
<1>1. 0 \in V
  BY <1>0, Runs
<1>2. ASSUME NEW n \in Nat, n \in V PROVE n + 1 \in V
  <2> SUFFICES ASSUME n + 1 <= MaxMultipartParts PROVE Run(n + 1) = <<>>
    OBVIOUS
  <2>1. n + 1 \in PartNumbers /\ (n + 1) - 1 = n /\ n <= MaxMultipartParts
    BY <1>0 DEF PartNumbers
  <2>2. Run(n) = <<>>
    BY <1>2, <2>1
  <2>3. Run(n + 1) = IF parts[n + 1] = NoObject THEN Run(n) ELSE Run(n) \o parts[n + 1]
    BY <1>0, <2>1, Runs
  <2>4. parts[n + 1] = NoObject \/ parts[n + 1] = <<>>
    BY <2>1 DEF Sealed
  <2>5. <<>> \o <<>> = <<>>
    OBVIOUS
  <2> QED
    BY <2>2, <2>3, <2>4, <2>5
<1>3. \A n \in Nat : n \in V
  <2> HIDE DEF V
  <2> QED
    BY <1>1, <1>2, SetInduction
<1>4. Run(MaxMultipartParts) = <<>>
  BY <1>0, <1>3
<1>5. Stored = <<>> \o Tail0 /\ Tail0 = <<>>
  BY <1>0, <1>4, Runs DEF Sealed, Tail0
<1> QED
  BY <1>5

(* A request for a sealed upload ends. *)
LEMMA SealedFrame ==
  ASSUME Sealed, UNCHANGED <<parts, file, acked>>, tail' = NoObject, info' \in {info, NoObject},
         pc' = "idle", succeeded' = FALSE
  PROVE  Sealed'
BY DEF Sealed

(* The object is empty. *)
LEMMA SealedCompleted ==
  ASSUME SlotInv, Sealed, pc = "complete", CompleteUpload, pc' = "idle", UNCHANGED <<info, file>>
  PROVE  AfterOpen
<1>1. object' = Content(upload.parts) /\ mpu' = "completed"
  BY DEF CompleteUpload
<1>2. upload.parts = <<[number |-> 1, etag |-> <<>>]>> /\ file = 0
  BY DEF Sealed
<1>3. Content(<<[number |-> 1, etag |-> <<>>]>>) = <<>>
  <2> DEFINE e == [number |-> 1, etag |-> <<>>]
  <2>1. e \in [number: Nat, etag: Seq(Nat)] /\ <<>> \in Seq([number: Nat, etag: Seq(Nat)])
    OBVIOUS
  <2>2. Append(<<>>, e) = <<e>> /\ e.etag = <<>>
    OBVIOUS
  <2> HIDE DEF e
  <2>3. Content(Append(<<>>, e)) = Content(<<>>) \o e.etag /\ Content(<<>>) = <<>>
    BY <2>1, ContentAppend
  <2>4. <<>> \o <<>> = <<>>
    OBVIOUS
  <2>5. Content(<<e>>) = <<>>
    BY <2>2, <2>3, <2>4
  <2> QED
    BY <2>5 DEF e
<1>4. Bytes(0, 0) = <<>>
  BY BytesFacts
<1>5. Finished'
  BY <1>1, <1>2, <1>3, <1>4 DEF Finished, Sealed
<1> QED
  BY <1>1, <1>5 DEF AfterOpen

(* Every step of a sealed upload: it is complete, so it is not written to. *)
LEMMA SealedStep ==
  ASSUME SlotInv, Etags, mpu = "open", Sealed, [Next]_vars, ~NewUpload
  PROVE  AfterOpen
<1>0. pc \in {"idle", "complete"} /\ inflight = {} /\ tail = NoObject /\ file = 0
  BY Types DEF Sealed, InflightOK
<1>1. ~Patch
  <2> SUFFICES ASSUME Patch PROVE FALSE
    OBVIOUS
  <2>1. info # NoObject /\ ~Complete(fetchInfo)
    BY DEF Patch
  <2>2. ~info.deferred /\ info.size = 0
    BY <2>1 DEF Sealed
  <2>3. fetchInfo.offset = 0 /\ fetchInfo.size = 0 /\ fetchInfo.deferred = info.deferred
    BY <2>2, SealedStored DEF fetchInfo
  <2> QED
    BY <2>1, <2>2, <2>3 DEF Complete
<1>2. CASE Terminate
  <2>1. PICK failed \in SUBSET {"abort", "object", "part", "info"} :
        /\ mpu' = IF mpu = "open" /\ "abort" \notin failed THEN "aborted" ELSE mpu
        /\ parts' = IF "abort" \in failed THEN parts ELSE NoParts
        /\ tail' = IF "part" \in failed THEN tail ELSE NoObject
        /\ info' = IF "info" \in failed THEN info ELSE NoObject
    BY <1>2 DEF Terminate
  <2>2. /\ tail' = NoObject /\ info' \in {info, NoObject} /\ pc' = "idle" /\ UNCHANGED file
        /\ acked' = 0 /\ succeeded' = FALSE
    BY <1>0, <1>2, <2>1 DEF Terminate
  <2>3. CASE "abort" \in failed
    <3>1. Sealed'
      <4>1. MinPartSize \in Nat \ {0} /\ 0 < MinPartSize
        BY PartSizeAssumption
      <4> QED
        BY <2>1, <2>2, <2>3, <4>1 DEF Sealed
    <3> QED
      BY <2>1, <2>3, <3>1, OpenSealed
  <2>4. CASE "abort" \notin failed
    BY <2>1, <2>4 DEF AfterOpen
  <2> QED
    BY <2>3, <2>4
<1>3. CASE FinishUpload \/ FinishUploadFails
  <2>1. pc = "complete" /\ pc' = "idle" /\ UNCHANGED <<info, file, tail>>
    BY <1>0, <1>3 DEF FinishUpload, FinishUploadFails, Respond
  <2>2. CASE CompleteUpload
    BY <2>1, <2>2, SealedCompleted
  <2>3. CASE Respond(FALSE) /\ UNCHANGED <<mpu, parts, object>>
    <3>1. UNCHANGED acked /\ succeeded' = FALSE
      BY <2>3, Zenon DEF Respond
    <3>2. Sealed'
      BY <1>0, <2>1, <2>3, <3>1, SealedFrame
    <3> QED
      BY <2>3, <3>2, OpenSealed
  <2> QED
    BY <1>3, <2>1, <2>2, <2>3 DEF FinishUpload, FinishUploadFails
<1>4. CASE Crash
  <2>1. Respond(FALSE) /\ UNCHANGED <<mpu, info>> /\ \E P \in SUBSET {p \in inflight : Accepted(p)} : Put(P)
    BY <1>4 DEF Crash
  <2>2. Put({})
    BY <1>0, <2>1
  <2>3. UNCHANGED <<parts, tail>>
    <3>1. parts' = [n \in PartNumbers |-> parts[n]] /\ tail' = tail
      BY <2>2 DEF Put
    <3> QED
      BY <3>1, Types DEF PartMap
  <2>4. UNCHANGED <<file, acked>> /\ succeeded' = FALSE /\ pc' = "idle"
    BY <2>1, Zenon DEF Respond
  <2>5. Sealed'
    BY <1>0, <2>1, <2>3, <2>4, SealedFrame
  <2> QED
    BY <2>1, <2>5, OpenSealed
<1>5. CASE OthersAcquire \/ OthersRelease \/ UNCHANGED vars
  <2>1. UNCHANGED <<mpu, parts, tail, info, pc, upload, file, acked, succeeded>>
    BY <1>5 DEF OthersAcquire, OthersRelease, vars, bucketVars, reqVars, histVars
  <2>2. Sealed'
    BY <2>1 DEF Sealed
  <2> QED
    BY <2>1, <2>2, OpenSealed
<1>6. ~(CreateInfo \/ DeclareLength \/ WriteChunk \/ ReceivePart \/ ReceiveEnd \/ ChunkWritten
        \/ finishUploadIfComplete \/ UploadEmptyPart \/ Acquire \/ WriteInfoFails \/ WriteChunkFails
        \/ ProducerStops)
  BY <1>0 DEF CreateInfo, DeclareLength, WriteChunk, ReceivePart, ReceiveEnd, ChunkWritten,
     finishUploadIfComplete, UploadEmptyPart, Acquire, WriteInfoFails, WriteChunkFails, ProducerStops
<1> QED
  BY <1>0, <1>1, <1>2, <1>3, <1>4, <1>5, <1>6 DEF Next, RequestStep

(* A finished upload is not written to, as fetchInfo takes its length for  *)
(* the offset.                                                             *)
LEMMA FinishedStep ==
  ASSUME SlotInv, mpu = "completed", Finished, [Next]_vars, ~NewUpload
  PROVE  mpu' = "completed" /\ Finished'
<1>0. pc = "idle" /\ inflight = {}
  BY Types DEF Finished, InflightOK
<1>1. ~Patch
  <2> SUFFICES ASSUME Patch PROVE FALSE
    OBVIOUS
  <2>1. info # NoObject /\ ~Complete(fetchInfo)
    BY DEF Patch
  <2>2. ~info.deferred
    BY <2>1 DEF Finished
  <2>3. fetchInfo.offset = info.size /\ fetchInfo.size = info.size /\ fetchInfo.deferred = info.deferred
    BY DEF fetchInfo
  <2> QED
    BY <2>1, <2>2, <2>3 DEF Complete
<1>2. CASE Terminate
  <2>1. /\ mpu' = mpu /\ info' \in {info, NoObject} /\ object' \in {object, NoObject}
        /\ UNCHANGED <<pc, file>>
    BY <1>2 DEF Terminate
  <2> QED
    BY <2>1 DEF Finished
<1>3. CASE OthersAcquire \/ OthersRelease \/ UNCHANGED vars
  <2>1. UNCHANGED <<mpu, object, info, pc, file>>
    BY <1>3 DEF OthersAcquire, OthersRelease, vars, bucketVars, histVars
  <2> QED
    BY <2>1 DEF Finished
<1>4. ~(CreateInfo \/ DeclareLength \/ WriteChunk \/ ReceivePart \/ ReceiveEnd \/ ChunkWritten
        \/ finishUploadIfComplete \/ UploadEmptyPart \/ FinishUpload \/ FinishUploadFails \/ Crash
        \/ Acquire \/ WriteInfoFails \/ WriteChunkFails \/ ProducerStops)
  BY <1>0 DEF CreateInfo, DeclareLength, WriteChunk, ReceivePart, ReceiveEnd, ChunkWritten,
     finishUploadIfComplete, UploadEmptyPart, Acquire, WriteInfoFails, WriteChunkFails, ProducerStops,
     FinishUpload, FinishUploadFails, Crash
<1> QED
  BY <1>0, <1>1, <1>2, <1>3, <1>4 DEF Next, RequestStep

(* A multipart upload that is gone does not come back. *)
LEMMA GoneStep ==
  ASSUME mpu \notin {"open", "completed"}, [Next]_vars, ~NewUpload
  PROVE  mpu' \notin {"open", "completed"}
BY DEF Next, RequestStep, Patch, Terminate, CreateInfo, DeclareLength, WriteChunk, ReceivePart, ReceiveEnd,
   ChunkWritten, finishUploadIfComplete, UploadEmptyPart, FinishUpload, FinishUploadFails, CompleteUpload,
   Valid, Acquire, WriteInfoFails, WriteChunkFails, ProducerStops, PartUploaded, PartFails, OthersAcquire,
   OthersRelease, Crash, vars, bucketVars

(* Only a new upload forgets the hole. *)
LEMMA HoleStays ==
  ASSUME [Next]_vars, ~NewUpload, ~behindHole', behindHole \in BOOLEAN
  PROVE  ~behindHole
BY Zenon DEF Next, RequestStep, Patch, Terminate, CreateInfo, DeclareLength, WriteChunk, ReceivePart, ReceiveEnd,
   ChunkWritten, finishUploadIfComplete, UploadEmptyPart, FinishUpload, FinishUploadFails,
   Acquire, WriteInfoFails, WriteChunkFails, ProducerStops, PartUploaded, PartFails, OthersAcquire,
   OthersRelease, Crash, Respond, vars, histVars

(* Every step preserves the invariant of the data. *)
LEMMA DataStep ==
  SlotInv /\ Etags /\ DataInv /\ PlainRequests /\ [Next]_vars => DataInv'
<1> SUFFICES ASSUME SlotInv, Etags, DataInv, PlainRequests, [Next]_vars, ~behindHole'
             PROVE  AfterOpen
  BY DEF DataInv, AfterOpen
<1>1. CASE NewUpload
  <2>1. mpu' = "open"
    BY <1>1 DEF NewUpload
  <2> QED
    BY <1>1, <2>1, BodyNewUpload, OpenBody
<1>2. CASE ~NewUpload
  <2>1. ~behindHole
    BY <1>2, Types, TypeSplit, HoleStays DEF HistOK
  <2>2. CASE mpu = "open"
    <3>1. OpenInv
      BY <2>1, <2>2 DEF DataInv
    <3>2. CASE Sealed
      BY <1>2, <2>2, <3>2, SealedStep
    <3>3. ASSUME NEW K, NEW b, Body(K, b) PROVE AfterOpen
      BY <1>2, <2>2, <3>3, BodyStep
    <3> QED
      BY <3>1, <3>2, <3>3 DEF OpenInv
  <2>3. CASE mpu = "completed"
    <3>1. mpu' = "completed" /\ Finished'
      BY <1>2, <2>1, <2>3, FinishedStep DEF DataInv
    <3> QED
      BY <3>1 DEF AfterOpen
  <2>4. CASE mpu \notin {"open", "completed"}
    BY <1>2, <2>4, GoneStep DEF AfterOpen
  <2> QED
    BY <2>2, <2>3, <2>4
<1> QED
  BY <1>1, <1>2

(* All the invariants together. *)
LEMMA DataInvariance ==
  PlainRequests => (Spec => [](SlotInv /\ Etags /\ DataInv))
<1> SUFFICES ASSUME PlainRequests PROVE Spec => [](SlotInv /\ Etags /\ DataInv)
  OBVIOUS
<1>1. Init => Etags /\ DataInv
  <2> SUFFICES ASSUME Init PROVE Etags /\ DataInv
    OBVIOUS
  <2>1. /\ mpu = "none" /\ object = NoObject /\ upload = NoUpload /\ pc = "idle" /\ taken = 0
        /\ bytesUploaded = 0 /\ err = "none"
    BY DEF Init
  <2>2. upload.parts = <<>> /\ Len(upload.parts) = 0
    BY <2>1 DEF NoUpload
  <2> QED
    BY <2>1, <2>2 DEF Etags, DataInv
<1>2. SlotInv /\ Etags /\ DataInv /\ [Next]_vars => Etags' /\ DataInv'
  BY EtagsStep, DataStep
<1> QED
  BY <1>1, <1>2, SlotInvariance, PTL DEF Spec

(* ObjectIsFileUnlessHole: the object that FinishUpload makes is the       *)
(* client's file, every byte once and in order, for every size of parts    *)
(* and whatever part uploads, calls and processes fail - unless a request  *)
(* was begun while bytes before the offset were missing.                   *)
THEOREM ObjectIsFileCorrect ==
  PlainRequests => (Spec => []ObjectIsFileUnlessHole)
<1>1. SlotInv /\ Etags /\ DataInv => ObjectIsFileUnlessHole
  BY DEF Etags, DataInv, Finished, ObjectIsFileUnlessHole, ObjectIsFile
<1> QED
  BY <1>1, DataInvariance, PTL

(* TruthfulOffset: after a successful response the bucket holds exactly    *)
(* the bytes that its Upload-Offset counts, in whatever order the          *)
(* concurrent part uploads ended.                                          *)
THEOREM TruthfulOffsetCorrect ==
  PlainRequests => (Spec => []TruthfulOffset)
<1>1. SlotInv /\ Etags /\ DataInv => TruthfulOffset
  <2> SUFFICES ASSUME SlotInv, DataInv, Open, succeeded, ~behindHole
               PROVE  IsStart(Stored) /\ acked = Len(Stored)
    BY DEF TruthfulOffset
  <2>1. PICK K, b : Body(K, b)
    BY DEF DataInv, OpenInv, Sealed, Open
  <2>2. AllStored(K) /\ acked = b[K] + Len(Tail0) /\ Layout(K, b) /\ TypeOK
    BY <2>1, Types DEF Body, Answered, Open
  <2>3. StoredUpTo(K, K, b) /\ K \in 0..K
    <3>1. \A n \in PartNumbers : parts[n] # NoObject => n <= K
      BY <2>2 DEF Layout
    <3>2. K \in Nat
      BY <2>2 DEF Layout
    <3>3. K \in 0..K
      BY <3>2
    <3>4. StoredUpTo(K, K, b)
      BY <2>2, <3>1 DEF StoredUpTo
    <3> QED
      BY <3>3, <3>4
  <2>4. Stored = Bytes(0, b[K] + Len(Tail0)) /\ Len(Stored) = b[K] + Len(Tail0)
    BY <2>2, <2>3, StoredAll
  <2> QED
    BY <2>2, <2>4 DEF IsStart
<1> QED
  BY <1>1, DataInvariance, PTL

(* AckedBytesStay: acknowledged bytes stay in the bucket, but for less     *)
(* than MinPartSize bytes that WriteChunk takes from `.part` and a later   *)
(* failure loses.                                                          *)
THEOREM AckedBytesStayCorrect ==
  PlainRequests => (Spec => []AckedBytesStay)
<1>1. SlotInv /\ Etags /\ DataInv => AckedBytesStay
  <2> SUFFICES ASSUME SlotInv, DataInv, Open, ~behindHole
               PROVE  \E n \in 0..Len(Stored) : IsStart(SubSeq(Stored, 1, n)) /\ acked < n + MinPartSize
    BY DEF AckedBytesStay
  <2>0. Stored \in Seq(Nat) /\ Len(Stored) \in Nat /\ MinPartSize \in Nat
    <3>1. Stored \in Seq(Nat)
      BY Types, StoredType
    <3> QED
      BY <3>1, Types
  <2>1. CASE Sealed
    <3>1. SubSeq(Stored, 1, 0) = <<>> /\ Len(<<>>) = 0
      BY <2>0
    <3>2. Bytes(0, 0) = <<>>
      BY BytesFacts
    <3>3. IsStart(SubSeq(Stored, 1, 0))
      BY <3>1, <3>2 DEF IsStart
    <3>4. 0 \in 0..Len(Stored) /\ acked < 0 + MinPartSize
      BY <2>0, <2>1 DEF Sealed
    <3> QED
      BY <3>3, <3>4
  <2>2. ASSUME NEW K, NEW b, Body(K, b)
        PROVE  \E n \in 0..Len(Stored) : IsStart(SubSeq(Stored, 1, n)) /\ acked < n + MinPartSize
    <3>1. PICK k \in 0..K : AllStored(k) /\ acked < b[k] + MinPartSize
      BY <2>2 DEF Body, AckedStored
    <3>2. Layout(K, b) /\ TypeOK
      BY <2>2, Types DEF Body
    <3>3. b[k] \in 0..Len(Stored) /\ SubSeq(Stored, 1, b[k]) = Bytes(0, b[k])
      BY <3>1, <3>2, StoredStart
    <3>4. b[k] \in Nat
      BY <2>0, <3>3
    <3>5. Len(Bytes(0, b[k])) = b[k]
      BY <3>4, BytesFacts
    <3>6. IsStart(SubSeq(Stored, 1, b[k]))
      BY <3>3, <3>5 DEF IsStart
    <3> QED
      BY <3>1, <3>3, <3>6
  <2> QED
    BY <2>1, <2>2 DEF DataInv, OpenInv, Open
<1> QED
  BY <1>1, DataInvariance, PTL

(* FinishAccepted: S3 accepts the list of parts whenever no part upload of *)
(* the request has failed: the numbers ascend, the parts exist with these  *)
(* ETags, and none but the last is too small.                              *)
THEOREM FinishAcceptedCorrect ==
  PlainRequests => (Spec => []FinishAccepted)
<1>1. SlotInv /\ Etags /\ DataInv => FinishAccepted
  <2> SUFFICES ASSUME SlotInv, Etags, DataInv, pc = "complete", err # "store", ~behindHole
               PROVE  Valid(upload.parts)
    BY DEF FinishAccepted
  <2>1. /\ inflight = {} /\ upload.parts # <<>> /\ upload.parts \in Seq(Listed)
        /\ Len(upload.parts) \in Nat
    BY Types DEF InflightOK, Etags
  <2>2. \A i \in 1..Len(upload.parts) : upload.parts[i].etag # NoObject
    BY <2>1 DEF Etags
  <2>3. mpu = "open"
    <3>1. 1 \in 1..Len(upload.parts)
      BY <2>1
    <3> QED
      BY <2>2, <3>1 DEF Etags
  <2>4. CASE Sealed
    <3>1. upload.parts = <<[number |-> 1, etag |-> <<>>]>> /\ parts[1] = <<>>
      BY <2>4 DEF Sealed
    <3>2. Len(upload.parts) = 1 /\ upload.parts[1].number = 1 /\ upload.parts[1].etag = <<>>
      BY <3>1
    <3>3. 1 \in PartNumbers
      BY PartSizeAssumption DEF PartNumbers
    <3>4. ASSUME NEW i \in 1..Len(upload.parts) PROVE i = 1 /\ ~(i < Len(upload.parts))
      BY <3>2
    <3> QED
      BY <2>2, <2>3, <3>1, <3>2, <3>3, <3>4 DEF Valid
  <2>5. ASSUME NEW K, NEW b, Body(K, b) PROVE Valid(upload.parts)
    <3>0. Layout(K, b) /\ TypeOK
      BY <2>5, Types DEF Body
    <3>1. /\ K = Len(upload.parts)
          /\ \A i \in 1..K : /\ upload.parts[i].number = i
                             /\ upload.parts[i].etag # NoObject =>
                                  i \in PartNumbers /\ parts[i] = upload.parts[i].etag
      BY <2>5 DEF Body, Request
    <3>2. /\ K \in Nat /\ b[K] <= file /\ file \in Nat /\ MinPartSize \in Nat
          /\ \A i \in 0..K, j \in 0..K : i < j => b[i] < b[j]
          /\ \A i \in 0..K : b[i] \in Nat
          /\ \A n \in 1..K : Len(Slice(b, n)) = b[n] - b[n - 1]
      BY <3>0, LayoutFacts, PartSizeAssumption DEF Layout
    <3>3. ASSUME NEW i \in 1..K, i < K
          PROVE  upload.parts[i].number < upload.parts[i + 1].number /\ Len(upload.parts[i].etag) >= MinPartSize
      <4>1. i + 1 \in 1..K /\ i \in 0..K /\ K \in 0..K /\ i < i + 1
        BY <3>2, <3>3
      <4>2. upload.parts[i].number = i /\ upload.parts[i + 1].number = i + 1
        BY <3>1, <4>1
      <4>3. upload.parts[i].etag = Slice(b, i)
        BY <2>2, <3>0, <3>1 DEF Layout
      <4>4. b[i] < b[K] /\ b[i] \in Nat /\ b[K] \in Nat
        BY <3>2, <3>3, <4>1
      <4>5. b[i] - b[i - 1] >= MinPartSize \/ b[i] = file
        BY <3>0 DEF Layout
      <4>6. b[i] - b[i - 1] >= MinPartSize
        BY <3>2, <4>4, <4>5
      <4> QED
        BY <3>2, <4>1, <4>2, <4>3, <4>6
    <3> QED
      BY <2>2, <2>3, <3>1, <3>3 DEF Valid
  <2> QED
    BY <2>3, <2>4, <2>5 DEF DataInv, OpenInv
<1> QED
  BY <1>1, DataInvariance, PTL

=============================================================================
