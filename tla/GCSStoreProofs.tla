--------------------------- MODULE GCSStoreProofs ---------------------------
(***************************************************************************)
(* The data of GCSStore, for files, chunks and groups of every size and    *)
(* whatever fails.  The chunks that are stored are a start of the client's *)
(* file, or the first one is missing; with the first one missing nothing   *)
(* can be composed any more.  So the object is composed from the whole     *)
(* file, in whatever groups.                                               *)
(***************************************************************************)
EXTENDS GCSStore, SequenceFacts, FiniteSetTheorems, TLAPS

(* GetInfo loses at most one error in the life of an upload.  If it loses  *)
(* two, that of a HEAD and that of the PATCH which believes it, the data   *)
(* is written to the wrong place.                                          *)
OneRace == MaxRaces <= 1

M == MAX_OBJECT_COMPOSITION

(* A bucket, and what the operators of the model make of it. *)
Buckets == [Names -> Seq(Nat) \cup {NoObject}]
PresentIn(b) == {i \in 0..(MaxChunks - 1) : b[Chunk(i)] # NoObject}
NoTmps(b) == \A t \in Tmps : b[t] = NoObject
ReadIn(b, name) == IF name = Hole THEN <<>> ELSE b[name]
ConcatIn(b, list) == FlattenSeq([k \in 1..Len(list) |-> ReadIn(b, list[k])])

(* The chunks 0 to n - 1 are there, and no others. *)
FirstChunks(n) == [k \in 1..n |-> Chunk(k - 1)]

(* They are the first m of the f bytes of the file; there are temporary    *)
(* objects only of a whole file.                                           *)
Whole(b, f, n, m) ==
  /\ n \in 0..MaxChunks /\ m \in 0..f
  /\ PresentIn(b) = 0..(n - 1)
  /\ ConcatIn(b, FirstChunks(n)) = Bytes(0, m)
  /\ m = f \/ NoTmps(b)

Sound(b, f) == \E n \in 0..MaxChunks, m \in 0..f : Whole(b, f, n, m)

(* A termination, or the deletion of the chunks, was not completed. *)
Broken(b) == b[Chunk(0)] = NoObject /\ (PresentIn(b) # {} \/ ~NoTmps(b))

ChunksOK ==
  /\ Sound(bucket, file) \/ Broken(bucket)
  /\ Broken(bucket) => gone \/ Exists(Obj)
  /\ NoTmps(bucket) \/ MaxChunks >= 3

Lengths ==
  /\ info # NoObject => info = file
  /\ pc # "idle" => info # NoObject

(* What the client was told, unless an error was lost. *)
Told ==
  pc = "idle" /\ info # NoObject /\ races = 0 /\ clientOffset \in 0..(file - 1) =>
    /\ ~Exists(Obj)
    /\ \A n, m \in Nat : Whole(bucket, file, n, m) => clientOffset = m

(* What the request that writes and finishes knows. *)
Knows ==
  /\ pc \in {"idle", "write", "finish"} => tmpSrcs = <<>> /\ lvl = 0
  /\ pc \in {"write", "finish", "compose"} => ~Exists(Obj)
  /\ pc \in {"write", "finish"} => \A n, m \in Nat : Whole(bucket, file, n, m) => offset = m /\ NoTmps(bucket)
  /\ pc = "write" => offset + sends <= file /\ ~Exists(Chunk(MaxChunks - 1))
  /\ pc = "finish" /\ Broken(bucket) => Present # {}

(* The sources are the chunks, or the temporary objects of the level       *)
(* below.                                                                  *)
TmpList(l, n) == [k \in 1..n |-> Tmp(l, k - 1)]
Sources(n) == IF lvl = 0 THEN FirstChunks(n) ELSE TmpList(lvl - 1, n)
AllThere(b, list) == \A k \in 1..Len(list) : b[list[k]] # NoObject

Composing ==
  /\ \A n, m \in Nat : Whole(bucket, file, n, m) => m = file
  /\ names = Sources(Len(names)) /\ AllThere(bucket, names)
  /\ Len(names) > 0 /\ Len(names) <= MaxChunks
  /\ Len(names) >= 3 => 2 * lvl + Len(names) <= MaxChunks
  /\ ConcatIn(bucket, names) = Bytes(0, file)
  /\ tmpSrcs = TmpList(lvl, Len(tmpSrcs)) /\ AllThere(bucket, tmpSrcs)
  /\ tmpSrcs = <<>> \/ (Len(names) > M /\ Len(tmpSrcs) < tmpSrcLen)
  /\ ConcatIn(bucket, tmpSrcs) = ConcatIn(bucket, SubSeq(names, 1, Len(tmpSrcs) * M))

Composes ==
  pc = "compose" =>
    /\ offset = file
    /\ Sound(bucket, file) => Composing
    /\ Broken(bucket) => names # <<>> /\ names[1] = Hole /\ tmpSrcs = <<>>

(* What is deleted: the first chunk before the others. *)
FirstGoesFirst(b, list) ==
  \A k \in 1..Len(list) : \A i \in 1..(MaxChunks - 1) :
    list[k] = Chunk(i) => b[Chunk(0)] = NoObject \/ \E j \in 1..(k - 1) : list[j] = Chunk(0)

Deletes ==
  /\ pc \in {"deleteTmp", "deleteChunks", "metadata"} => Exists(Obj) /\ offset = file
  /\ pc = "deleteTmp" => names \in Seq(Tmps)
  /\ pc = "deleteChunks" => \A k \in 1..Len(names) : names[k] # Obj
  /\ pc = "terminate" => gone
  /\ Deleting => FirstGoesFirst(bucket, names)

GCSInv ==
  /\ TypeOK /\ ObjectIsFile /\ ChunksOK /\ Lengths /\ Told /\ Knows /\ Composes /\ Deletes

-----------------------------------------------------------------------------
(* The names of objects differ. *)

LEMMA Distinct ==
  /\ \A i, j : Chunk(i) = Chunk(j) => i = j
  /\ \A l, i, h, j : Tmp(l, i) = Tmp(h, j) => l = h /\ i = j
  /\ \A i, l, j : Chunk(i) # Tmp(l, j)
  /\ \A i : Chunk(i) # Obj /\ Chunk(i) # Hole
  /\ \A l, i : Tmp(l, i) # Obj /\ Tmp(l, i) # Hole
  /\ Obj # Hole
BY DEF Chunk, Tmp, Obj, Hole

LEMMA LastPart ==
  /\ \A i : Chunk(i)[Len(Chunk(i))] = i
  /\ \A l, i : Tmp(l, i)[Len(Tmp(l, i))] = i
<1>1. \A i : Len(Chunk(i)) = 2 /\ Chunk(i)[2] = i
  BY DEF Chunk
<1>2. \A l, i : Len(Tmp(l, i)) = 3 /\ Tmp(l, i)[3] = i
  BY DEF Tmp
<1> QED
  BY <1>1, <1>2

LEMMA InNames ==
  /\ Half \in Nat \ {0} /\ 2 * Half >= MaxChunks + 1 /\ 2 * (Half - 1) <= MaxChunks
  /\ \A i \in 0..(MaxChunks - 1) : Chunk(i) \in Names
  /\ \A l, i \in 0..(Half - 1) : Tmp(l, i) \in Tmps
  /\ Tmps \subseteq Names /\ Obj \in Names /\ Hole \notin Names /\ Obj \notin Tmps
  /\ \A t \in Tmps : \E l, i \in 0..(Half - 1) : t = Tmp(l, i)
  /\ \A i : Chunk(i) \notin Tmps
<1>1. Half \in Nat \ {0} /\ 2 * Half >= MaxChunks + 1 /\ 2 * (Half - 1) <= MaxChunks
  BY GCSAssumption DEF Half
<1>2. \A i \in 0..(MaxChunks - 1) : Chunk(i) \in Names
  BY DEF Names, Chunks
<1>3. \A l, i \in 0..(Half - 1) : Tmp(l, i) \in Tmps
  BY DEF Tmps
<1>4. \A t \in Tmps : \E l, i \in 0..(Half - 1) : t = Tmp(l, i)
  BY DEF Tmps
<1>5. Obj \notin Tmps /\ Hole \notin Tmps /\ \A i : Chunk(i) \notin Tmps
  BY <1>4, Distinct
<1>6. Tmps \subseteq Names /\ Obj \in Names /\ Hole \notin Names
  BY <1>5, Distinct DEF Names, Chunks
<1> QED
  BY <1>1, <1>2, <1>3, <1>4, <1>5, <1>6

-----------------------------------------------------------------------------
(* The first n bytes of the file. *)

LEMMA BytesFacts ==
  ASSUME NEW from \in Nat, NEW n \in Nat
  PROVE  /\ Bytes(from, n) \in Seq(Nat) /\ Len(Bytes(from, n)) = n
         /\ \A k \in 1..n : Bytes(from, n)[k] = from + k
         /\ n = 0 => Bytes(from, n) = <<>>
BY DEF Bytes

LEMMA BytesNext ==
  ASSUME NEW m \in Nat, NEW n \in Nat
  PROVE  Bytes(0, m) \o Bytes(m, n) = Bytes(0, m + n)
<1> DEFINE x == Bytes(0, m)
           y == Bytes(m, n)
           z == Bytes(0, m + n)
<1>1. /\ x \in Seq(Nat) /\ y \in Seq(Nat) /\ z \in Seq(Nat)
      /\ Len(x) = m /\ Len(y) = n /\ Len(z) = m + n
      /\ \A k \in 1..m : x[k] = k
      /\ \A k \in 1..n : y[k] = m + k
      /\ \A k \in 1..(m + n) : z[k] = k
  <2>1. x \in Seq(Nat) /\ Len(x) = m /\ \A k \in 1..m : x[k] = k
    BY DEF Bytes
  <2>2. y \in Seq(Nat) /\ Len(y) = n /\ \A k \in 1..n : y[k] = m + k
    BY BytesFacts
  <2>3. z \in Seq(Nat) /\ Len(z) = m + n /\ \A k \in 1..(m + n) : z[k] = k
    BY DEF Bytes
  <2> QED
    BY <2>1, <2>2, <2>3
<1> HIDE DEF x, y, z
<1>2. x \o y \in Seq(Nat) /\ Len(x \o y) = m + n
  BY <1>1, ConcatProperties
<1>3. ASSUME NEW k \in 1..(m + n) PROVE (x \o y)[k] = z[k]
  <2>1. (x \o y)[k] = IF k <= m THEN x[k] ELSE y[k - m]
    BY <1>1, ConcatProperties
  <2>2. ~(k <= m) => k - m \in 1..n
    OBVIOUS
  <2> QED
    BY <1>1, <2>1, <2>2
<1> QED
  BY <1>1, <1>2, <1>3, SeqEqual DEF x, y, z

-----------------------------------------------------------------------------
(* The data of lists of objects. *)

Readable(b, list) ==
  /\ list \in Seq(Names \cup {Hole})
  /\ \A k \in 1..Len(list) : ReadIn(b, list[k]) \in Seq(Nat)

Pieces(b, list) == [k \in 1..Len(list) |-> ReadIn(b, list[k])]

LEMMA PiecesFacts ==
  ASSUME NEW b, NEW list, Readable(b, list)
  PROVE  /\ Pieces(b, list) \in Seq(Seq(Nat)) /\ Len(Pieces(b, list)) = Len(list)
         /\ \A k \in 1..Len(list) : Pieces(b, list)[k] = ReadIn(b, list[k])
         /\ ConcatIn(b, list) = FlattenSeq(Pieces(b, list))
         /\ ConcatIn(b, list) \in Seq(Nat)
<1>1. Len(list) \in Nat
  BY DEF Readable
<1>2. Pieces(b, list) \in Seq(Seq(Nat)) /\ Len(Pieces(b, list)) = Len(list)
  BY <1>1 DEF Pieces, Readable
<1>3. ConcatIn(b, list) = FlattenSeq(Pieces(b, list))
  BY DEF ConcatIn, Pieces
<1>4. \A k \in 1..Len(list) : Pieces(b, list)[k] = ReadIn(b, list[k])
  BY DEF Pieces
<1> QED
  BY <1>2, <1>3, <1>4, FlattenAppend

(* One list after the other, and one object more. *)
LEMMA ConcatJoin ==
  ASSUME NEW b, NEW list, NEW more, Readable(b, list), Readable(b, more)
  PROVE  /\ Readable(b, list \o more)
         /\ ConcatIn(b, list \o more) = ConcatIn(b, list) \o ConcatIn(b, more)
<1> DEFINE N == Names \cup {Hole}
<1>1. /\ list \in Seq(N) /\ more \in Seq(N) /\ list \o more \in Seq(N)
      /\ Len(list \o more) = Len(list) + Len(more) /\ Len(list) \in Nat /\ Len(more) \in Nat
      /\ \A i \in 1..(Len(list) + Len(more)) :
           (list \o more)[i] = IF i <= Len(list) THEN list[i] ELSE more[i - Len(list)]
  BY ConcatProperties DEF Readable
<1> HIDE DEF N
<1>2. Readable(b, list \o more)
  <2>1. ASSUME NEW i \in 1..(Len(list) + Len(more)) PROVE ReadIn(b, (list \o more)[i]) \in Seq(Nat)
    <3>1. CASE i <= Len(list)
      <4>1. i \in 1..Len(list) /\ (list \o more)[i] = list[i]
        BY <1>1, <3>1
      <4> QED
        BY <4>1 DEF Readable
    <3>2. CASE ~(i <= Len(list))
      <4>1. i - Len(list) \in 1..Len(more) /\ (list \o more)[i] = more[i - Len(list)]
        BY <1>1, <3>2
      <4> QED
        BY <4>1 DEF Readable
    <3> QED
      BY <3>1, <3>2
  <2> QED
    BY <1>1, <2>1 DEF Readable, N
<1> DEFINE p == Pieces(b, list)
           q == Pieces(b, more)
           r == Pieces(b, list \o more)
<1>3. /\ p \in Seq(Seq(Nat)) /\ Len(p) = Len(list) /\ \A k \in 1..Len(list) : p[k] = ReadIn(b, list[k])
      /\ q \in Seq(Seq(Nat)) /\ Len(q) = Len(more) /\ \A k \in 1..Len(more) : q[k] = ReadIn(b, more[k])
      /\ r \in Seq(Seq(Nat)) /\ Len(r) = Len(list \o more)
      /\ \A k \in 1..Len(list \o more) : r[k] = ReadIn(b, (list \o more)[k])
      /\ ConcatIn(b, list) = FlattenSeq(p) /\ ConcatIn(b, more) = FlattenSeq(q)
      /\ ConcatIn(b, list \o more) = FlattenSeq(r)
  BY <1>2, PiecesFacts
<1> HIDE DEF p, q, r
<1>4. p \o q = r
  <2>1. /\ p \o q \in Seq(Seq(Nat)) /\ Len(p \o q) = Len(p) + Len(q)
        /\ \A i \in 1..(Len(p) + Len(q)) : (p \o q)[i] = IF i <= Len(p) THEN p[i] ELSE q[i - Len(p)]
    BY <1>3, ConcatProperties
  <2>2. ASSUME NEW i \in 1..(Len(p) + Len(q)) PROVE (p \o q)[i] = r[i]
    <3>1. i \in 1..Len(list \o more) /\ r[i] = ReadIn(b, (list \o more)[i])
      BY <1>1, <1>3
    <3>2. CASE i <= Len(list)
      <4>1. i \in 1..Len(list) /\ (list \o more)[i] = list[i] /\ (p \o q)[i] = p[i]
        BY <1>1, <1>3, <2>1, <3>2
      <4> QED
        BY <1>3, <3>1, <4>1
    <3>3. CASE ~(i <= Len(list))
      <4>1. /\ i - Len(list) \in 1..Len(more) /\ (list \o more)[i] = more[i - Len(list)]
            /\ (p \o q)[i] = q[i - Len(list)]
        BY <1>1, <1>3, <2>1, <3>3
      <4> QED
        BY <1>3, <3>1, <4>1
    <3> QED
      BY <3>2, <3>3
  <2>3. Len(p \o q) = Len(r)
    BY <1>1, <1>3, <2>1
  <2> QED
    BY <1>3, <2>1, <2>2, <2>3, SeqEqual
<1>5. FlattenSeq(p \o q) = FlattenSeq(p) \o FlattenSeq(q)
  BY <1>3, FlattenConcat
<1> QED
  BY <1>2, <1>3, <1>4, <1>5

LEMMA ConcatMore ==
  ASSUME NEW b, NEW list, Readable(b, list), NEW x \in Names \cup {Hole}, ReadIn(b, x) \in Seq(Nat)
  PROVE  /\ Readable(b, Append(list, x))
         /\ ConcatIn(b, Append(list, x)) = ConcatIn(b, list) \o ReadIn(b, x)
<1>1. <<x>> \in Seq(Names \cup {Hole}) /\ Len(<<x>>) = 1 /\ <<x>>[1] = x
  OBVIOUS
<1>2. Readable(b, <<x>>)
  BY <1>1 DEF Readable
<1>3. Append(list, x) = list \o <<x>>
  BY AppendIsConcat DEF Readable
<1>4. ConcatIn(b, <<x>>) = ReadIn(b, x)
  <2>1. Pieces(b, <<x>>) = <<ReadIn(b, x)>>
    BY <1>1 DEF Pieces
  <2> QED
    BY <1>2, <2>1, PiecesFacts, FlattenOne
<1>5. /\ Readable(b, list \o <<x>>)
      /\ ConcatIn(b, list \o <<x>>) = ConcatIn(b, list) \o ConcatIn(b, <<x>>)
  <2> DEFINE one == <<x>>
  <2>1. Readable(b, one)
    BY <1>2
  <2> HIDE DEF one
  <2>2. Readable(b, list \o one) /\ ConcatIn(b, list \o one) = ConcatIn(b, list) \o ConcatIn(b, one)
    BY <2>1, ConcatJoin
  <2> QED
    BY <2>2 DEF one
<1> QED
  BY <1>3, <1>4, <1>5

(* Only the objects of the list matter. *)
LEMMA ConcatSame ==
  ASSUME NEW b, NEW c, NEW list, Readable(b, list),
         \A k \in 1..Len(list) : list[k] # Hole => c[list[k]] = b[list[k]]
  PROVE  Readable(c, list) /\ ConcatIn(c, list) = ConcatIn(b, list)
<1>1. \A k \in 1..Len(list) : ReadIn(c, list[k]) = ReadIn(b, list[k])
  BY DEF ReadIn
<1> QED
  BY <1>1 DEF Readable, ConcatIn

LEMMA ConcatNone ==
  ASSUME NEW b PROVE Readable(b, <<>>) /\ ConcatIn(b, <<>>) = <<>>
<1>1. Readable(b, <<>>)
  BY DEF Readable
<1>2. Pieces(b, <<>>) = <<>>
  BY DEF Pieces
<1> QED
  BY <1>1, <1>2, PiecesFacts, FlattenAppend

-----------------------------------------------------------------------------
(* The listings of FilterObjects, as functions of the bucket. *)

ChunkNames(b) ==
  IF PresentIn(b) = {} THEN <<>>
  ELSE [k \in 1..(Max(PresentIn(b)) + 1) |-> IF b[Chunk(k - 1)] # NoObject THEN Chunk(k - 1) ELSE Hole]
TmpName(b, l, i) == IF b[Tmp(l, i)] # NoObject THEN <<Tmp(l, i)>> ELSE <<>>
TmpNames(b) ==
  FlattenSeq([l \in 1..Half |-> FlattenSeq([i \in 1..Half |-> TmpName(b, l - 1, i - 1)])])
ChunkList(b) == ChunkNames(b) \o TmpNames(b)
AllList(b) == IF b[Obj] # NoObject THEN <<Obj>> ELSE ChunkList(b)

LEMMA ListsNow ==
  /\ Present = PresentIn(bucket) /\ Present' = PresentIn(bucket')
  /\ chunkNames = ChunkNames(bucket) /\ chunkNames' = ChunkNames(bucket')
  /\ tmpNames = TmpNames(bucket)
  /\ FilterTmp = TmpNames(bucket) /\ FilterChunks = ChunkList(bucket) /\ FilterAll = AllList(bucket)
<1>1. Present = PresentIn(bucket) /\ Present' = PresentIn(bucket')
  BY DEF Present, PresentIn, Exists
<1>2. chunkNames = ChunkNames(bucket) /\ chunkNames' = ChunkNames(bucket')
  BY <1>1 DEF chunkNames, ChunkNames, Exists
<1>3. tmpNames = TmpNames(bucket)
  BY DEF tmpNames, TmpNames, tmpName, TmpName, Exists
<1> QED
  BY <1>1, <1>2, <1>3 DEF FilterTmp, FilterChunks, FilterAll, ChunkList, AllList, Exists

LEMMA ConcatNow ==
  /\ \A list : Concat(list) = ConcatIn(bucket, list) /\ Sum(list) = Len(ConcatIn(bucket, list))
  /\ \A name : Read(name) = ReadIn(bucket, name)
BY DEF Concat, ConcatIn, Read, ReadIn, Sum

(* Max of a bounded set. *)
LEMMA MaxOf ==
  ASSUME NEW N \in Nat, NEW S, S \subseteq 0..N, S # {}
  PROVE  Max(S) \in S /\ \A x \in S : x <= Max(S)
<1> DEFINE U == {k \in 0..N : \A x \in S : x <= k}
<1>1. U \subseteq Nat /\ N \in U
  OBVIOUS
<1>2. PICK m \in U : \A k \in U : m <= k
  BY <1>1, LeastElement
<1>3. m \in S
  <2>1. SUFFICES ASSUME m \notin S PROVE FALSE
    OBVIOUS
  <2>2. \A x \in S : x \in Nat /\ x <= m - 1
    BY <1>2, <2>1
  <2>3. m - 1 \in 0..N
    <3>1. PICK y \in S : TRUE
      OBVIOUS
    <3> QED
      BY <1>2, <2>2, <3>1
  <2>4. m - 1 \in U
    BY <2>2, <2>3
  <2> QED
    BY <1>2, <2>4
<1>4. \A x \in S : m >= x
  BY <1>2
<1>5. Max(S) \in S /\ \A x \in S : Max(S) >= x
  BY <1>3, <1>4 DEF Max
<1>6. \A x \in S : x \in Nat
  OBVIOUS
<1> QED
  BY <1>5, <1>6

(* Every place of the chunk listing has the chunk of its number, or a hole. *)
LEMMA ChunkListing ==
  ASSUME NEW b \in Buckets
  PROVE  /\ Readable(b, ChunkNames(b)) /\ Len(ChunkNames(b)) \in 0..MaxChunks
         /\ \A k \in 1..Len(ChunkNames(b)) :
              /\ k - 1 \in 0..(MaxChunks - 1)
              /\ ChunkNames(b)[k] = IF b[Chunk(k - 1)] # NoObject THEN Chunk(k - 1) ELSE Hole
         /\ PresentIn(b) = {} => ChunkNames(b) = <<>>
         /\ \A i \in PresentIn(b) : i + 1 \in 1..Len(ChunkNames(b))
<1>0. MaxChunks - 1 \in Nat /\ PresentIn(b) \subseteq 0..(MaxChunks - 1)
  BY GCSAssumption DEF PresentIn
<1>1. CASE PresentIn(b) = {}
  <2>1. ChunkNames(b) = <<>>
    BY <1>1 DEF ChunkNames
  <2> QED
    BY <1>0, <1>1, <2>1, ConcatNone, GCSAssumption
<1>2. CASE PresentIn(b) # {}
  <2> DEFINE m == Max(PresentIn(b))
             list == [k \in 1..(m + 1) |-> IF b[Chunk(k - 1)] # NoObject THEN Chunk(k - 1) ELSE Hole]
  <2>1. m \in 0..(MaxChunks - 1) /\ \A x \in PresentIn(b) : x <= m
    BY <1>0, <1>2, MaxOf
  <2>2. ChunkNames(b) = list
    BY <1>2 DEF ChunkNames
  <2> HIDE DEF m
  <2>3. \A k \in 1..(m + 1) : k - 1 \in 0..(MaxChunks - 1) /\ Chunk(k - 1) \in Names
    <3>1. \A k \in 1..(m + 1) : k - 1 \in 0..(MaxChunks - 1)
      BY <1>0, <2>1
    <3> QED
      BY <3>1, InNames
  <2>4. list \in Seq(Names \cup {Hole}) /\ Len(list) = m + 1
    BY <2>1, <2>3
  <2>5. \A k \in 1..(m + 1) : ReadIn(b, list[k]) \in Seq(Nat)
    <3> TAKE k \in 1..(m + 1)
    <3>1. b[Chunk(k - 1)] \in Seq(Nat) \cup {NoObject}
      BY <2>3 DEF Buckets
    <3>2. list[k] = IF b[Chunk(k - 1)] # NoObject THEN Chunk(k - 1) ELSE Hole
      OBVIOUS
    <3> HIDE DEF list
    <3> QED
      BY <3>1, <3>2 DEF ReadIn
  <2>6. \A k \in 1..(m + 1) : list[k] = IF b[Chunk(k - 1)] # NoObject THEN Chunk(k - 1) ELSE Hole
    OBVIOUS
  <2> HIDE DEF list
  <2>7. \A i \in PresentIn(b) : i + 1 \in 1..(m + 1)
    BY <1>0, <2>1
  <2>8. m + 1 \in 0..MaxChunks
    BY <2>1, GCSAssumption
  <2> QED
    BY <1>2, <2>2, <2>3, <2>4, <2>5, <2>6, <2>7, <2>8 DEF Readable
<1> QED
  BY <1>1, <1>2

(* The temporary objects that exist, and no others, are listed. *)
LEMMA TmpListing ==
  ASSUME NEW b \in Buckets
  PROVE  /\ Readable(b, TmpNames(b)) /\ TmpNames(b) \in Seq(Tmps)
         /\ \A k \in 1..Len(TmpNames(b)) : b[TmpNames(b)[k]] # NoObject
         /\ NoTmps(b) <=> TmpNames(b) = <<>>
<1> DEFINE A == {t \in Tmps : b[t] # NoObject}
           row(l) == [i \in 1..Half |-> TmpName(b, l - 1, i - 1)]
           rows == [l \in 1..Half |-> FlattenSeq(row(l))]
<1>0. Half \in Nat \ {0}
  BY InNames
<1>1. \A l, i \in 1..Half : TmpName(b, l - 1, i - 1) \in Seq(A)
  <2> TAKE l, i \in 1..Half
  <2>1. l - 1 \in 0..(Half - 1) /\ i - 1 \in 0..(Half - 1)
    BY <1>0
  <2>2. Tmp(l - 1, i - 1) \in Tmps
    BY <2>1, InNames
  <2>3. b[Tmp(l - 1, i - 1)] # NoObject => Tmp(l - 1, i - 1) \in A
    BY <2>2
  <2> HIDE DEF A
  <2> QED
    BY <2>3 DEF TmpName
<1>2. \A l \in 1..Half : row(l) \in Seq(Seq(A)) /\ Len(row(l)) = Half
  <2> DEFINE SA == Seq(A)
  <2> TAKE l \in 1..Half
  <2>1. \A i \in 1..Half : TmpName(b, l - 1, i - 1) \in SA
    BY <1>1
  <2> HIDE DEF SA
  <2>2. row(l) \in Seq(SA) /\ Len(row(l)) = Half
    BY <1>0, <2>1
  <2> QED
    BY <2>2 DEF SA
<1>3. \A l \in 1..Half : FlattenSeq(row(l)) \in Seq(A)
  BY <1>2, FlattenAppend
<1>4. rows \in Seq(Seq(A)) /\ Len(rows) = Half
  BY <1>0, <1>3
<1>5. TmpNames(b) = FlattenSeq(rows) /\ TmpNames(b) \in Seq(A)
  BY <1>4, FlattenAppend DEF TmpNames
<1>6. TmpNames(b) \in Seq(Tmps) /\ TmpNames(b) \in Seq(Names \cup {Hole})
  BY <1>5, SeqMonotonic, InNames
<1>7. ASSUME NEW k \in 1..Len(TmpNames(b))
      PROVE  b[TmpNames(b)[k]] # NoObject /\ ReadIn(b, TmpNames(b)[k]) \in Seq(Nat)
  <2> DEFINE t == TmpNames(b)[k]
  <2>1. t \in A
    BY <1>5, ElementOfSeq
  <2> HIDE DEF t
  <2>2. t \in Names /\ t # Hole /\ b[t] # NoObject
    BY <2>1, InNames
  <2>3. ReadIn(b, t) \in Seq(Nat)
    BY <2>2 DEF ReadIn, Buckets
  <2> QED
    BY <2>2, <2>3 DEF t
<1>8. ASSUME NoTmps(b) PROVE TmpNames(b) = <<>>
  <2>1. A = {}
    BY <1>8 DEF NoTmps
  <2>2. \A k \in 1..Len(TmpNames(b)) : FALSE
    <3> HIDE DEF A
    <3> QED
      BY <1>5, <2>1, ElementOfSeq
  <2> HIDE DEF A
  <2> QED
    BY <1>5, <2>2, EmptySeq
<1>9. ASSUME ~NoTmps(b) PROVE TmpNames(b) # <<>>
  <2>1. PICK l, i \in 0..(Half - 1) : b[Tmp(l, i)] # NoObject
    <3>1. PICK t \in Tmps : b[t] # NoObject
      BY <1>9 DEF NoTmps
    <3>2. \E l, i \in 0..(Half - 1) : t = Tmp(l, i)
      BY InNames
    <3> QED
      BY <3>1, <3>2
  <2>2. l + 1 \in 1..Half /\ i + 1 \in 1..Half /\ (l + 1) - 1 = l /\ (i + 1) - 1 = i
    BY <1>0
  <2>3. row(l + 1)[i + 1] = <<Tmp(l, i)>>
    BY <2>1, <2>2 DEF TmpName
  <2>4. Len(row(l + 1)[i + 1]) = 1
    <3> DEFINE r == row(l + 1)[i + 1]
               t == Tmp(l, i)
    <3>1. r = <<t>>
      BY <2>3
    <3> HIDE DEF r, t
    <3>2. Len(r) = 1
      BY ONLY <3>1
    <3> QED
      BY <3>2 DEF r
  <2>5. Len(row(l + 1)[i + 1]) <= Len(FlattenSeq(row(l + 1)))
    <3>1. i + 1 \in 1..Len(row(l + 1)) /\ row(l + 1) \in Seq(Seq(A))
      BY <1>2, <2>2
    <3> HIDE DEF row, A
    <3> QED
      BY <3>1, FlattenPiece
  <2>6. rows[l + 1] = FlattenSeq(row(l + 1))
    BY <2>2
  <2>7. Len(rows[l + 1]) <= Len(FlattenSeq(rows))
    <3>1. l + 1 \in 1..Len(rows)
      BY <1>4, <2>2
    <3> HIDE DEF rows, A
    <3> QED
      BY <1>4, <3>1, FlattenPiece
  <2> HIDE DEF row, rows, A
  <2>8. Len(TmpNames(b)) \in Nat /\ Len(rows[l + 1]) \in Nat
    BY <1>3, <1>5, <2>2, <2>6, LenProperties
  <2>9. Len(TmpNames(b)) >= 1
    <3>1. Len(rows[l + 1]) >= 1
      BY <2>4, <2>5, <2>6, <2>8
    <3> QED
      BY <1>5, <2>7, <2>8, <3>1
  <2> QED
    BY <1>5, <2>9, EmptySeq
<1> QED
  BY <1>6, <1>7, <1>8, <1>9 DEF Readable

-----------------------------------------------------------------------------
(* A start of the file. *)

LEMMA ListFacts ==
  ASSUME NEW n \in Nat
  PROVE  /\ FirstChunks(n) \in Seq({Chunk(i) : i \in 0..(n - 1)}) /\ Len(FirstChunks(n)) = n
         /\ \A k \in 1..n : FirstChunks(n)[k] = Chunk(k - 1)
         /\ \A l : /\ TmpList(l, n) \in Seq({Tmp(l, i) : i \in 0..(n - 1)}) /\ Len(TmpList(l, n)) = n
                   /\ \A k \in 1..n : TmpList(l, n)[k] = Tmp(l, k - 1)
<1>1. \A k \in 1..n : k - 1 \in 0..(n - 1)
  OBVIOUS
<1>2. \A k \in 1..n : Chunk(k - 1) \in {Chunk(i) : i \in 0..(n - 1)}
  BY <1>1
<1>3. FirstChunks(n) \in Seq({Chunk(i) : i \in 0..(n - 1)}) /\ Len(FirstChunks(n)) = n
  BY <1>2 DEF FirstChunks
<1>4. ASSUME NEW l
      PROVE  /\ TmpList(l, n) \in Seq({Tmp(l, i) : i \in 0..(n - 1)}) /\ Len(TmpList(l, n)) = n
             /\ \A k \in 1..n : TmpList(l, n)[k] = Tmp(l, k - 1)
  <2>1. \A k \in 1..n : Tmp(l, k - 1) \in {Tmp(l, i) : i \in 0..(n - 1)}
    BY <1>1
  <2> QED
    BY <2>1 DEF TmpList
<1> QED
  BY <1>3, <1>4 DEF FirstChunks

LEMMA WholeFacts ==
  ASSUME NEW b \in Buckets, NEW f \in Nat, NEW n, NEW m, Whole(b, f, n, m)
  PROVE  /\ n \in 0..MaxChunks /\ m \in Nat /\ m <= f
         /\ ChunkNames(b) = FirstChunks(n) /\ Readable(b, FirstChunks(n))
         /\ ConcatIn(b, ChunkNames(b)) = Bytes(0, m) /\ Len(ConcatIn(b, ChunkNames(b))) = m
         /\ Len(ChunkNames(b)) = n
         /\ \A i \in 0..(MaxChunks - 1) : b[Chunk(i)] # NoObject <=> i < n
<1>0. n \in 0..MaxChunks /\ m \in Nat /\ m <= f /\ PresentIn(b) = 0..(n - 1) /\ MaxChunks \in Nat \ {0}
  BY GCSAssumption DEF Whole
<1>1. \A i \in 0..(MaxChunks - 1) : b[Chunk(i)] # NoObject <=> i < n
  <2> TAKE i \in 0..(MaxChunks - 1)
  <2>1. b[Chunk(i)] # NoObject <=> i \in 0..(n - 1)
    BY <1>0 DEF PresentIn
  <2> QED
    BY <1>0, <2>1
<1> DEFINE list == ChunkNames(b)
<1>2. /\ Readable(b, list) /\ Len(list) \in 0..MaxChunks
      /\ \A k \in 1..Len(list) :
           /\ k - 1 \in 0..(MaxChunks - 1)
           /\ list[k] = IF b[Chunk(k - 1)] # NoObject THEN Chunk(k - 1) ELSE Hole
      /\ PresentIn(b) = {} => list = <<>>
      /\ \A i \in PresentIn(b) : i + 1 \in 1..Len(list)
  BY ChunkListing
<1>3. Len(list) = n
  <2>1. CASE n = 0
    <3>1. PresentIn(b) = {}
      BY <1>0, <2>1
    <3>2. list = <<>>
      BY <1>2, <3>1
    <3> HIDE DEF list
    <3> QED
      BY <2>1, <3>2
  <2>2. CASE n # 0
    <3>1. n - 1 \in PresentIn(b) /\ PresentIn(b) # {}
      <4>1. n - 1 \in 0..(n - 1)
        BY <1>0, <2>2
      <4> HIDE DEF list
      <4> QED
        BY <1>0, <4>1, Zenon
    <3>2. n \in 1..Len(list)
      <4>1. (n - 1) + 1 \in 1..Len(list)
        BY <1>2, <3>1
      <4> QED
        BY <1>0, <4>1
    <3>3. PresentIn(b) \subseteq 0..(MaxChunks - 1) /\ MaxChunks - 1 \in Nat
      BY <1>0 DEF PresentIn
    <3>4. Max(PresentIn(b)) \in PresentIn(b)
      BY <3>1, <3>3, MaxOf
    <3>5. Len(list) = Max(PresentIn(b)) + 1
      <4>1. Max(PresentIn(b)) + 1 \in Nat
        BY <3>3, <3>4
      <4> HIDE DEF Max
      <4> QED
        BY <3>1, <4>1 DEF ChunkNames
    <3> QED
      BY <1>0, <3>2, <3>4, <3>5
  <2> QED
    BY <2>1, <2>2
<1>4. list = FirstChunks(n)
  <2>0. n \in Nat
    BY <1>0
  <2>1. FirstChunks(n) \in Seq({Chunk(i) : i \in 0..(n - 1)}) /\ Len(FirstChunks(n)) = n
        /\ \A k \in 1..n : FirstChunks(n)[k] = Chunk(k - 1)
    BY <2>0, ListFacts, Zenon
  <2>2. \A k \in 1..n : list[k] = Chunk(k - 1)
    <3> TAKE k \in 1..n
    <3>1. k - 1 \in 0..(MaxChunks - 1) /\ k - 1 < n
      BY <1>0
    <3>2. b[Chunk(k - 1)] # NoObject
      BY <1>1, <3>1
    <3> QED
      BY <1>2, <1>3, <3>2
  <2> DEFINE x == FirstChunks(n)
             N == Names \cup {Hole}
  <2>3. list \in Seq(N)
    BY <1>2 DEF Readable
  <2>4. x \in Seq({Chunk(i) : i \in 0..(n - 1)}) /\ Len(x) = n /\ \A k \in 1..n : x[k] = Chunk(k - 1)
    BY <2>1
  <2> HIDE DEF list, x, N
  <2>5. list = x
    <3>1. n \in Nat /\ DOMAIN list = 1..n /\ DOMAIN x = 1..n
      BY <1>0, <1>3, <2>3, <2>4, LenProperties
    <3>2. list = [k \in 1..n |-> list[k]] /\ x = [k \in 1..n |-> x[k]]
      BY <2>3, <2>4, <3>1
    <3>3. \A k \in 1..n : list[k] = x[k]
      BY <2>2, <2>4
    <3> QED
      BY <3>2, <3>3, Zenon
  <2> QED
    BY <2>5 DEF x
<1>5. ConcatIn(b, list) = Bytes(0, m)
  BY <1>4 DEF Whole
<1>6. Len(Bytes(0, m)) = m
  BY <1>0, BytesFacts
<1> QED
  BY <1>0, <1>1, <1>2, <1>3, <1>4, <1>5, <1>6

(* There is only one such start. *)
LEMMA WholeOnce ==
  ASSUME NEW b \in Buckets, NEW f \in Nat, NEW n, NEW m, Whole(b, f, n, m)
  PROVE  \A n2, m2 : Whole(b, f, n2, m2) => n2 = n /\ m2 = m
BY WholeFacts

(* What GetInfo and FinishUpload are given by the listing. *)
LEMMA ListSum ==
  ASSUME NEW b \in Buckets
  PROVE  /\ Readable(b, ChunkList(b)) /\ Readable(b, AllList(b))
         /\ Len(ConcatIn(b, ChunkList(b))) >= Len(ConcatIn(b, ChunkNames(b)))
         /\ NoTmps(b) => ChunkList(b) = ChunkNames(b)
<1>1. Readable(b, ChunkNames(b)) /\ Readable(b, TmpNames(b))
  BY ChunkListing, TmpListing
<1>2. /\ Readable(b, ChunkList(b))
      /\ ConcatIn(b, ChunkList(b)) = ConcatIn(b, ChunkNames(b)) \o ConcatIn(b, TmpNames(b))
  BY <1>1, ConcatJoin DEF ChunkList
<1>3. ConcatIn(b, ChunkNames(b)) \in Seq(Nat) /\ ConcatIn(b, TmpNames(b)) \in Seq(Nat)
  BY <1>1, PiecesFacts
<1>4. Len(ConcatIn(b, ChunkList(b))) >= Len(ConcatIn(b, ChunkNames(b)))
  BY <1>2, <1>3, ConcatProperties, LenProperties
<1>5. ASSUME NoTmps(b) PROVE ChunkList(b) = ChunkNames(b)
  <2>1. TmpNames(b) = <<>>
    BY <1>5, TmpListing
  <2>2. ChunkNames(b) \in Seq(Names \cup {Hole})
    BY <1>1 DEF Readable
  <2> QED
    BY <2>1, <2>2, ConcatEmptySeq DEF ChunkList
<1>6. Readable(b, AllList(b))
  <2>1. CASE b[Obj] # NoObject
    <3>1. AllList(b) = Append(<<>>, Obj)
      BY <2>1 DEF AllList
    <3>2. Obj \in Names /\ Obj # Hole
      BY InNames, Distinct
    <3>3. ReadIn(b, Obj) \in Seq(Nat)
      BY <2>1, <3>2 DEF ReadIn, Buckets
    <3> DEFINE e == <<>>
    <3>4. Readable(b, e)
      BY ConcatNone
    <3> HIDE DEF e
    <3>5. Readable(b, Append(e, Obj))
      BY <3>2, <3>3, <3>4, ConcatMore
    <3> QED
      BY <3>1, <3>5 DEF e
  <2>2. CASE b[Obj] = NoObject
    BY <1>2, <2>2 DEF AllList
  <2> QED
    BY <2>1, <2>2
<1> QED
  BY <1>2, <1>4, <1>5, <1>6

-----------------------------------------------------------------------------
(* The requests, step by step. *)

LEMMA Typed ==
  ASSUME GCSInv
  PROVE  /\ bucket \in Buckets /\ file \in Nat /\ offset \in Nat /\ sends \in Nat /\ lvl \in Nat
         /\ names \in Seq(Names \cup {Hole}) /\ tmpSrcs \in Seq(Tmps)
         /\ info \in Nat \cup {NoObject} /\ NoObject \notin Nat /\ NoObject \notin Seq(Nat)
         /\ Sound(bucket, file) \/ Broken(bucket)
BY GCSAssumption DEF GCSInv, TypeOK, ChunksOK, Buckets

(* A request that ends leaves the objects alone. *)
LEMMA Ends ==
  ASSUME GCSInv, NEW ok \in BOOLEAN, Respond(ok), UNCHANGED <<bucket, info, gone>>,
         ok => \/ offset >= file
               \/ /\ ~Exists(Obj)
                  /\ \A n, m \in Nat : Whole(bucket, file, n, m) => offset = m
  PROVE  GCSInv'
<1>1. /\ pc' = "idle" /\ sends' = 0 /\ offset' = 0 /\ names' = <<>> /\ tmpSrcs' = <<>> /\ lvl' = 0
      /\ clientOffset' = (IF ok THEN offset ELSE Unknown) /\ file' = file /\ races' = races
      /\ bucket' = bucket /\ info' = info /\ gone' = gone
  BY DEF Respond
<1>2. TypeOK'
  BY <1>1 DEF GCSInv, TypeOK
<1>3. ObjectIsFile' /\ ChunksOK' /\ Lengths'
  BY <1>1 DEF GCSInv, ObjectIsFile, ChunksOK, Lengths, Exists
<1>4. Told'
  BY <1>1, Typed DEF Told, Exists, Unknown
<1>5. Knows' /\ Composes' /\ Deletes'
  BY <1>1 DEF Knows, Composes, Deletes, Deleting
<1> QED
  BY <1>2, <1>3, <1>4, <1>5 DEF GCSInv

(* An offset that no error was lost for, below the length, is that of the  *)
(* chunks.                                                                 *)
LEMMA GetInfoFacts ==
  ASSUME GCSInv, NEW o, NEW raced \in BOOLEAN, GetInfo(o, raced)
  PROVE  /\ o \in Nat /\ (raced => races < MaxRaces)
         /\ ~raced /\ o < file =>
              /\ ~Exists(Obj)
              /\ \A n, m : Whole(bucket, file, n, m) => o = m /\ NoTmps(bucket)
<1> DEFINE list == AllList(bucket)
<1>0. bucket \in Buckets /\ file \in Nat
  BY Typed
<1>1. Readable(bucket, list)
  BY <1>0, ListSum
<1>2. /\ ConcatIn(bucket, list) \in Seq(Nat) /\ Len(ConcatIn(bucket, list)) \in Nat
      /\ \A k \in 1..Len(list) : ReadIn(bucket, list[k]) \in Seq(Nat)
  BY <1>1, PiecesFacts, LenProperties DEF Readable
<1>3. \A k \in 1..Len(list) : Len(ReadIn(bucket, list[k])) <= Len(ConcatIn(bucket, list))
  <2> TAKE k \in 1..Len(list)
  <2>1. /\ Pieces(bucket, list) \in Seq(Seq(Nat)) /\ k \in 1..Len(Pieces(bucket, list))
        /\ Pieces(bucket, list)[k] = ReadIn(bucket, list[k])
        /\ ConcatIn(bucket, list) = FlattenSeq(Pieces(bucket, list))
    BY <1>1, PiecesFacts
  <2> QED
    BY <2>1, FlattenPiece
<1>4. FilterAll = list /\ \A x : Sum(x) = Len(ConcatIn(bucket, x)) /\ Read(x) = ReadIn(bucket, x)
  BY ListsNow, ConcatNow
<1> HIDE DEF list
<1>5. ~raced => o = Len(ConcatIn(bucket, list))
  BY <1>4 DEF GetInfo
<1>6. raced => races < MaxRaces /\ \E k \in 1..Len(list) :
                 o = Len(ConcatIn(bucket, list)) - Len(ReadIn(bucket, list[k]))
  BY <1>4 DEF GetInfo
<1>7. o \in Nat
  <2>1. CASE ~raced
    BY <1>2, <1>5, <2>1
  <2>2. CASE raced
    <3>1. PICK k \in 1..Len(list) : o = Len(ConcatIn(bucket, list)) - Len(ReadIn(bucket, list[k]))
      BY <1>6, <2>2
    <3>2. Len(ReadIn(bucket, list[k])) \in Nat /\ Len(ReadIn(bucket, list[k])) <= Len(ConcatIn(bucket, list))
      BY <1>2, <1>3, LenProperties
    <3> QED
      BY <1>2, <3>1, <3>2
  <2> QED
    BY <2>1, <2>2
<1>8. ASSUME ~raced, o < file
      PROVE  ~Exists(Obj) /\ \A n, m : Whole(bucket, file, n, m) => o = m /\ NoTmps(bucket)
  <2>1. ASSUME Exists(Obj) PROVE FALSE
    <3>1. list = <<Obj>> /\ bucket[Obj] = Bytes(0, file)
      BY <2>1 DEF list, AllList, Exists, GCSInv, ObjectIsFile
    <3>2. ReadIn(bucket, Obj) = Bytes(0, file)
      BY <3>1, Distinct DEF ReadIn
    <3>3. Pieces(bucket, list) = <<Bytes(0, file)>>
      BY <3>1, <3>2 DEF Pieces
    <3>4. Bytes(0, file) \in Seq(Nat) /\ Len(Bytes(0, file)) = file
      BY <1>0, BytesFacts
    <3>5. ConcatIn(bucket, list) = Bytes(0, file)
      BY <1>1, <3>3, <3>4, PiecesFacts, FlattenOne
    <3> QED
      BY <1>0, <1>5, <1>8, <3>4, <3>5
  <2>2. ASSUME NEW n, NEW m, Whole(bucket, file, n, m) PROVE o = m /\ NoTmps(bucket)
    <3>1. list = ChunkList(bucket)
      BY <2>1 DEF list, AllList, Exists
    <3>2. Len(ConcatIn(bucket, ChunkNames(bucket))) = m /\ m \in Nat
      BY <1>0, <2>2, WholeFacts
    <3>3. o >= m
      BY <1>0, <1>5, <1>8, <3>1, <3>2, ListSum
    <3>4. NoTmps(bucket)
      BY <1>0, <1>7, <1>8, <2>2, <3>3 DEF Whole
    <3> QED
      BY <1>0, <1>5, <1>8, <3>1, <3>2, <3>4, ListSum
  <2> QED
    BY <2>1, <2>2
<1> QED
  BY <1>6, <1>7, <1>8

LEMMA NewUploadKeeps == ASSUME GCSInv, NewUpload PROVE GCSInv'
<1>0. /\ file' \in 0..MaxFile /\ info' = file' /\ bucket' = [name \in Names |-> NoObject]
      /\ \/ sends' \in 0..file' /\ pc' = "write"
         \/ sends' = 0 /\ pc' = "finish"
      /\ offset' = 0 /\ clientOffset' = 0 /\ races' = 0 /\ gone' = FALSE
      /\ names' = names /\ tmpSrcs' = tmpSrcs /\ lvl' = lvl
  BY DEF NewUpload, workVars
<1>1. file' \in Nat /\ info' # NoObject /\ bucket' \in Buckets /\ MaxRaces \in Nat /\ MaxChunks \in Nat \ {0}
  BY <1>0, GCSAssumption DEF Buckets
<1>2. (\A name \in Names : bucket'[name] = NoObject) /\ NoTmps(bucket') /\ ~Exists(Obj)'
  BY <1>0, InNames DEF NoTmps, Exists
<1>3. \A i \in 0..(MaxChunks - 1) : bucket'[Chunk(i)] = NoObject
  BY <1>2, InNames
<1>4. PresentIn(bucket') = {} /\ ~Exists(Chunk(MaxChunks - 1))'
  BY <1>1, <1>3 DEF PresentIn, Exists
<1>5. Whole(bucket', file', 0, 0)
  <2>1. FirstChunks(0) = <<>> /\ Bytes(0, 0) = <<>>
    BY DEF FirstChunks, Bytes
  <2>2. 0 \in 0..MaxChunks /\ 0 \in 0..file' /\ 0..(0 - 1) = {}
    BY <1>1
  <2> QED
    BY <1>2, <1>4, <2>1, <2>2, ConcatNone DEF Whole
<1>6. TypeOK'
  <2>1. sends' \in Nat /\ pc' \in {"write", "finish"} /\ info' \in Nat /\ 0 \in 0..MaxRaces
    BY <1>0, <1>1
  <2>2. bucket' \in [Names -> Seq(Nat) \cup {NoObject}]
    BY <1>1 DEF Buckets
  <2> QED
    BY <1>0, <1>1, <2>1, <2>2 DEF GCSInv, TypeOK
<1>7. ObjectIsFile' /\ Lengths'
  BY <1>0, <1>1, <1>2 DEF ObjectIsFile, Lengths
<1>8. ChunksOK'
  <2>1. Sound(bucket', file')
    BY <1>1, <1>5 DEF Sound
  <2> QED
    BY <1>2, <1>4, <2>1 DEF ChunksOK, Broken
<1>9. Told' /\ Composes' /\ Deletes'
  BY <1>0 DEF Told, Composes, Deletes, Deleting
<1>10. Knows'
  <2>1. \A n, m \in Nat : Whole(bucket', file', n, m) => 0 = m
    BY <1>1, <1>5, WholeOnce
  <2> QED
    BY <1>0, <1>1, <1>2, <1>4, <2>1 DEF Knows, Broken, GCSInv, NewUpload
<1> QED
  BY <1>6, <1>7, <1>8, <1>9, <1>10 DEF GCSInv

LEMMA HeadFileKeeps == ASSUME OneRace, GCSInv, HeadFile PROVE GCSInv'
<1>1. PICK raced \in BOOLEAN :
        GetInfo(clientOffset', raced) /\ races' = races + IF raced THEN 1 ELSE 0
  BY DEF HeadFile
<1>2. /\ pc = "idle" /\ pc' = "idle" /\ bucket' = bucket /\ info' = info /\ sends' = sends /\ offset' = offset
      /\ names' = names /\ tmpSrcs' = tmpSrcs /\ lvl' = lvl /\ file' = file /\ gone' = gone
  BY DEF HeadFile, reqVars, workVars
<1>3. /\ clientOffset' \in Nat /\ (raced => races < MaxRaces)
      /\ ~raced /\ clientOffset' < file =>
           /\ ~Exists(Obj)
           /\ \A n, m : Whole(bucket, file, n, m) => clientOffset' = m /\ NoTmps(bucket)
  BY <1>1, GetInfoFacts
<1>4. TypeOK'
  BY <1>1, <1>2, <1>3, GCSAssumption DEF GCSInv, TypeOK
<1>5. ObjectIsFile' /\ ChunksOK' /\ Lengths'
  BY <1>2 DEF GCSInv, ObjectIsFile, ChunksOK, Lengths, Exists
<1>6. Told'
  <2>1. races' = 0 => ~raced
    BY <1>1 DEF GCSInv, TypeOK
  <2> QED
    BY <1>2, <1>3, <2>1, Typed DEF Told, Exists
<1>7. Knows' /\ Composes' /\ Deletes'
  BY <1>2 DEF GCSInv, Knows, Composes, Deletes, Deleting
<1> QED
  BY <1>4, <1>5, <1>6, <1>7 DEF GCSInv

LEMMA PatchKeeps == ASSUME OneRace, GCSInv, Patch PROVE GCSInv'
<1>1. PICK raced \in BOOLEAN :
        GetInfo(clientOffset, raced) /\ races' = races + IF raced THEN 1 ELSE 0
  BY DEF Patch
<1>2. /\ pc = "idle" /\ pc' = "write" /\ bucket' = bucket /\ info' = info /\ offset' = clientOffset
      /\ names' = names /\ tmpSrcs' = tmpSrcs /\ lvl' = lvl /\ file' = file /\ gone' = gone
      /\ clientOffset' = clientOffset /\ sends' \in 0..(file - clientOffset) /\ clientOffset < info
      /\ info # NoObject /\ info = file /\ ~Exists(Chunk(MaxChunks - 1)) /\ file \in Nat
  BY Typed DEF Patch, workVars, GCSInv, Lengths
<1>3. /\ clientOffset \in Nat /\ (raced => races < MaxRaces)
      /\ ~raced /\ clientOffset < file =>
           /\ ~Exists(Obj)
           /\ \A n, m : Whole(bucket, file, n, m) => clientOffset = m /\ NoTmps(bucket)
  BY <1>1, GetInfoFacts
<1>4. ~Exists(Obj) /\ \A n, m \in Nat : Whole(bucket, file, n, m) => clientOffset = m /\ NoTmps(bucket)
  <2>1. CASE ~raced
    BY <1>2, <1>3, <2>1
  <2>2. CASE raced
    <3>1. races = 0
      BY <1>3, <2>2, GCSAssumption DEF OneRace, GCSInv, TypeOK
    <3>2. ~Exists(Obj) /\ \A n, m \in Nat : Whole(bucket, file, n, m) => clientOffset = m
      BY <1>2, <1>3, <3>1 DEF GCSInv, Told
    <3>3. \A n, m \in Nat : Whole(bucket, file, n, m) => NoTmps(bucket)
      BY <1>2, <1>3, <3>2 DEF Whole
    <3> QED
      BY <3>2, <3>3
  <2> QED
    BY <2>1, <2>2
<1>5. TypeOK'
  BY <1>1, <1>2, <1>3, GCSAssumption DEF GCSInv, TypeOK
<1>6. ObjectIsFile' /\ ChunksOK' /\ Lengths' /\ Told'
  BY <1>2 DEF GCSInv, ObjectIsFile, ChunksOK, Lengths, Told, Exists
<1>7. Knows'
  <2>1. sends' \in Nat /\ clientOffset + sends' <= file
    <3>1. sends' \in 0..(file - clientOffset) /\ file \in Nat
      BY <1>2
    <3>2. clientOffset \in Nat
      BY <1>3
    <3>3. \A a, c \in Nat : \A d \in 0..(a - c) : d \in Nat /\ c + d <= a
      OBVIOUS
    <3> QED
      BY <3>1, <3>2, <3>3, Zenon
  <2> QED
    BY <1>2, <1>4, <2>1 DEF GCSInv, Knows, Exists
<1>8. Composes' /\ Deletes'
  BY <1>2 DEF Composes, Deletes, Deleting
<1> QED
  BY <1>5, <1>6, <1>7, <1>8 DEF GCSInv

(* The next index. *)
Indexes(b) == {name[Len(name)] : name \in Range(ChunkList(b))}
NextIndex(b) == IF Indexes(b) = {} THEN 0 ELSE Max(Indexes(b)) + 1

LEMMA IndexesAre ==
  ASSUME NEW b
  PROVE  Indexes(b) = {ChunkList(b)[k][Len(ChunkList(b)[k])] : k \in DOMAIN ChunkList(b)}
BY DEF Indexes, Range

LEMMA NextOfWhole ==
  ASSUME NEW b \in Buckets, NEW f \in Nat, NEW n, NEW m, Whole(b, f, n, m), NoTmps(b)
  PROVE  NextIndex(b) = n
<1>1. n \in 0..MaxChunks /\ n \in Nat /\ ChunkList(b) = FirstChunks(n)
  BY WholeFacts, ListSum, GCSAssumption
<1>2. /\ DOMAIN ChunkList(b) = 1..n
      /\ \A k \in 1..n : ChunkList(b)[k] = Chunk(k - 1)
  BY <1>1 DEF FirstChunks
<1>3. \A k \in 1..n : ChunkList(b)[k][Len(ChunkList(b)[k])] = k - 1
  BY <1>2, LastPart
<1>4. Indexes(b) = {k - 1 : k \in 1..n}
  BY <1>2, <1>3, IndexesAre
<1>5. {k - 1 : k \in 1..n} = 0..(n - 1)
  <2>1. \A i \in 0..(n - 1) : i + 1 \in 1..n /\ i = (i + 1) - 1
    BY <1>1
  <2> QED
    BY <1>1, <2>1
<1>6. CASE n = 0
  <2>1. Indexes(b) = {}
    BY <1>4, <1>5, <1>6
  <2> QED
    BY <1>6, <2>1 DEF NextIndex
<1>7. CASE n # 0
  <2>1. n - 1 \in Nat /\ 0..(n - 1) # {} /\ n - 1 \in 0..(n - 1)
    <3>1. n - 1 \in Nat /\ n - 1 \in 0..(n - 1)
      BY <1>1, <1>7
    <3> QED
      BY <3>1
  <2>2. Max(0..(n - 1)) \in 0..(n - 1) /\ \A x \in 0..(n - 1) : x <= Max(0..(n - 1))
    BY <2>1, MaxOf
  <2>3. Max(0..(n - 1)) = n - 1
    BY <1>1, <2>1, <2>2
  <2>4. Indexes(b) # {} /\ Max(Indexes(b)) = n - 1
    BY <1>4, <1>5, <2>1, <2>3, Zenon
  <2>5. NextIndex(b) = Max(Indexes(b)) + 1
    BY <2>4, Zenon DEF NextIndex
  <2> QED
    BY <1>1, <2>4, <2>5
<1> QED
  BY <1>6, <1>7

(* If only temporary objects are left, the next index is not 0. *)
LEMMA NextOfBroken ==
  ASSUME NEW b \in Buckets, Broken(b), MaxChunks >= 3 \/ NoTmps(b), Holes(ChunkList(b)) = {}
  PROVE  NextIndex(b) \in 1..(MaxChunks - 1)
<1>0. /\ ChunkNames(b) \in Seq(Names \cup {Hole}) /\ TmpNames(b) \in Seq(Tmps) /\ TmpNames(b) \in Seq(Names \cup {Hole})
      /\ Len(ChunkNames(b)) \in Nat
  BY ChunkListing, TmpListing DEF Readable
<1>1. PresentIn(b) = {}
  <2>1. SUFFICES ASSUME NEW i \in PresentIn(b) PROVE FALSE
    OBVIOUS
  <2>2. i \in Nat /\ i + 1 \in 1..Len(ChunkNames(b))
    BY ChunkListing, GCSAssumption DEF PresentIn
  <2>3. 1 \in 1..Len(ChunkNames(b)) /\ 1 - 1 = 0
    BY <1>0, <2>2
  <2>4. ChunkNames(b)[1] = IF b[Chunk(1 - 1)] # NoObject THEN Chunk(1 - 1) ELSE Hole
    BY <2>3, ChunkListing
  <2>5. ChunkNames(b)[1] = Hole
    BY <2>3, <2>4 DEF Broken
  <2>6. ChunkList(b)[1] = Hole /\ 1 \in 1..Len(ChunkList(b))
    BY <1>0, <2>3, <2>5, ConcatProperties, LenProperties DEF ChunkList
  <2> QED
    BY <2>6 DEF Holes
<1>2. ~NoTmps(b) /\ MaxChunks >= 3 /\ ChunkNames(b) = <<>>
  BY <1>1, ChunkListing DEF Broken
<1>3. ChunkList(b) = TmpNames(b) /\ TmpNames(b) # <<>>
  BY <1>0, <1>2, TmpListing, ConcatEmptySeq DEF ChunkList
<1>4. Half \in Nat /\ 1 <= Half /\ Half <= MaxChunks - 1
  BY <1>2, GCSAssumption DEF Half
<1>5. \A k \in DOMAIN TmpNames(b) : TmpNames(b)[k][Len(TmpNames(b)[k])] \in 0..(Half - 1)
  <2> TAKE k \in DOMAIN TmpNames(b)
  <2>1. TmpNames(b)[k] \in Tmps
    BY <1>0
  <2>2. PICK l, i \in 0..(Half - 1) : TmpNames(b)[k] = Tmp(l, i)
    BY <2>1, InNames
  <2> QED
    BY <2>2, LastPart
<1>6. Indexes(b) \subseteq 0..(Half - 1)
  BY <1>3, <1>5, IndexesAre
<1>7. Indexes(b) # {}
  <2>1. Len(TmpNames(b)) \in Nat \ {0} /\ DOMAIN TmpNames(b) = 1..Len(TmpNames(b))
    BY <1>0, <1>3, EmptySeq, LenProperties
  <2>2. 1 \in DOMAIN TmpNames(b)
    BY <2>1
  <2> QED
    BY <1>3, <2>2, IndexesAre
<1>8. Max(Indexes(b)) \in 0..(Half - 1)
  <2>1. Half - 1 \in Nat
    BY <1>4
  <2> QED
    BY <1>6, <1>7, <2>1, MaxOf
<1> QED
  BY <1>4, <1>7, <1>8, GCSAssumption DEF NextIndex

(* One object is written or deleted. *)
Put(b, x, v, c) == c \in Buckets /\ c[x] = v /\ \A y \in Names : y # x => c[y] = b[y]

LEMMA PutNow ==
  ASSUME bucket \in Buckets, NEW x \in Names, NEW v \in Seq(Nat) \cup {NoObject},
         bucket' = [bucket EXCEPT ![x] = v]
  PROVE  Put(bucket, x, v, bucket')
BY DEF Buckets, Put

(* The next chunk follows on the others. *)
LEMMA WriteWhole ==
  ASSUME NEW b \in Buckets, NEW f \in Nat, NEW n, NEW m, Whole(b, f, n, m), NoTmps(b), n < MaxChunks,
         NEW s \in Nat, m + s <= f, NEW c, Put(b, Chunk(n), Bytes(m, s), c)
  PROVE  c \in Buckets /\ Whole(c, f, n + 1, m + s) /\ NoTmps(c) /\ c[Obj] = b[Obj]
<1>0. /\ n \in Nat /\ n + 1 \in 0..MaxChunks /\ n \in 0..(MaxChunks - 1) /\ m \in Nat /\ m + s \in 0..f
      /\ MaxChunks \in Nat /\ n + 1 \in Nat
  BY WholeFacts, GCSAssumption
<1>1. Chunk(n) \in Names /\ Bytes(m, s) \in Seq(Nat) /\ Bytes(m, s) # NoObject
  BY <1>0, InNames, BytesFacts, GCSAssumption
<1>2. c \in Buckets /\ c[Chunk(n)] = Bytes(m, s) /\ \A y \in Names : y # Chunk(n) => c[y] = b[y]
  BY DEF Put
<1>3. c[Obj] = b[Obj] /\ NoTmps(c)
  BY <1>2, InNames, Distinct DEF NoTmps
<1>4. \A i \in 0..(MaxChunks - 1) : i # n => c[Chunk(i)] = b[Chunk(i)]
  BY <1>2, InNames, Distinct
<1>5. PresentIn(c) = 0..((n + 1) - 1)
  <2>1. \A i \in 0..(MaxChunks - 1) : b[Chunk(i)] # NoObject <=> i < n
    BY WholeFacts
  <2>2. \A i \in 0..(MaxChunks - 1) : c[Chunk(i)] # NoObject <=> i <= n
    <3> TAKE i \in 0..(MaxChunks - 1)
    <3>1. CASE i = n
      BY <1>0, <1>1, <1>2, <3>1
    <3>2. CASE i # n
      BY <1>0, <1>4, <2>1, <3>2
    <3> QED
      BY <3>1, <3>2
  <2>3. PresentIn(c) = {i \in 0..(MaxChunks - 1) : i <= n}
    BY <2>2 DEF PresentIn
  <2>4. {i \in 0..(MaxChunks - 1) : i <= n} = 0..((n + 1) - 1)
    BY <1>0
  <2> QED
    BY <2>3, <2>4
<1> DEFINE list == FirstChunks(n)
           more == FirstChunks(n + 1)
<1>6. Readable(b, list) /\ Len(list) = n /\ \A k \in 1..n : list[k] = Chunk(k - 1)
  <2>1. Readable(b, list)
    BY WholeFacts
  <2>2. Len(list) = n /\ \A k \in 1..n : list[k] = Chunk(k - 1)
    BY <1>0, ListFacts, Zenon
  <2> QED
    BY <2>1, <2>2
<1>7. more = Append(list, Chunk(n))
  BY <1>0 DEF FirstChunks
<1>8. ConcatIn(b, list) = Bytes(0, m)
  BY DEF Whole
<1> HIDE DEF list, more
<1>9. Readable(c, list) /\ ConcatIn(c, list) = Bytes(0, m)
  <2>1. \A k \in 1..Len(list) : list[k] # Hole => c[list[k]] = b[list[k]]
    <3> TAKE k \in 1..Len(list)
    <3>1. k - 1 \in 0..(MaxChunks - 1) /\ k - 1 # n /\ k \in 1..n
      BY <1>0, <1>6
    <3> QED
      BY <1>4, <1>6, <3>1
  <2>2. Readable(b, list)
    BY <1>6
  <2>3. Readable(c, list) /\ ConcatIn(c, list) = ConcatIn(b, list)
    BY <2>1, <2>2, ConcatSame
  <2> QED
    BY <1>8, <2>3
<1>10. ReadIn(c, Chunk(n)) = Bytes(m, s)
  BY <1>2, Distinct DEF ReadIn
<1>11. ConcatIn(c, more) = Bytes(0, m) \o Bytes(m, s)
  BY <1>1, <1>7, <1>9, <1>10, ConcatMore
<1>12. ConcatIn(c, more) = Bytes(0, m + s)
  BY <1>0, <1>11, BytesNext
<1> QED
  BY <1>0, <1>2, <1>3, <1>5, <1>12 DEF Whole, more

LEMMA WriteSound ==
  ASSUME GCSInv, WriteChunk, Holes(FilterChunks) = {}, Sound(bucket, file)
  PROVE  \E n, m \in Nat :
           /\ Whole(bucket, file, n, m) /\ offset = m
           /\ bucket' \in Buckets /\ Whole(bucket', file, n + 1, m + sends) /\ NoTmps(bucket')
           /\ bucket'[Obj] = bucket[Obj]
<1> DEFINE next == NextIndex(bucket)
           data == Bytes(offset, sends)
<1>0. /\ pc = "write" /\ bucket \in Buckets /\ file \in Nat /\ offset \in Nat /\ sends \in Nat
      /\ offset + sends <= file /\ ~Exists(Chunk(MaxChunks - 1))
      /\ \A n, m \in Nat : Whole(bucket, file, n, m) => offset = m /\ NoTmps(bucket)
  BY Typed DEF WriteChunk, GCSInv, Knows
<1>1. bucket' = [bucket EXCEPT ![Chunk(next)] = data]
  BY ListsNow DEF WriteChunk, NextIndex, Indexes
<1>2. data \in Seq(Nat)
  BY <1>0, BytesFacts
<1>3. PICK n, m : Whole(bucket, file, n, m)
  BY DEF Sound
<1>4. n \in Nat /\ m \in Nat /\ offset = m /\ NoTmps(bucket) /\ n \in 0..MaxChunks
  BY <1>0, <1>3, WholeFacts, GCSAssumption
<1>5. n < MaxChunks
  <2>1. MaxChunks - 1 \in 0..(MaxChunks - 1)
    BY GCSAssumption
  <2>2. ~(MaxChunks - 1 < n)
    BY <1>0, <1>3, <2>1, WholeFacts DEF Exists
  <2> QED
    BY <1>4, <2>2, GCSAssumption
<1>6. next = n
  BY <1>0, <1>3, <1>4, NextOfWhole
<1> HIDE DEF next
<1>7. Put(bucket, Chunk(n), Bytes(m, sends), bucket') /\ m + sends <= file
  <2>1. n \in 0..(MaxChunks - 1)
    BY <1>4, <1>5, GCSAssumption
  <2>2. Chunk(n) \in Names
    BY <2>1, InNames
  <2> HIDE DEF data
  <2>3. Put(bucket, Chunk(n), data, bucket')
    BY <1>0, <1>1, <1>2, <1>6, <2>2, PutNow
  <2> QED
    BY <1>0, <1>4, <2>3 DEF data
<1>8. /\ bucket' \in Buckets /\ Whole(bucket', file, n + 1, m + sends) /\ NoTmps(bucket')
      /\ bucket'[Obj] = bucket[Obj]
  BY <1>0, <1>3, <1>4, <1>5, <1>7, WriteWhole
<1> QED
  BY <1>3, <1>4, <1>8

LEMMA WriteChunkKeeps == ASSUME GCSInv, WriteChunk PROVE GCSInv'
<1>0. /\ pc = "write" /\ info' = info /\ gone' = gone
      /\ bucket \in Buckets /\ file \in Nat /\ offset \in Nat /\ sends \in Nat
      /\ ~Exists(Obj) /\ offset + sends <= file /\ ~Exists(Chunk(MaxChunks - 1))
      /\ \A n, m \in Nat : Whole(bucket, file, n, m) => offset = m /\ NoTmps(bucket)
      /\ tmpSrcs = <<>> /\ lvl = 0
  BY Typed DEF WriteChunk, GCSInv, Knows
<1>1. CASE Holes(FilterChunks) # {}
  <2>1. Respond(FALSE) /\ UNCHANGED <<bucket, info, gone>>
    BY <1>1 DEF WriteChunk
  <2> QED
    BY <2>1, Ends
<1>2. CASE Holes(FilterChunks) = {}
  <2> DEFINE next == NextIndex(bucket)
             data == Bytes(offset, sends)
  <2>1. /\ bucket' = [bucket EXCEPT ![Chunk(next)] = data]
        /\ offset' = offset + sends /\ pc' = "finish"
        /\ sends' = sends /\ names' = names /\ tmpSrcs' = tmpSrcs /\ lvl' = lvl
        /\ clientOffset' = clientOffset /\ file' = file /\ races' = races
    BY <1>2, ListsNow DEF WriteChunk, NextIndex, Indexes, workVars, clientVars
  <2>2. Holes(ChunkList(bucket)) = {}
    BY <1>2, ListsNow
  <2>3. MaxChunks >= 3 \/ NoTmps(bucket)
    BY DEF GCSInv, ChunksOK
  <2>4. data \in Seq(Nat) /\ data # NoObject
    BY <1>0, BytesFacts, GCSAssumption
  <2>5. /\ bucket' \in Buckets /\ bucket'[Obj] = NoObject /\ offset' \in Nat
        /\ NoTmps(bucket') \/ MaxChunks >= 3
        /\ \/ Sound(bucket', file) /\ ~Broken(bucket')
           \/ Broken(bucket') /\ PresentIn(bucket') # {} /\ gone
        /\ \A n, m \in Nat : Whole(bucket', file, n, m) => offset' = m /\ NoTmps(bucket')
    <3>1. CASE Sound(bucket, file)
      <4>1. PICK n, m \in Nat :
              /\ Whole(bucket, file, n, m) /\ offset = m
              /\ bucket' \in Buckets /\ Whole(bucket', file, n + 1, m + sends) /\ NoTmps(bucket')
              /\ bucket'[Obj] = bucket[Obj]
        BY <1>2, <3>1, WriteSound
      <4>7. Sound(bucket', file)
        BY <4>1 DEF Sound, Whole
      <4>8. bucket'[Chunk(0)] # NoObject
        <5>1. 0 \in 0..(MaxChunks - 1) /\ 0 < n + 1
          BY GCSAssumption
        <5> QED
          BY <1>0, <4>1, <5>1, WholeFacts
      <4>9. \A n2, m2 \in Nat : Whole(bucket', file, n2, m2) => m2 = m + sends
        BY <1>0, <4>1, WholeOnce
      <4> QED
        <5>1. bucket'[Obj] = NoObject /\ ~Broken(bucket')
          BY <1>0, <4>1, <4>8 DEF Broken, Exists
        <5>2. offset' = m + sends /\ offset' \in Nat
          BY <1>0, <2>1, <4>1
        <5>3. \A n2, m2 \in Nat : Whole(bucket', file, n2, m2) => offset' = m2 /\ NoTmps(bucket')
          BY <4>1, <4>9, <5>2, Zenon
        <5> QED
          BY <4>1, <4>7, <5>1, <5>2, <5>3
    <3>2. CASE Broken(bucket)
      <4>1. next \in 1..(MaxChunks - 1) /\ next \in 0..(MaxChunks - 1) /\ 0 \in 0..(MaxChunks - 1) /\ next # 0
        <5>1. next \in 1..(MaxChunks - 1)
          BY <1>0, <2>2, <2>3, <3>2, NextOfBroken
        <5> HIDE DEF next
        <5> QED
          BY <5>1, GCSAssumption
      <4>2. Chunk(next) \in Names /\ Chunk(0) \in Names
        BY <4>1, InNames
      <4> HIDE DEF next, data
      <4>3. /\ bucket' \in Buckets /\ bucket'[Chunk(next)] = data
            /\ \A y \in Names : y # Chunk(next) => bucket'[y] = bucket[y]
        BY <1>0, <2>1, <2>4, <4>2, PutNow DEF Put
      <4>4. bucket'[Obj] = NoObject /\ bucket'[Chunk(0)] = NoObject /\ (NoTmps(bucket) => NoTmps(bucket'))
        BY <1>0, <3>2, <4>1, <4>2, <4>3, InNames, Distinct DEF NoTmps, Broken, Exists
      <4>5. next \in PresentIn(bucket')
        BY <2>4, <4>1, <4>3 DEF PresentIn
      <4>6. \A n, m : ~Whole(bucket', file, n, m)
        <5>1. SUFFICES ASSUME NEW n, NEW m, Whole(bucket', file, n, m) PROVE FALSE
          OBVIOUS
        <5>2. n \in 0..MaxChunks /\ \A i \in 0..(MaxChunks - 1) : bucket'[Chunk(i)] # NoObject <=> i < n
          BY <1>0, <4>3, <5>1, WholeFacts
        <5>3. next < n /\ ~(0 < n)
          BY <2>4, <4>1, <4>3, <4>4, <5>2
        <5> QED
          BY <4>1, <5>2, <5>3, GCSAssumption
      <4>7. gone
        BY <1>0, <3>2 DEF GCSInv, ChunksOK
      <4> QED
        <5>1. Broken(bucket') /\ PresentIn(bucket') # {}
          BY <4>4, <4>5 DEF Broken
        <5>2. offset' \in Nat
          BY <1>0, <2>1
        <5> QED
          BY <2>3, <4>3, <4>4, <4>6, <4>7, <5>1, <5>2
    <3> QED
      BY <3>1, <3>2, Typed
  <2> HIDE DEF next, data
  <2>6. TypeOK'
    BY <2>1, <2>5, <1>0 DEF GCSInv, TypeOK, Buckets
  <2>7. ObjectIsFile' /\ ChunksOK' /\ Lengths' /\ Told'
    <3>1. ObjectIsFile' /\ Told'
      BY <2>1, <2>5 DEF ObjectIsFile, Exists, Told
    <3>2. ChunksOK'
      BY <1>0, <2>1, <2>5 DEF ChunksOK
    <3>3. Lengths'
      BY <1>0, <2>1 DEF GCSInv, Lengths
    <3> QED
      BY <3>1, <3>2, <3>3
  <2>8. Knows'
    BY <1>0, <2>1, <2>5, ListsNow DEF Knows, Exists
  <2>9. Composes' /\ Deletes'
    BY <2>1 DEF Composes, Deletes, Deleting
  <2> QED
    BY <2>6, <2>7, <2>8, <2>9 DEF GCSInv
<1> QED
  BY <1>1, <1>2

(* In a listing the first chunk, if it is there, comes before the others. *)
LEMMA ListOrder ==
  ASSUME NEW b \in Buckets
  PROVE  /\ FirstGoesFirst(b, ChunkList(b)) /\ FirstGoesFirst(b, AllList(b))
         /\ \A k \in 1..Len(ChunkList(b)) : ChunkList(b)[k] # Obj
<1> DEFINE x == ChunkNames(b)
           y == TmpNames(b)
           list == ChunkList(b)
<1>1. /\ x \in Seq(Names \cup {Hole}) /\ y \in Seq(Tmps) /\ Len(x) \in Nat /\ Len(y) \in Nat
      /\ y \in Seq(Names \cup {Hole})
  BY ChunkListing, TmpListing, LenProperties DEF Readable
<1>2. \A k \in 1..Len(x) : x[k] = IF b[Chunk(k - 1)] # NoObject THEN Chunk(k - 1) ELSE Hole
  BY ChunkListing
<1>3. /\ Len(list) = Len(x) + Len(y)
      /\ \A k \in 1..(Len(x) + Len(y)) : list[k] = IF k <= Len(x) THEN x[k] ELSE y[k - Len(x)]
  BY <1>1, ConcatProperties DEF ChunkList
<1> HIDE DEF x, y, list
<1>4. ASSUME NEW k \in 1..Len(list)
      PROVE  \/ k \in 1..Len(x) /\ list[k] = x[k]
             \/ list[k] \in Tmps
  <2>1. CASE k <= Len(x)
    BY <1>1, <1>3, <2>1
  <2>2. CASE ~(k <= Len(x))
    <3>1. k - Len(x) \in 1..Len(y) /\ list[k] = y[k - Len(x)]
      BY <1>1, <1>3, <2>2
    <3> QED
      BY <1>1, <3>1, ElementOfSeq
  <2> QED
    BY <2>1, <2>2
<1>5. \A k \in 1..Len(list) : list[k] # Obj
  BY <1>2, <1>4, Distinct, InNames
<1>6. FirstGoesFirst(b, list)
  <2> SUFFICES ASSUME NEW k \in 1..Len(list), NEW i \in 1..(MaxChunks - 1), list[k] = Chunk(i),
                      b[Chunk(0)] # NoObject
               PROVE  \E j \in 1..(k - 1) : list[j] = Chunk(0)
    BY DEF FirstGoesFirst
  <2>1. k \in 1..Len(x) /\ x[k] = Chunk(i)
    BY <1>4, InNames
  <2>2. k - 1 = i
    BY <1>2, <2>1, Distinct
  <2>3. 1 \in 1..Len(x) /\ 1 \in 1..(k - 1) /\ 1 - 1 = 0 /\ 1 \in 1..(Len(x) + Len(y)) /\ 1 <= Len(x)
    BY <1>1, <2>1, <2>2, GCSAssumption
  <2>4. x[1] = IF b[Chunk(1 - 1)] # NoObject THEN Chunk(1 - 1) ELSE Hole
    BY <1>2, <2>3
  <2>5. list[1] = Chunk(0)
    BY <1>3, <2>3, <2>4
  <2> QED
    BY <2>3, <2>5
<1>7. FirstGoesFirst(b, AllList(b))
  <2>1. CASE b[Obj] = NoObject
    BY <1>6, <2>1 DEF AllList, list
  <2>2. CASE b[Obj] # NoObject
    <3>1. AllList(b) = <<Obj>>
      BY <2>2 DEF AllList
    <3>2. \A k \in 1..Len(AllList(b)) : AllList(b)[k] = Obj
      BY <3>1
    <3> QED
      BY <3>2, Distinct DEF FirstGoesFirst
  <2> QED
    BY <2>1, <2>2
<1> QED
  BY <1>5, <1>6, <1>7 DEF list

LEMMA FinishUploadKeeps == ASSUME GCSInv, FinishUpload PROVE GCSInv'
<1>0. /\ pc = "finish" /\ bucket' = bucket /\ info' = info /\ gone' = gone
      /\ ~Exists(Obj) /\ tmpSrcs = <<>> /\ lvl = 0 /\ info = file
      /\ \A n, m \in Nat : Whole(bucket, file, n, m) => offset = m /\ NoTmps(bucket)
      /\ Broken(bucket) => Present # {}
      /\ bucket \in Buckets /\ file \in Nat /\ offset \in Nat
  BY Typed DEF FinishUpload, GCSInv, Knows, Lengths
<1>1. CASE offset # info /\ Respond(TRUE)
  BY <1>0, <1>1, Ends
<1>2. CASE Respond(FALSE)
  BY <1>0, <1>2, Ends
<1>3. CASE /\ offset = info /\ FilterChunks # <<>> /\ names' = FilterChunks /\ pc' = "compose"
           /\ UNCHANGED <<reqVars, tmpSrcs, lvl, clientVars>>
  <2>1. /\ offset' = offset /\ sends' = sends /\ tmpSrcs' = <<>> /\ lvl' = 0
        /\ clientOffset' = clientOffset /\ file' = file /\ races' = races
        /\ names' = ChunkList(bucket) /\ names' # <<>> /\ pc' = "compose" /\ offset = file
    BY <1>0, <1>3, ListsNow DEF reqVars, clientVars
  <2>2. Readable(bucket, names')
    BY <1>0, <2>1, ListSum
  <2>3. TypeOK'
    BY <1>0, <2>1, <2>2 DEF GCSInv, TypeOK, Readable
  <2>4. ObjectIsFile' /\ ChunksOK' /\ Lengths' /\ Told' /\ Knows' /\ Deletes'
    BY <1>0, <2>1 DEF GCSInv, ObjectIsFile, ChunksOK, Lengths, Told, Knows, Deletes, Deleting, Exists
  <2>5. ASSUME Broken(bucket) PROVE names'[1] = Hole
    <3>1. PICK i \in PresentIn(bucket) : TRUE
      BY <1>0, <2>5, ListsNow
    <3>2. i \in Nat /\ i + 1 \in 1..Len(ChunkNames(bucket)) /\ Len(ChunkNames(bucket)) \in Nat
      BY <1>0, ChunkListing, GCSAssumption DEF PresentIn
    <3>3. 1 \in 1..Len(ChunkNames(bucket)) /\ 1 - 1 = 0
      BY <3>2
    <3>4. ChunkNames(bucket)[1] = IF bucket[Chunk(1 - 1)] # NoObject THEN Chunk(1 - 1) ELSE Hole
      BY <1>0, <3>3, ChunkListing
    <3>5. ChunkNames(bucket)[1] = Hole
      BY <2>5, <3>3, <3>4 DEF Broken
    <3>6. ChunkNames(bucket) \in Seq(Names \cup {Hole}) /\ TmpNames(bucket) \in Seq(Names \cup {Hole})
      BY <1>0, ChunkListing, TmpListing DEF Readable
    <3> QED
      BY <2>1, <3>3, <3>5, <3>6, ConcatProperties, LenProperties DEF ChunkList
  <2>6. ASSUME Sound(bucket, file) PROVE Composing'
    <3>1. PICK n, m : Whole(bucket, file, n, m)
      BY <2>6 DEF Sound
    <3>2. /\ n \in Nat /\ n <= MaxChunks /\ m \in Nat /\ m = file /\ NoTmps(bucket)
          /\ ChunkNames(bucket) = FirstChunks(n) /\ ConcatIn(bucket, ChunkNames(bucket)) = Bytes(0, m)
          /\ \A i \in 0..(MaxChunks - 1) : bucket[Chunk(i)] # NoObject <=> i < n
      <4>1. /\ n \in 0..MaxChunks /\ m \in Nat
            /\ ChunkNames(bucket) = FirstChunks(n) /\ ConcatIn(bucket, ChunkNames(bucket)) = Bytes(0, m)
            /\ \A i \in 0..(MaxChunks - 1) : bucket[Chunk(i)] # NoObject <=> i < n
        BY <1>0, <3>1, WholeFacts
      <4>2. n \in Nat /\ n <= MaxChunks
        BY <4>1, GCSAssumption
      <4> QED
        BY <1>0, <2>1, <3>1, <4>1, <4>2
    <3>3. names' = FirstChunks(n) /\ ConcatIn(bucket, names') = Bytes(0, file)
      BY <1>0, <2>1, <3>2, ListSum
    <3>4. Len(names') = n /\ \A k \in 1..n : names'[k] = Chunk(k - 1)
      BY <3>2, <3>3, ListFacts, Zenon
    <3>5. n > 0
      <4>1. n = 0 => FirstChunks(n) = <<>>
        BY DEF FirstChunks
      <4> QED
        BY <2>1, <3>2, <3>3, <4>1
    <3>6. AllThere(bucket, names')
      <4>1. \A k \in 1..n : k - 1 \in 0..(MaxChunks - 1) /\ k - 1 < n
        BY <3>2, GCSAssumption
      <4> QED
        BY <3>2, <3>4, <4>1 DEF AllThere
    <3>7. /\ \A l : TmpList(l, 0) = <<>>
          /\ Len(<<>>) = 0
          /\ SubSeq(names', 1, 0 * M) = <<>> /\ AllThere(bucket, <<>>)
      <4>1. 0 * M = 0
        BY GCSAssumption DEF M
      <4> QED
        BY <2>2, <4>1 DEF TmpList, AllThere, Readable
    <3>8. \A n2, m2 \in Nat : Whole(bucket, file, n2, m2) => m2 = file
      BY <1>0, <2>1
    <3>9. (names = Sources(Len(names)))'
      BY <2>1, <3>3, <3>4 DEF Sources
    <3>10. (Len(names) >= 3 => 2 * lvl + Len(names) <= MaxChunks)'
      BY <2>1, <3>2, <3>4
    <3> QED
      BY <1>0, <2>1, <3>2, <3>3, <3>4, <3>5, <3>6, <3>7, <3>8, <3>9, <3>10 DEF Composing
  <2>7. Composes'
    BY <1>0, <2>1, <2>5, <2>6 DEF Composes
  <2> QED
    BY <2>3, <2>4, <2>7 DEF GCSInv
<1> QED
  BY <1>1, <1>2, <1>3 DEF FinishUpload

LEMMA ComposeFailsKeeps == ASSUME GCSInv, ComposeFails PROVE GCSInv'
<1>1. Respond(FALSE) /\ UNCHANGED <<bucket, info, gone>>
  BY DEF ComposeFails
<1> QED
  BY <1>1, Ends

LEMMA SetObjectMetadataKeeps == ASSUME GCSInv, SetObjectMetadata PROVE GCSInv'
<1>1. Respond(TRUE) /\ UNCHANGED <<bucket, info, gone>> /\ offset = file /\ file \in Nat
  BY Typed DEF SetObjectMetadata, GCSInv, Deletes
<1>2. offset >= file
  BY <1>1
<1> QED
  BY <1>1, <1>2, Ends, Zenon

LEMMA RequestFailsKeeps == ASSUME GCSInv, RequestFails PROVE GCSInv'
<1>1. Respond(FALSE) /\ UNCHANGED <<bucket, info, gone>>
  BY DEF RequestFails
<1> QED
  BY <1>1, Ends

LEMMA TerminateKeeps == ASSUME GCSInv, Terminate PROVE GCSInv'
<1>1. /\ pc = "idle" /\ info # NoObject /\ names' = AllList(bucket) /\ gone' = TRUE /\ pc' = "terminate"
      /\ bucket' = bucket /\ info' = info /\ sends' = sends /\ offset' = offset
      /\ tmpSrcs' = tmpSrcs /\ lvl' = lvl
      /\ clientOffset' = clientOffset /\ file' = file /\ races' = races
  BY ListsNow DEF Terminate, reqVars, clientVars
<1>2. Readable(bucket, names') /\ FirstGoesFirst(bucket, names')
  BY <1>1, Typed, ListSum, ListOrder
<1>3. TypeOK'
  BY <1>1, <1>2 DEF GCSInv, TypeOK, Readable
<1>4. ObjectIsFile' /\ ChunksOK' /\ Lengths' /\ Told' /\ Knows' /\ Composes'
  BY <1>1 DEF GCSInv, ObjectIsFile, ChunksOK, Lengths, Told, Knows, Composes, Exists
<1>5. Deletes'
  BY <1>1, <1>2 DEF Deletes, Deleting
<1> QED
  BY <1>3, <1>4, <1>5 DEF GCSInv

(* Without the first chunk the upload is broken, or nothing is left. *)
LEMMA FirstMissing ==
  ASSUME NEW b \in Buckets, NEW f \in Nat, b[Chunk(0)] = NoObject, ~Broken(b)
  PROVE  Sound(b, f)
<1>1. PresentIn(b) = {} /\ NoTmps(b)
  BY DEF Broken
<1>2. FirstChunks(0) = <<>> /\ Bytes(0, 0) = <<>>
  BY DEF FirstChunks, Bytes
<1>3. 0 \in 0..MaxChunks /\ 0 \in 0..f /\ 0..(0 - 1) = {}
  BY GCSAssumption
<1>4. Whole(b, f, 0, 0)
  BY <1>1, <1>2, <1>3, ConcatNone DEF Whole
<1> QED
  BY <1>3, <1>4 DEF Sound

(* Only the chunks matter, and whether there are temporary objects. *)
LEMMA SoundSame ==
  ASSUME NEW b \in Buckets, NEW c \in Buckets, NEW f \in Nat, NEW n, NEW m, Whole(b, f, n, m),
         \A i \in 0..(MaxChunks - 1) : c[Chunk(i)] = b[Chunk(i)],
         m = f \/ NoTmps(c)
  PROVE  Whole(c, f, n, m)
<1>1. n \in 0..MaxChunks /\ n \in Nat /\ Readable(b, FirstChunks(n)) /\ MaxChunks \in Nat
  BY WholeFacts, GCSAssumption
<1>2. PresentIn(c) = PresentIn(b)
  BY DEF PresentIn
<1>3. Len(FirstChunks(n)) = n /\ \A k \in 1..n : FirstChunks(n)[k] = Chunk(k - 1)
  BY <1>1, ListFacts, Zenon
<1>4. \A k \in 1..Len(FirstChunks(n)) : FirstChunks(n)[k] # Hole => c[FirstChunks(n)[k]] = b[FirstChunks(n)[k]]
  <2> TAKE k \in 1..Len(FirstChunks(n))
  <2>1. k \in 1..n /\ k - 1 \in 0..(MaxChunks - 1)
    BY <1>1, <1>3
  <2> QED
    BY <1>3, <2>1
<1>5. ConcatIn(c, FirstChunks(n)) = ConcatIn(b, FirstChunks(n))
  <2> DEFINE list == FirstChunks(n)
  <2>1. Readable(b, list) /\ \A k \in 1..Len(list) : list[k] # Hole => c[list[k]] = b[list[k]]
    BY <1>1, <1>4
  <2> HIDE DEF list
  <2>2. ConcatIn(c, list) = ConcatIn(b, list)
    BY <2>1, ConcatSame
  <2> QED
    BY <2>2 DEF list
<1> QED
  BY <1>2, <1>5 DEF Whole

LEMMA DeleteObjectKeeps == ASSUME GCSInv, DeleteObject PROVE GCSInv'
<1>0. /\ Deleting /\ names # <<>> /\ info' = info /\ gone' = gone
      /\ bucket \in Buckets /\ file \in Nat /\ names \in Seq(Names \cup {Hole})
      /\ FirstGoesFirst(bucket, names)
  BY Typed DEF DeleteObject, GCSInv, Deletes
<1>1. CASE Head(names) = Hole
  <2>1. Respond(FALSE) /\ UNCHANGED <<bucket, info, gone>>
    BY <1>1 DEF DeleteObject
  <2> QED
    BY <2>1, Ends
<1>2. CASE Head(names) # Hole
  <2> DEFINE x == Head(names)
  <2>1. /\ bucket' = [bucket EXCEPT ![x] = NoObject] /\ names' = Tail(names)
        /\ pc' = pc /\ offset' = offset /\ sends' = sends /\ tmpSrcs' = tmpSrcs /\ lvl' = lvl
        /\ clientOffset' = clientOffset /\ file' = file /\ races' = races
    BY <1>2 DEF DeleteObject, reqVars, clientVars
  <2>2. x \in Names /\ x = names[1] /\ Len(names) \in Nat \ {0} /\ 1 \in 1..Len(names)
    BY <1>0, <1>2
  <2>3. /\ names' \in Seq(Names \cup {Hole}) /\ Len(names') = Len(names) - 1
        /\ \A k \in 1..(Len(names) - 1) : names'[k] = names[k + 1]
    BY <1>0, <2>1
  <2> HIDE DEF x
  <2>4. Put(bucket, x, NoObject, bucket')
    BY <1>0, <2>1, <2>2, PutNow
  <2>5. bucket' \in Buckets /\ bucket'[x] = NoObject /\ \A y \in Names : y # x => bucket'[y] = bucket[y]
    BY <2>4 DEF Put
  <2>6. \A y \in Names : bucket'[y] = bucket[y] \/ bucket'[y] = NoObject
    BY <2>5
  <2>7. NoTmps(bucket) => NoTmps(bucket')
    BY <2>6, InNames DEF NoTmps
  <2>8. gone \/ Exists(Obj)'
    <3>1. CASE pc = "terminate"
      BY <3>1 DEF GCSInv, Deletes
    <3>2. CASE pc \in {"deleteTmp", "deleteChunks"}
      <4>1. x # Obj
        <5>1. CASE pc = "deleteTmp"
          BY <2>2, <5>1, ElementOfSeq, InNames DEF GCSInv, Deletes
        <5>2. CASE pc = "deleteChunks"
          BY <2>2, <5>2 DEF GCSInv, Deletes
        <5> QED
          BY <3>2, <5>1, <5>2
      <4>2. bucket'[Obj] = bucket[Obj] /\ bucket[Obj] # NoObject
        BY <2>5, <3>2, <4>1, InNames DEF GCSInv, Deletes, Exists
      <4> QED
        BY <4>2 DEF Exists
    <3> QED
      BY <1>0, <3>1, <3>2 DEF Deleting
  <2>9. Sound(bucket', file) \/ Broken(bucket')
    <3>1. CASE bucket'[Chunk(0)] = NoObject
      BY <1>0, <2>5, <3>1, FirstMissing
    <3>2. CASE bucket'[Chunk(0)] # NoObject
      <4>1. 0 \in 0..(MaxChunks - 1) /\ Chunk(0) \in Names
        BY InNames, GCSAssumption
      <4>2. x # Chunk(0) /\ bucket[Chunk(0)] # NoObject
        BY <2>5, <3>2, <4>1
      <4>3. ASSUME NEW i \in 0..(MaxChunks - 1) PROVE bucket'[Chunk(i)] = bucket[Chunk(i)]
        <5>1. x # Chunk(i)
          <6>1. CASE i = 0
            BY <4>2, <6>1
          <6>2. CASE i # 0
            <7>1. i \in 1..(MaxChunks - 1) /\ 1..(1 - 1) = {}
              BY <6>2, GCSAssumption
            <7>2. names[1] = Chunk(i) => bucket[Chunk(0)] = NoObject \/ \E j \in 1..(1 - 1) : names[j] = Chunk(0)
              BY <1>0, <2>2, <7>1 DEF FirstGoesFirst
            <7> QED
              BY <2>2, <4>2, <7>1, <7>2
          <6> QED
            BY <6>1, <6>2
        <5> QED
          BY <2>5, <5>1, InNames
      <4>4. Sound(bucket, file)
        BY <4>2, Typed DEF Broken
      <4>5. PICK n \in 0..MaxChunks, m \in 0..file : Whole(bucket, file, n, m)
        BY <4>4 DEF Sound
      <4>6. m = file \/ NoTmps(bucket')
        BY <2>7, <4>5 DEF Whole
      <4>7. Whole(bucket', file, n, m)
        BY <1>0, <2>5, <4>3, <4>5, <4>6, SoundSame
      <4> QED
        BY <4>7 DEF Sound
    <3> QED
      BY <3>1, <3>2
  <2>10. FirstGoesFirst(bucket', names')
    <3> SUFFICES ASSUME NEW k \in 1..Len(names'), NEW i \in 1..(MaxChunks - 1), names'[k] = Chunk(i),
                        bucket'[Chunk(0)] # NoObject
                 PROVE  \E j \in 1..(k - 1) : names'[j] = Chunk(0)
      BY DEF FirstGoesFirst
    <3>1. k + 1 \in 1..Len(names) /\ names[k + 1] = Chunk(i) /\ k \in Nat
      BY <2>2, <2>3
    <3>2. 0 \in 0..(MaxChunks - 1) /\ Chunk(0) \in Names
      BY InNames, GCSAssumption
    <3>3. x # Chunk(0) /\ bucket[Chunk(0)] # NoObject
      BY <2>5, <3>2
    <3>4. PICK j \in 1..((k + 1) - 1) : names[j] = Chunk(0)
      BY <1>0, <3>1, <3>3 DEF FirstGoesFirst
    <3>5. j # 1
      BY <2>2, <3>3, <3>4
    <3>6. j - 1 \in 1..(k - 1) /\ j - 1 \in 1..(Len(names) - 1) /\ (j - 1) + 1 = j
      BY <2>2, <2>3, <3>1, <3>4, <3>5
    <3>7. names'[j - 1] = Chunk(0)
      BY <2>3, <3>4, <3>6
    <3> QED
      BY <3>6, <3>7
  <2>11. TypeOK'
    <3>1. bucket' \in [Names -> Seq(Nat) \cup {NoObject}]
      BY <2>5 DEF Buckets
    <3> QED
      BY <1>0, <2>1, <2>3, <3>1 DEF GCSInv, TypeOK
  <2>12. ObjectIsFile'
    BY <2>1, <2>6, InNames DEF GCSInv, ObjectIsFile, Exists
  <2>13. ChunksOK'
    BY <1>0, <2>1, <2>7, <2>8, <2>9 DEF GCSInv, ChunksOK
  <2>14. Lengths' /\ Told' /\ Knows' /\ Composes'
    BY <1>0, <2>1 DEF GCSInv, Lengths, Told, Knows, Composes, Deleting
  <2>15. Deletes'
    <3>1. pc = "deleteTmp" => names' \in Seq(Tmps)
      BY <1>0, <2>1 DEF GCSInv, Deletes
    <3>2. pc = "deleteChunks" => \A k \in 1..Len(names') : names'[k] # Obj
      <4> SUFFICES ASSUME pc = "deleteChunks", NEW k \in 1..Len(names') PROVE names'[k] # Obj
        OBVIOUS
      <4>1. k + 1 \in 1..Len(names) /\ names'[k] = names[k + 1]
        BY <2>2, <2>3
      <4> QED
        BY <4>1 DEF GCSInv, Deletes
    <3>3. pc \in {"deleteTmp", "deleteChunks"} => Exists(Obj)'
      <4>1. ASSUME pc \in {"deleteTmp", "deleteChunks"} PROVE x # Obj
        <5>1. CASE pc = "deleteTmp"
          BY <2>2, <5>1, ElementOfSeq, InNames DEF GCSInv, Deletes
        <5>2. CASE pc = "deleteChunks"
          BY <2>2, <5>2 DEF GCSInv, Deletes
        <5> QED
          BY <4>1, <5>1, <5>2
      <4> QED
        BY <2>5, <4>1, InNames DEF GCSInv, Deletes, Exists
    <3>4. pc # "metadata" /\ pc' = pc
      BY <1>0, <2>1 DEF Deleting
    <3> QED
      BY <1>0, <2>1, <2>10, <3>1, <3>2, <3>3, <3>4 DEF GCSInv, Deletes, Deleting
  <2> QED
    BY <2>11, <2>12, <2>13, <2>14, <2>15 DEF GCSInv
<1> QED
  BY <1>1, <1>2

LEMMA DeletedKeeps == ASSUME GCSInv, Deleted PROVE GCSInv'
<1>0. Deleting /\ names = <<>> /\ bucket' = bucket /\ gone' = gone /\ bucket \in Buckets /\ offset \in Nat
  BY Typed DEF Deleted
<1>1. CASE /\ pc = "deleteTmp" /\ names' = FilterChunks /\ pc' = "deleteChunks"
           /\ UNCHANGED <<info, reqVars, tmpSrcs, lvl, clientVars>>
  <2>1. /\ names' = ChunkList(bucket) /\ info' = info /\ offset' = offset /\ sends' = sends
        /\ tmpSrcs' = tmpSrcs /\ lvl' = lvl
        /\ clientOffset' = clientOffset /\ file' = file /\ races' = races
    BY <1>1, ListsNow DEF reqVars, clientVars
  <2>2. /\ Readable(bucket, names') /\ FirstGoesFirst(bucket, names')
        /\ \A k \in 1..Len(names') : names'[k] # Obj
    BY <1>0, <2>1, ListSum, ListOrder
  <2>3. TypeOK'
    BY <1>0, <1>1, <2>1, <2>2 DEF GCSInv, TypeOK, Readable
  <2>4. ObjectIsFile' /\ ChunksOK' /\ Lengths' /\ Told' /\ Knows' /\ Composes'
    BY <1>0, <1>1, <2>1 DEF GCSInv, ObjectIsFile, ChunksOK, Lengths, Told, Knows, Composes, Exists
  <2>5. Deletes'
    BY <1>0, <1>1, <2>1, <2>2 DEF GCSInv, Deletes, Deleting, Exists
  <2> QED
    BY <2>3, <2>4, <2>5 DEF GCSInv
<1>2. CASE pc = "deleteChunks" /\ pc' = "metadata" /\ UNCHANGED <<info, reqVars, workVars, clientVars>>
  <2>1. /\ names' = names /\ info' = info /\ offset' = offset /\ sends' = sends
        /\ tmpSrcs' = tmpSrcs /\ lvl' = lvl
        /\ clientOffset' = clientOffset /\ file' = file /\ races' = races
    BY <1>2 DEF reqVars, workVars, clientVars
  <2>2. TypeOK'
    BY <1>0, <1>2, <2>1 DEF GCSInv, TypeOK
  <2>3. ObjectIsFile' /\ ChunksOK' /\ Lengths' /\ Told' /\ Knows' /\ Composes'
    BY <1>0, <1>2, <2>1 DEF GCSInv, ObjectIsFile, ChunksOK, Lengths, Told, Knows, Composes, Exists
  <2>4. Deletes'
    BY <1>0, <1>2, <2>1 DEF GCSInv, Deletes, Deleting, Exists
  <2> QED
    BY <2>2, <2>3, <2>4 DEF GCSInv
<1>3. CASE pc = "terminate" /\ info' = NoObject /\ Respond(TRUE)
  <2>1. /\ pc' = "idle" /\ sends' = 0 /\ offset' = 0 /\ names' = <<>> /\ tmpSrcs' = <<>> /\ lvl' = 0
        /\ clientOffset' = offset /\ file' = file /\ races' = races /\ info' = NoObject
    BY <1>3 DEF Respond
  <2>2. TypeOK'
    BY <1>0, <2>1 DEF GCSInv, TypeOK
  <2>3. ObjectIsFile' /\ ChunksOK' /\ Lengths' /\ Told'
    BY <1>0, <2>1 DEF GCSInv, ObjectIsFile, ChunksOK, Lengths, Told, Exists
  <2>4. Knows' /\ Composes' /\ Deletes'
    BY <2>1 DEF Knows, Composes, Deletes, Deleting
  <2> QED
    BY <2>2, <2>3, <2>4 DEF GCSInv
<1> QED
  BY <1>1, <1>2, <1>3 DEF Deleted

-----------------------------------------------------------------------------
(* recursiveCompose.  The number of groups, and where they end. *)

LEMMA GroupMath ==
  ASSUME NEW L \in Nat, NEW d \in Nat \ {0, 1}, L > d, NEW q, q = (L + d - 1) \div d
  PROVE  /\ q \in Nat /\ q >= 2 /\ 2 * q <= L + 1
         /\ \A i \in 0..(q - 1) :
              LET e == IF q - i = 1 THEN L ELSE (i + 1) * d
              IN  i * d \in Nat /\ e \in Nat /\ i * d < e /\ e <= L
<1>1. L + d - 1 \in Nat /\ q \in Nat /\ q * d <= L + d - 1 /\ L + d - 1 < (q + 1) * d
  OBVIOUS
<1>2. (q + 1) * d = q * d + d /\ (q - 1) * d = q * d - d /\ q * d \in Nat
  BY <1>1
<1>3. L <= q * d /\ (q - 1) * d <= L - 1
  BY <1>1, <1>2
<1>4. q >= 2
  <2>1. q = 0 => q * d = 0
    BY <1>1
  <2>2. q = 1 => q * d = d
    BY <1>1
  <2> QED
    BY <1>1, <1>3, <2>1, <2>2
<1>5. 2 * (q - 1) <= (q - 1) * d
  BY <1>1, <1>4
<1>6. 2 * q <= L + 1
  BY <1>1, <1>3, <1>5
<1>7. ASSUME NEW i \in 0..(q - 1)
      PROVE  LET e == IF q - i = 1 THEN L ELSE (i + 1) * d
             IN  i * d \in Nat /\ e \in Nat /\ i * d < e /\ e <= L
  <2>1. i \in Nat /\ i * d \in Nat /\ (i + 1) * d = i * d + d
    BY <1>1
  <2>2. CASE q - i = 1
    <3>1. i = q - 1
      BY <1>1, <2>1, <2>2
    <3> QED
      BY <1>3, <2>1, <2>2, <3>1
  <2>3. CASE q - i # 1
    <3>1. i + 1 <= q - 1
      BY <1>1, <2>1, <2>3
    <3>2. (i + 1) * d <= (q - 1) * d
      BY <1>1, <2>1, <3>1
    <3> QED
      BY <1>1, <1>2, <1>3, <2>1, <2>3, <3>2
  <2> QED
    BY <2>2, <2>3
<1> QED
  BY <1>1, <1>4, <1>6, <1>7

(* A part of a list. *)
LEMMA ReadablePart ==
  ASSUME NEW b, NEW list, Readable(b, list), NEW j \in Nat \ {0}, NEW k \in Nat, k <= Len(list)
  PROVE  Readable(b, SubSeq(list, j, k))
<1> DEFINE N == Names \cup {Hole}
           part == SubSeq(list, j, k)
<1>1. list \in Seq(N) /\ \A i \in 1..Len(list) : list[i] \in N /\ ReadIn(b, list[i]) \in Seq(Nat)
  BY ElementOfSeq DEF Readable
<1>2. Len(list) \in Nat
  BY <1>1, LenProperties
<1> HIDE DEF N
<1>3. \A i \in j..k : list[i] \in N
  BY <1>1, <1>2
<1>4. /\ part \in Seq(N) /\ Len(part) = (IF j <= k THEN k - j + 1 ELSE 0)
      /\ \A i \in 1..(k - j + 1) : part[i] = list[j + i - 1]
  BY <1>3, SubSeqProperties
<1> HIDE DEF part
<1>5. ASSUME NEW i \in 1..Len(part) PROVE ReadIn(b, part[i]) \in Seq(Nat)
  <2>1. i \in 1..(k - j + 1) /\ j + i - 1 \in 1..Len(list)
    BY <1>2, <1>4
  <2> QED
    BY <1>1, <1>4, <2>1
<1> QED
  BY <1>4, <1>5 DEF Readable, N, part

(* A request that composes, and has all its sources, has the first chunk;  *)
(* so what it composes is the file.                                        *)
LEMMA AtCompose ==
  ASSUME GCSInv, pc = "compose",
         Composable(IF Len(names) > M THEN group(Len(tmpSrcs)) ELSE names)
  PROVE  /\ Composing /\ ~Broken(bucket) /\ Sound(bucket, file) /\ offset = file
         /\ Readable(bucket, names) /\ Readable(bucket, tmpSrcs)
<1>0. /\ bucket \in Buckets /\ names \in Seq(Names \cup {Hole}) /\ tmpSrcs \in Seq(Tmps)
      /\ Len(names) \in Nat /\ offset = file /\ M \in Nat \ {0, 1}
  BY Typed, LenProperties, GCSAssumption DEF GCSInv, Composes, M
<1>1. ~Broken(bucket)
  <2>1. SUFFICES ASSUME Broken(bucket) PROVE FALSE
    OBVIOUS
  <2>2. names # <<>> /\ names[1] = Hole /\ tmpSrcs = <<>>
    BY <2>1 DEF GCSInv, Composes
  <2>3. Len(names) >= 1
    BY <1>0, <2>2, EmptySeq
  <2>4. CASE ~(Len(names) > M)
    <3>1. 1 \in 1..Len(names)
      BY <1>0, <2>3
    <3> QED
      BY <2>2, <2>4, <3>1 DEF Composable
  <2>5. CASE Len(names) > M
    <3> DEFINE q == tmpSrcLen
               e == IF q - 0 = 1 THEN Len(names) ELSE (0 + 1) * M
               g == SubSeq(names, 0 * M + 1, e)
    <3>1. q \in Nat /\ q >= 2
      BY <1>0, <2>5, GroupMath DEF tmpSrcLen, M
    <3>2. e = M /\ 0 * M + 1 = 1
      BY <1>0, <3>1
    <3>3. group(Len(tmpSrcs)) = g
      BY <2>2 DEF group, M
    <3>4. g = SubSeq(names, 1, M)
      BY <3>2
    <3> HIDE DEF g, e, q
    <3>5. Len(g) = M /\ g[1] = names[1]
      BY <1>0, <2>5, <3>4
    <3>6. 1 \in 1..Len(g)
      BY <1>0, <3>5
    <3> QED
      BY <2>2, <2>5, <3>3, <3>5, <3>6 DEF Composable
  <2> QED
    BY <2>4, <2>5
<1>2. Sound(bucket, file) /\ Composing
  BY <1>1, Typed DEF GCSInv, Composes
<1>3. ASSUME NEW x \in Names, bucket[x] # NoObject PROVE ReadIn(bucket, x) \in Seq(Nat)
  BY <1>0, <1>3, InNames DEF ReadIn, Buckets
<1>4. Readable(bucket, names)
  <2>1. \A k \in 1..Len(names) : bucket[names[k]] # NoObject /\ names[k] \in Names \cup {Hole}
    BY <1>0, <1>2, ElementOfSeq DEF Composing, AllThere
  <2>2. \A k \in 1..Len(names) : ReadIn(bucket, names[k]) \in Seq(Nat)
    <3> TAKE k \in 1..Len(names)
    <3>1. CASE names[k] = Hole
      BY <3>1 DEF ReadIn
    <3>2. CASE names[k] # Hole
      BY <1>3, <2>1, <3>2
    <3> QED
      BY <3>1, <3>2
  <2> QED
    BY <1>0, <2>2 DEF Readable
<1>5. Readable(bucket, tmpSrcs)
  <2>1. \A k \in 1..Len(tmpSrcs) : bucket[tmpSrcs[k]] # NoObject /\ tmpSrcs[k] \in Names
    BY <1>0, <1>2, InNames, ElementOfSeq DEF Composing, AllThere
  <2>2. tmpSrcs \in Seq(Names \cup {Hole})
    BY <1>0, SeqMonotonic, InNames
  <2> QED
    BY <1>3, <2>1, <2>2 DEF Readable
<1> QED
  BY <1>0, <1>1, <1>2, <1>4, <1>5

LEMMA ComposeLastKeeps ==
  ASSUME GCSInv, ComposeLast
  PROVE  GCSInv' /\ Sound(bucket, file) /\ Composing /\ bucket'[Obj] = Bytes(0, file)
<1>0. /\ pc = "compose" /\ bucket' = [bucket EXCEPT ![Obj] = ConcatIn(bucket, names)]
      /\ names' = TmpNames(bucket) /\ pc' = "deleteTmp" /\ info' = info /\ gone' = gone
      /\ offset' = offset /\ sends' = sends /\ tmpSrcs' = tmpSrcs /\ lvl' = lvl
      /\ clientOffset' = clientOffset /\ file' = file /\ races' = races
      /\ bucket \in Buckets /\ file \in Nat
  BY ListsNow, ConcatNow, Typed DEF ComposeLast, reqVars, clientVars
<1>1. Composable(IF Len(names) > M THEN group(Len(tmpSrcs)) ELSE names)
  BY Typed, LenProperties, GCSAssumption DEF ComposeLast, M
<1>2. Composing /\ ~Broken(bucket) /\ Sound(bucket, file) /\ offset = file
  BY <1>0, <1>1, AtCompose
<1>3. ConcatIn(bucket, names) = Bytes(0, file) /\ Bytes(0, file) \in Seq(Nat)
  BY <1>0, <1>2, BytesFacts DEF Composing
<1>4. Put(bucket, Obj, Bytes(0, file), bucket')
  <2>1. Obj \in Names /\ Bytes(0, file) \in Seq(Nat) \cup {NoObject}
    BY <1>3, InNames
  <2> QED
    BY <1>0, <1>3, <2>1, PutNow
<1>5. bucket' \in Buckets /\ bucket'[Obj] = Bytes(0, file) /\ \A y \in Names : y # Obj => bucket'[y] = bucket[y]
  BY <1>4 DEF Put
<1>6. \A i \in 0..(MaxChunks - 1) : bucket'[Chunk(i)] = bucket[Chunk(i)]
  BY <1>5, InNames, Distinct
<1>7. NoTmps(bucket') <=> NoTmps(bucket)
  BY <1>5, InNames DEF NoTmps
<1>8. Sound(bucket', file) /\ ~Broken(bucket')
  <2>1. PICK n \in 0..MaxChunks, m \in 0..file : Whole(bucket, file, n, m)
    BY <1>2 DEF Sound
  <2>2. m = file \/ NoTmps(bucket')
    BY <1>7, <2>1 DEF Whole
  <2>3. Whole(bucket', file, n, m)
    BY <1>0, <1>5, <1>6, <2>1, <2>2, SoundSame
  <2>4. PresentIn(bucket') = PresentIn(bucket) /\ bucket'[Chunk(0)] = bucket[Chunk(0)]
    <3>1. 0 \in 0..(MaxChunks - 1)
      BY GCSAssumption
    <3> QED
      BY <1>6, <3>1 DEF PresentIn
  <2> QED
    BY <1>2, <1>7, <2>3, <2>4 DEF Sound, Broken
<1>9. names' \in Seq(Tmps) /\ names' \in Seq(Names \cup {Hole})
  BY <1>0, TmpListing DEF Readable
<1>10. FirstGoesFirst(bucket', names')
  <2>1. \A k \in 1..Len(names') : names'[k] \in Tmps
    BY <1>9, ElementOfSeq
  <2> QED
    BY <2>1, InNames DEF FirstGoesFirst
<1>11. TypeOK'
  <2>1. bucket' \in [Names -> Seq(Nat) \cup {NoObject}]
    BY <1>5 DEF Buckets
  <2> QED
    BY <1>0, <1>9, <2>1 DEF GCSInv, TypeOK
<1>12. Exists(Obj)' /\ ObjectIsFile'
  BY <1>0, <1>3, <1>5, GCSAssumption DEF ObjectIsFile, Exists
<1>13. ChunksOK'
  BY <1>0, <1>7, <1>8 DEF GCSInv, ChunksOK
<1>14. Lengths' /\ Told' /\ Knows' /\ Composes'
  BY <1>0 DEF GCSInv, Lengths, Told, Knows, Composes
<1>15. Deletes'
  BY <1>0, <1>2, <1>9, <1>10, <1>12 DEF Deletes, Deleting
<1> QED
  BY <1>2, <1>5, <1>11, <1>12, <1>13, <1>14, <1>15 DEF GCSInv

(* The temporary object of a group is a new name, and there is room. *)
LEMMA GroupFacts ==
  ASSUME GCSInv, ComposeGroup
  PROVE  LET i == Len(tmpSrcs)
             q == tmpSrcLen
             L == Len(names)
             e == IF q - i = 1 THEN L ELSE (i + 1) * M
         IN  /\ L \in Nat /\ L >= 3 /\ L <= MaxChunks /\ i \in Nat /\ q \in Nat /\ i < q /\ 2 * q <= L + 1
             /\ i * M \in Nat /\ e \in Nat /\ i * M < e /\ e <= L /\ group(i) = SubSeq(names, i * M + 1, e)
             /\ 2 * lvl + L <= MaxChunks
             /\ lvl \in 0..(Half - 1) /\ i \in 0..(Half - 1) /\ Tmp(lvl, i) \in Tmps
<1> DEFINE i == Len(tmpSrcs)
           q == tmpSrcLen
           L == Len(names)
           e == IF q - i = 1 THEN L ELSE (i + 1) * M
<1>0. /\ pc = "compose" /\ L > M /\ Composable(group(i)) /\ M \in Nat \ {0, 1} /\ L \in Nat /\ i \in Nat
      /\ lvl \in Nat /\ MaxChunks \in Nat
  BY Typed, LenProperties, GCSAssumption DEF ComposeGroup, M
<1>1. Composing
  BY <1>0, AtCompose
<1>2. L <= MaxChunks /\ (L >= 3 => 2 * lvl + L <= MaxChunks) /\ (i = 0 \/ i < q)
  BY <1>1 DEF Composing
<1>3. /\ q \in Nat /\ q >= 2 /\ 2 * q <= L + 1
      /\ \A j \in 0..(q - 1) :
           LET x == IF q - j = 1 THEN L ELSE (j + 1) * M
           IN  j * M \in Nat /\ x \in Nat /\ j * M < x /\ x <= L
  BY <1>0, GroupMath DEF tmpSrcLen, M
<1>4. group(i) = SubSeq(names, i * M + 1, e)
  BY DEF group, M
<1> HIDE DEF q, L, i
<1>5. i \in 0..(q - 1)
  BY <1>0, <1>2, <1>3
<1>6. i * M \in Nat /\ e \in Nat /\ i * M < e /\ e <= L
  BY <1>3, <1>5
<1> HIDE DEF e
<1>7. L >= 3 /\ 2 * lvl + L <= MaxChunks /\ i < q
  BY <1>0, <1>2, <1>5, <1>3
<1>8. lvl \in 0..(Half - 1) /\ i \in 0..(Half - 1)
  <2>1. Half \in Nat /\ 2 * Half >= MaxChunks + 1
    BY InNames
  <2> QED
    BY <1>0, <1>2, <1>3, <1>7, <2>1
<1>9. Tmp(lvl, i) \in Tmps
  BY <1>8, InNames
<1> QED
  BY <1>0, <1>2, <1>3, <1>4, <1>6, <1>7, <1>8, <1>9 DEF q, L, i, e

(* The objects composed so far are the data of the sources so far. *)
LEMMA GroupJoins ==
  ASSUME GCSInv, ComposeGroup
  PROVE  LET i == Len(tmpSrcs)
             e == IF tmpSrcLen - i = 1 THEN Len(names) ELSE (i + 1) * M
             srcs == Append(tmpSrcs, Tmp(lvl, i))
         IN  /\ Put(bucket, Tmp(lvl, i), ConcatIn(bucket, group(i)), bucket')
             /\ ConcatIn(bucket, group(i)) \in Seq(Nat)
             /\ srcs = TmpList(lvl, i + 1) /\ AllThere(bucket', srcs)
             /\ AllThere(bucket', names)
             /\ ConcatIn(bucket', names) = Bytes(0, file)
             /\ ConcatIn(bucket', srcs) = ConcatIn(bucket', SubSeq(names, 1, e))
<1> DEFINE i == Len(tmpSrcs)
           e == IF tmpSrcLen - i = 1 THEN Len(names) ELSE (i + 1) * M
           t == Tmp(lvl, i)
           srcs == Append(tmpSrcs, t)
           g == group(i)
           first == SubSeq(names, 1, i * M)
           upto == SubSeq(names, 1, e)
           N == Names \cup {Hole}
<1>0. /\ pc = "compose" /\ Len(names) > M /\ Composable(group(i))
      /\ bucket' = [bucket EXCEPT ![t] = ConcatIn(bucket, g)]
      /\ bucket \in Buckets /\ names \in Seq(N) /\ tmpSrcs \in Seq(Tmps) /\ NoObject \notin Seq(Nat)
  BY Typed, ConcatNow DEF ComposeGroup, M
<1>1. Composing /\ Readable(bucket, names) /\ Readable(bucket, tmpSrcs)
  BY <1>0, AtCompose
<1>2. /\ Len(names) \in Nat /\ i \in Nat /\ i * M \in Nat /\ e \in Nat /\ i * M < e /\ e <= Len(names)
      /\ g = SubSeq(names, i * M + 1, e) /\ t \in Tmps /\ lvl \in Nat
  BY GroupFacts, Typed
<1> HIDE DEF e, i
<1>3. Readable(bucket, g) /\ Readable(bucket, first) /\ Readable(bucket, upto)
  <2>1. i * M + 1 \in Nat \ {0} /\ 1 \in Nat \ {0} /\ i * M <= Len(names)
    BY <1>2
  <2> QED
    BY <1>1, <1>2, <2>1, ReadablePart
<1>4. upto = first \o g
  <2>1. 1 \in 1..(Len(names) + 1) /\ i * M \in (1 - 1)..Len(names) /\ e \in (i * M)..Len(names)
    BY <1>2
  <2>2. first \o SubSeq(names, i * M + 1, e) = upto
    BY <1>0, <2>1, ConcatAdjacentSubSeq
  <2> QED
    BY <1>2, <2>2
<1> HIDE DEF g, first, upto
<1>5. /\ ConcatIn(bucket, upto) = ConcatIn(bucket, first) \o ConcatIn(bucket, g)
      /\ ConcatIn(bucket, g) \in Seq(Nat)
  BY <1>3, <1>4, ConcatJoin, PiecesFacts
<1>6. t \in Names /\ t # Hole
  BY <1>2, InNames
<1>7. Put(bucket, t, ConcatIn(bucket, g), bucket')
  <2>1. ConcatIn(bucket, g) \in Seq(Nat) \cup {NoObject}
    BY <1>5
  <2> HIDE DEF t
  <2> QED
    BY <1>0, <1>6, <2>1, PutNow
<1>8. /\ bucket' \in Buckets /\ bucket'[t] = ConcatIn(bucket, g) /\ bucket'[t] # NoObject
      /\ \A y \in Names : y # t => bucket'[y] = bucket[y]
  BY <1>0, <1>5, <1>7 DEF Put
<1>9. \A k \in 1..Len(names) : names[k] # t /\ names[k] # Hole /\ bucket[names[k]] # NoObject
  <2>1. /\ names = (IF lvl = 0 THEN FirstChunks(Len(names)) ELSE TmpList(lvl - 1, Len(names)))
        /\ AllThere(bucket, names)
    BY <1>1 DEF Composing, Sources
  <2>2. CASE lvl = 0
    <3>1. \A k \in 1..Len(names) : names[k] = Chunk(k - 1)
      BY <1>2, <2>1, <2>2, ListFacts
    <3> QED
      BY <2>1, <3>1, Distinct DEF AllThere
  <2>3. CASE lvl # 0
    <3> DEFINE x == TmpList(lvl - 1, Len(names))
    <3>0. \A k \in 1..Len(names) : x[k] = Tmp(lvl - 1, k - 1)
      BY DEF TmpList
    <3> HIDE DEF x
    <3>1. \A k \in 1..Len(names) : names[k] = Tmp(lvl - 1, k - 1)
      <4>1. names = x
        BY <2>1, <2>3 DEF x
      <4> QED
        BY <3>0, <4>1
    <3>2. lvl - 1 # lvl
      BY <1>2
    <3> QED
      BY <2>1, <3>1, <3>2, Distinct DEF AllThere
  <2> QED
    BY <2>2, <2>3
<1>10. \A k \in 1..i : tmpSrcs[k] = Tmp(lvl, k - 1) /\ tmpSrcs[k] # t /\ bucket[tmpSrcs[k]] # NoObject
  <2>1. tmpSrcs = TmpList(lvl, i) /\ AllThere(bucket, tmpSrcs)
    BY <1>1 DEF Composing, i
  <2>2. \A k \in 1..i : tmpSrcs[k] = Tmp(lvl, k - 1)
    BY <1>2, <2>1, ListFacts
  <2>3. \A k \in 1..i : k - 1 # i
    BY <1>2
  <2> QED
    BY <2>1, <2>2, <2>3, Distinct DEF AllThere, i
<1> HIDE DEF t
<1>11. \A k \in 1..Len(names) : names[k] # Hole => bucket'[names[k]] = bucket[names[k]]
  <2> TAKE k \in 1..Len(names)
  <2>1. names[k] \in Names \cup {Hole}
    BY <1>0, ElementOfSeq
  <2> QED
    BY <1>8, <1>9, <2>1
<1>12. \A k \in 1..i : bucket'[tmpSrcs[k]] = bucket[tmpSrcs[k]] /\ tmpSrcs[k] \in Names
  <2> TAKE k \in 1..i
  <2>1. tmpSrcs[k] \in Names
    BY <1>0, ElementOfSeq, InNames DEF i
  <2> QED
    BY <1>8, <1>10, <2>1
<1>13. ConcatIn(bucket', names) = Bytes(0, file)
  <2>1. ConcatIn(bucket', names) = ConcatIn(bucket, names)
    BY <1>1, <1>11, ConcatSame
  <2> QED
    BY <1>1, <2>1 DEF Composing
<1>14. AllThere(bucket', names)
  <2> SUFFICES ASSUME NEW k \in 1..Len(names) PROVE bucket'[names[k]] # NoObject
    BY DEF AllThere
  <2> QED
    BY <1>9, <1>11
<1>15. srcs = TmpList(lvl, i + 1)
  <2>1. tmpSrcs = TmpList(lvl, i)
    BY <1>1 DEF Composing, i
  <2>2. Append(TmpList(lvl, i), Tmp(lvl, i)) = TmpList(lvl, i + 1)
    BY <1>2 DEF TmpList
  <2> QED
    BY <2>1, <2>2 DEF t
<1>16. /\ Len(srcs) = i + 1 /\ srcs[i + 1] = t
       /\ \A k \in 1..i : srcs[k] = tmpSrcs[k]
  BY <1>0, <1>2 DEF i
<1>17. AllThere(bucket', srcs)
  <2> SUFFICES ASSUME NEW k \in 1..(i + 1) PROVE bucket'[srcs[k]] # NoObject
    BY <1>16 DEF AllThere
  <2>1. CASE k = i + 1
    BY <1>8, <1>16, <2>1
  <2>2. CASE k # i + 1
    <3>1. k \in 1..i
      BY <1>2, <2>2
    <3> QED
      BY <1>10, <1>12, <1>16, <3>1
  <2> QED
    BY <2>1, <2>2
<1>18. Readable(bucket', tmpSrcs) /\ ConcatIn(bucket', tmpSrcs) = ConcatIn(bucket, tmpSrcs)
  <2>1. \A k \in 1..Len(tmpSrcs) : tmpSrcs[k] # Hole => bucket'[tmpSrcs[k]] = bucket[tmpSrcs[k]]
    BY <1>12 DEF i
  <2> QED
    BY <1>1, <2>1, ConcatSame
<1>19. ConcatIn(bucket', srcs) = ConcatIn(bucket', tmpSrcs) \o ReadIn(bucket', t)
  <2>1. ReadIn(bucket', t) \in Seq(Nat) /\ t \in Names \cup {Hole}
    BY <1>5, <1>6, <1>8 DEF ReadIn
  <2> QED
    BY <1>18, <2>1, ConcatMore
<1>20. ConcatIn(bucket', srcs) = ConcatIn(bucket, upto)
  <2>1. ReadIn(bucket', t) = ConcatIn(bucket, g)
    BY <1>6, <1>8 DEF ReadIn
  <2>2. ConcatIn(bucket, tmpSrcs) = ConcatIn(bucket, first)
    BY <1>1 DEF Composing, first, i
  <2> QED
    BY <1>5, <1>18, <1>19, <2>1, <2>2
<1>21. ConcatIn(bucket', upto) = ConcatIn(bucket, upto)
  <2>1. Len(upto) = e /\ \A k \in 1..e : upto[k] = names[k]
    BY <1>0, <1>2 DEF upto
  <2>2. \A k \in 1..Len(upto) : upto[k] # Hole => bucket'[upto[k]] = bucket[upto[k]]
    <3> TAKE k \in 1..Len(upto)
    <3>1. k \in 1..e /\ k \in 1..Len(names)
      BY <1>2, <2>1
    <3> QED
      BY <1>11, <2>1, <3>1
  <2> QED
    BY <1>3, <2>2, ConcatSame
<1>22. ConcatIn(bucket', srcs) = ConcatIn(bucket', upto)
  BY <1>20, <1>21
<1> HIDE DEF srcs
<1>23. /\ Put(bucket, t, ConcatIn(bucket, g), bucket') /\ ConcatIn(bucket, g) \in Seq(Nat)
       /\ srcs = TmpList(lvl, i + 1) /\ AllThere(bucket', srcs) /\ AllThere(bucket', names)
       /\ ConcatIn(bucket', names) = Bytes(0, file)
       /\ ConcatIn(bucket', srcs) = ConcatIn(bucket', upto)
  BY <1>5, <1>7, <1>13, <1>14, <1>15, <1>17, <1>22
<1> QED
  BY <1>23, Zenon DEF i, e, t, g, srcs, upto

LEMMA ComposeGroupKeeps ==
  ASSUME GCSInv, ComposeGroup
  PROVE  /\ GCSInv' /\ bucket'[Obj] = bucket[Obj] /\ ~Broken(bucket)
         /\ \A j \in 0..(MaxChunks - 1) : bucket'[Chunk(j)] = bucket[Chunk(j)]
<1> DEFINE i == Len(tmpSrcs)
           q == tmpSrcLen
           L == Len(names)
           e == IF q - i = 1 THEN L ELSE (i + 1) * M
           t == Tmp(lvl, i)
           srcs == Append(tmpSrcs, t)
           data == ConcatIn(bucket, group(i))
<1>0. /\ pc = "compose" /\ L > M /\ Composable(group(i)) /\ bucket \in Buckets /\ file \in Nat
      /\ names \in Seq(Names \cup {Hole}) /\ tmpSrcs \in Seq(Tmps) /\ lvl \in Nat
      /\ IF i + 1 = q
         THEN names' = srcs /\ tmpSrcs' = <<>> /\ lvl' = lvl + 1
         ELSE tmpSrcs' = srcs /\ names' = names /\ lvl' = lvl
      /\ info' = info /\ pc' = pc /\ offset' = offset /\ sends' = sends
      /\ clientOffset' = clientOffset /\ file' = file /\ races' = races /\ gone' = gone
  BY Typed DEF ComposeGroup, reqVars, clientVars, M
<1>1. Composing /\ ~Broken(bucket) /\ Sound(bucket, file) /\ offset = file
  BY <1>0, AtCompose
<1>2. /\ L \in Nat /\ L >= 3 /\ L <= MaxChunks /\ i \in Nat /\ q \in Nat /\ i < q /\ 2 * q <= L + 1
      /\ i * M \in Nat /\ e \in Nat /\ i * M < e /\ e <= L
      /\ 2 * lvl + L <= MaxChunks /\ t \in Tmps
  BY GroupFacts
<1>3. /\ Put(bucket, t, data, bucket') /\ data \in Seq(Nat)
      /\ srcs = TmpList(lvl, i + 1) /\ AllThere(bucket', srcs)
      /\ AllThere(bucket', names)
      /\ ConcatIn(bucket', names) = Bytes(0, file)
      /\ ConcatIn(bucket', srcs) = ConcatIn(bucket', SubSeq(names, 1, e))
  BY GroupJoins
<1>4. Len(srcs) = i + 1 /\ srcs \in Seq(Tmps) /\ srcs \in Seq(Names \cup {Hole})
  <2>1. Len(srcs) = i + 1 /\ srcs \in Seq(Tmps)
    BY <1>0, <1>2
  <2> QED
    BY <2>1, SeqMonotonic, InNames
<1> HIDE DEF data, t, srcs, e, q
<1>5. bucket' \in Buckets /\ bucket'[t] = data /\ \A y \in Names : y # t => bucket'[y] = bucket[y]
  BY <1>3 DEF Put
<1>6. bucket'[Obj] = bucket[Obj] /\ \A j \in 0..(MaxChunks - 1) : bucket'[Chunk(j)] = bucket[Chunk(j)]
  BY <1>2, <1>5, InNames
<1>7. PICK n \in 0..MaxChunks, m \in 0..file : Whole(bucket, file, n, m)
  BY <1>1 DEF Sound
<1>8. m = file
  <2>1. n \in Nat /\ m \in Nat
    BY <1>0, <1>7, WholeFacts, GCSAssumption
  <2> QED
    BY <1>1, <1>7, <2>1 DEF Composing
<1>9. Whole(bucket', file, n, file) /\ \A n2, m2 : Whole(bucket', file, n2, m2) => m2 = file
  <2>1. Whole(bucket', file, n, m)
    BY <1>0, <1>5, <1>6, <1>7, <1>8, SoundSame
  <2> QED
    BY <1>0, <1>5, <1>8, <2>1, WholeOnce
<1>10. ~Broken(bucket')
  <2>1. bucket[Chunk(0)] # NoObject
    <3>1. AllThere(bucket, names) /\ names = (IF lvl = 0 THEN FirstChunks(L) ELSE TmpList(lvl - 1, L))
      BY <1>1 DEF Composing, Sources
    <3>2. 1 \in 1..L /\ 1 - 1 = 0
      BY <1>2
    <3>3. bucket[names[1]] # NoObject
      BY <3>1, <3>2 DEF AllThere
    <3>4. CASE lvl = 0
      <4>1. FirstChunks(L)[1] = Chunk(0)
        BY <3>2 DEF FirstChunks
      <4> QED
        BY <3>1, <3>3, <3>4, <4>1
    <3>5. CASE lvl # 0
      <4>1. TmpList(lvl - 1, L)[1] = Tmp(lvl - 1, 0)
        BY <3>2 DEF TmpList
      <4>2. bucket[Tmp(lvl - 1, 0)] # NoObject
        BY <3>1, <3>3, <3>5, <4>1
      <4>3. Tmp(lvl - 1, 0) \in Tmps
        <5>1. lvl - 1 \in 0..(Half - 1) /\ 0 \in 0..(Half - 1)
          BY <1>0, <3>5, GroupFacts, InNames
        <5> QED
          BY <5>1, InNames
      <4>4. ~NoTmps(bucket)
        BY <4>2, <4>3 DEF NoTmps
      <4> QED
        BY <1>1, <4>4 DEF Broken
    <3> QED
      BY <3>4, <3>5
  <2>2. 0 \in 0..(MaxChunks - 1)
    BY GCSAssumption
  <2> QED
    BY <1>6, <2>1, <2>2 DEF Broken
<1>11. TypeOK'
  <2>1. bucket' \in [Names -> Seq(Nat) \cup {NoObject}]
    BY <1>5 DEF Buckets
  <2>2. names' \in Seq(Names \cup {Hole}) /\ tmpSrcs' \in Seq(Tmps) /\ lvl' \in Nat
    <3>1. CASE i + 1 = q
      <4>1. names' = srcs /\ tmpSrcs' = <<>> /\ lvl' = lvl + 1
        BY <1>0, <3>1
      <4>2. <<>> \in Seq(Tmps) /\ lvl + 1 \in Nat
        BY <1>0
      <4> QED
        BY <1>4, <4>1, <4>2
    <3>2. CASE i + 1 # q
      BY <1>0, <1>4, <3>2
    <3> QED
      BY <3>1, <3>2
  <2> QED
    BY <1>0, <2>1, <2>2 DEF GCSInv, TypeOK
<1>12. ObjectIsFile' /\ Lengths' /\ Told' /\ Deletes'
  BY <1>0, <1>6 DEF GCSInv, ObjectIsFile, Lengths, Told, Deletes, Deleting, Exists
<1>13. ChunksOK'
  <2>1. Sound(bucket', file)
    BY <1>9 DEF Sound, Whole
  <2>2. MaxChunks >= 3
    BY <1>2, GCSAssumption
  <2> QED
    BY <1>0, <1>10, <2>1, <2>2 DEF ChunksOK
<1>14. Knows'
  BY <1>0, <1>6 DEF GCSInv, Knows, Exists
<1>15. Composing'
  <2>1. \A n2, m2 \in Nat : Whole(bucket', file', n2, m2) => m2 = file'
    BY <1>0, <1>9
  <2>2. CASE i + 1 = q
    <3>1. names' = TmpList(lvl, q) /\ Len(names') = q /\ tmpSrcs' = <<>> /\ lvl' = lvl + 1 /\ lvl' # 0 /\ lvl' - 1 = lvl
      BY <1>0, <1>3, <1>4, <2>2
    <3>2. names' = Sources(Len(names))'
      BY <3>1 DEF Sources
    <3>3. AllThere(bucket', names')
      BY <1>0, <1>3, <2>2
    <3>4. e = L
      BY <1>2, <2>2 DEF e
    <3>5. SubSeq(names, 1, e) = names
      BY <1>0, <3>4
    <3>6. ConcatIn(bucket', names') = Bytes(0, file')
      BY <1>0, <1>3, <2>2, <3>5
    <3>7. q > 0 /\ q <= MaxChunks /\ (q >= 3 => 2 * (lvl + 1) + q <= MaxChunks)
      BY <1>0, <1>2, GCSAssumption
    <3>8. /\ <<>> = TmpList(lvl', 0) /\ AllThere(bucket', <<>>)
          /\ SubSeq(names', 1, 0 * M) = <<>> /\ Len(<<>>) = 0
      <4>1. 0 * M = 0
        BY GCSAssumption DEF M
      <4> QED
        BY <4>1 DEF TmpList, AllThere
    <3> QED
      BY <2>1, <3>1, <3>2, <3>3, <3>6, <3>7, <3>8 DEF Composing
  <2>3. CASE i + 1 # q
    <3>1. names' = names /\ lvl' = lvl /\ tmpSrcs' = TmpList(lvl, i + 1) /\ Len(tmpSrcs') = i + 1 /\ tmpSrcs' = srcs
      BY <1>0, <1>3, <1>4, <2>3
    <3>2. i + 1 < q /\ e = (i + 1) * M
      BY <1>2, <2>3 DEF e
    <3>3. tmpSrcLen' = q
      BY <3>1 DEF tmpSrcLen, q
    <3>4. Sources(Len(names))' = Sources(Len(names))
      BY <3>1 DEF Sources
    <3>5. ConcatIn(bucket', tmpSrcs') = ConcatIn(bucket', SubSeq(names', 1, Len(tmpSrcs') * M))
      BY <1>3, <3>1, <3>2
    <3>6. names = Sources(Len(names))
      BY <1>1 DEF Composing
    <3>7. AllThere(bucket', names') /\ AllThere(bucket', tmpSrcs') /\ ConcatIn(bucket', names') = Bytes(0, file')
      BY <1>0, <1>3, <3>1
    <3>8. Len(names') > 0 /\ Len(names') <= MaxChunks /\ (Len(names') >= 3 => 2 * lvl' + Len(names') <= MaxChunks)
      BY <1>2, <3>1
    <3>9. Len(names') > M /\ Len(tmpSrcs') < tmpSrcLen' /\ tmpSrcs' = TmpList(lvl', Len(tmpSrcs'))
      BY <1>0, <3>1, <3>2, <3>3
    <3> QED
      BY <2>1, <3>1, <3>4, <3>5, <3>6, <3>7, <3>8, <3>9 DEF Composing
  <2> QED
    BY <2>2, <2>3
<1>16. Composes'
  BY <1>0, <1>1, <1>10, <1>15 DEF Composes
<1> QED
  BY <1>1, <1>6, <1>11, <1>12, <1>13, <1>14, <1>16 DEF GCSInv

-----------------------------------------------------------------------------

LEMMA GCSStep == ASSUME OneRace, GCSInv, [Next]_vars PROVE GCSInv'
<1>1. CASE Next
  BY <1>1, NewUploadKeeps, HeadFileKeeps, PatchKeeps, TerminateKeeps, WriteChunkKeeps, FinishUploadKeeps,
     ComposeFailsKeeps, ComposeGroupKeeps, ComposeLastKeeps, DeleteObjectKeeps, DeletedKeeps,
     SetObjectMetadataKeeps, RequestFailsKeeps DEF Next, RequestStep
<1>2. CASE UNCHANGED vars
  <2>1. /\ bucket' = bucket /\ info' = info /\ pc' = pc /\ sends' = sends /\ offset' = offset /\ names' = names
        /\ tmpSrcs' = tmpSrcs /\ lvl' = lvl /\ clientOffset' = clientOffset /\ file' = file /\ races' = races
        /\ gone' = gone
    BY <1>2 DEF vars, reqVars, workVars, clientVars
  <2>2. TypeOK' /\ ObjectIsFile' /\ ChunksOK' /\ Lengths' /\ Told'
    BY <2>1 DEF GCSInv, TypeOK, ObjectIsFile, ChunksOK, Lengths, Told, Exists
  <2>3. Knows' /\ Deletes'
    BY <2>1, ListsNow DEF GCSInv, Knows, Deletes, Deleting, Exists
  <2>4. Composes'
    BY <2>1 DEF GCSInv, Composes, Composing, Sources, tmpSrcLen
  <2> QED
    BY <2>2, <2>3, <2>4 DEF GCSInv
<1> QED
  BY <1>1, <1>2

LEMMA GCSStart == Init => GCSInv
<1> SUFFICES ASSUME Init PROVE GCSInv
  OBVIOUS
<1>1. /\ bucket = [name \in Names |-> NoObject] /\ info = NoObject
      /\ pc = "idle" /\ sends = 0 /\ offset = 0 /\ names = <<>> /\ tmpSrcs = <<>> /\ lvl = 0
      /\ clientOffset = 0 /\ file = 0 /\ races = 0 /\ gone = FALSE
  BY DEF Init
<1>2. bucket \in Buckets /\ file \in Nat /\ 0 \in 0..MaxRaces /\ 0 \in 0..(MaxChunks - 1)
  BY <1>1, GCSAssumption DEF Buckets
<1>3. (\A name \in Names : bucket[name] = NoObject) /\ NoTmps(bucket) /\ ~Exists(Obj)
  BY <1>1, InNames DEF NoTmps, Exists
<1>4. PresentIn(bucket) = {} /\ bucket[Chunk(0)] = NoObject /\ ~Broken(bucket)
  BY <1>2, <1>3, InNames DEF PresentIn, Broken
<1>5. Sound(bucket, file)
  BY <1>2, <1>4, FirstMissing
<1>6. TypeOK
  <2>1. bucket \in [Names -> Seq(Nat) \cup {NoObject}]
    BY <1>2 DEF Buckets
  <2>2. names \in Seq(Names \cup {Hole}) /\ tmpSrcs \in Seq(Tmps)
    BY <1>1
  <2>3. sends \in Nat /\ offset \in Nat /\ lvl \in Nat /\ clientOffset \in Nat /\ races \in 0..MaxRaces
    BY <1>1, <1>2
  <2> QED
    BY <1>1, <1>2, <2>1, <2>2, <2>3 DEF TypeOK
<1>7. ObjectIsFile /\ ChunksOK /\ Lengths /\ Told
  BY <1>1, <1>3, <1>4, <1>5 DEF ObjectIsFile, ChunksOK, Lengths, Told
<1>8. Knows /\ Composes /\ Deletes
  BY <1>1 DEF Knows, Composes, Deletes, Deleting
<1> QED
  BY <1>6, <1>7, <1>8 DEF GCSInv

(* The invariant holds in every state of the specification. *)
LEMMA GCSInvariance == ASSUME OneRace PROVE Spec => []GCSInv
<1>1. GCSInv /\ [Next]_vars => GCSInv'
  BY GCSStep
<1> QED
  BY <1>1, GCSStart, PTL DEF Spec

(* Type correctness, for files, chunks and groups of every size. *)
THEOREM TypeCorrect == ASSUME OneRace PROVE Spec => []TypeOK
<1>1. GCSInv => TypeOK
  BY DEF GCSInv
<1> QED
  BY <1>1, GCSInvariance, PTL

(* ObjectIsFile: the object that recursiveCompose leaves is the client's   *)
(* file, for every number of chunks and every MAX_OBJECT_COMPOSITION, on   *)
(* however many levels, whatever failed before.                            *)
THEOREM ObjectIsFileCorrect == ASSUME OneRace PROVE Spec => []ObjectIsFile
<1>1. GCSInv => ObjectIsFile
  BY DEF GCSInv
<1> QED
  BY <1>1, GCSInvariance, PTL

-----------------------------------------------------------------------------

(* The data of the upload, as a function of the bucket. *)
DataIn(b) == IF b[Obj] # NoObject THEN b[Obj] ELSE ConcatIn(b, ChunkNames(b))

LEMMA DataSame ==
  ASSUME NEW b \in Buckets, NEW c \in Buckets, c[Obj] = b[Obj],
         \A i \in 0..(MaxChunks - 1) : c[Chunk(i)] = b[Chunk(i)]
  PROVE  DataIn(c) = DataIn(b)
<1> DEFINE x == ChunkNames(b)
           y == ChunkNames(c)
<1>1. PresentIn(c) = PresentIn(b)
  BY DEF PresentIn
<1>2. /\ Readable(b, x) /\ Len(x) \in Nat
      /\ \A k \in 1..Len(x) :
           /\ k - 1 \in 0..(MaxChunks - 1)
           /\ x[k] = IF b[Chunk(k - 1)] # NoObject THEN Chunk(k - 1) ELSE Hole
  BY ChunkListing, GCSAssumption
<1>3. y = x
  <2>1. CASE PresentIn(b) = {}
    BY <1>1, <2>1 DEF ChunkNames
  <2>2. CASE PresentIn(b) # {}
    <3> DEFINE p == Max(PresentIn(b))
    <3>1. MaxChunks - 1 \in Nat /\ PresentIn(b) \subseteq 0..(MaxChunks - 1)
      BY GCSAssumption DEF PresentIn
    <3>2. p \in 0..(MaxChunks - 1)
      BY <2>2, <3>1, MaxOf
    <3> HIDE DEF p
    <3>3. \A k \in 1..(p + 1) : k - 1 \in 0..(MaxChunks - 1)
      BY <3>1, <3>2
    <3>4. \A k \in 1..(p + 1) : c[Chunk(k - 1)] = b[Chunk(k - 1)]
      BY <3>3
    <3>5. /\ x = [k \in 1..(p + 1) |-> IF b[Chunk(k - 1)] # NoObject THEN Chunk(k - 1) ELSE Hole]
          /\ y = [k \in 1..(p + 1) |-> IF c[Chunk(k - 1)] # NoObject THEN Chunk(k - 1) ELSE Hole]
      BY <1>1, <2>2 DEF ChunkNames, p
    <3> HIDE DEF x, y
    <3> QED
      BY <3>4, <3>5
  <2> QED
    BY <2>1, <2>2
<1>4. \A k \in 1..Len(x) : x[k] # Hole => c[x[k]] = b[x[k]]
  BY <1>2
<1> HIDE DEF x, y
<1>5. ConcatIn(c, x) = ConcatIn(b, x)
  <2>1. Readable(b, x)
    BY <1>2
  <2>2. Readable(c, x) /\ ConcatIn(c, x) = ConcatIn(b, x)
    BY <1>4, <2>1, ConcatSame
  <2> QED
    BY <2>2
<1> QED
  BY <1>3, <1>5 DEF DataIn, x, y

(* The abstract state in the four phases. *)
LEMMA View ==
  /\ info = NoObject /\ ~gone => phaseOf = "none" /\ dataOf = <<>>
  /\ gone => phaseOf = "gone" /\ dataOf = <<>>
  /\ info # NoObject /\ ~gone =>
       /\ phaseOf = IF Exists(Obj) THEN "finished" ELSE "open"
       /\ dataOf = DataIn(bucket)
<1>1. Content = DataIn(bucket)
  BY ListsNow, ConcatNow DEF Content, DataIn, Exists
<1>2. CASE gone
  BY <1>2 DEF phaseOf, dataOf
<1>3. CASE ~gone
  BY <1>1, <1>3 DEF phaseOf, dataOf
<1> QED
  BY <1>2, <1>3

LEMMA ViewNext ==
  /\ info' = NoObject /\ ~gone' => phaseOf' = "none" /\ dataOf' = <<>>
  /\ gone' => phaseOf' = "gone" /\ dataOf' = <<>>
  /\ info' # NoObject /\ ~gone' =>
       /\ phaseOf' = IF Exists(Obj)' THEN "finished" ELSE "open"
       /\ dataOf' = DataIn(bucket')
<1>1. Content' = DataIn(bucket')
  <2>1. Concat(chunkNames)' = ConcatIn(bucket', ChunkNames(bucket'))
    BY ListsNow DEF Concat, ConcatIn, Read, ReadIn
  <2> QED
    BY <2>1 DEF Content, DataIn, Exists
<1>2. CASE gone'
  BY <1>2 DEF phaseOf, dataOf
<1>3. CASE ~gone'
  BY <1>1, <1>3 DEF phaseOf, dataOf
<1> QED
  BY <1>2, <1>3

(* A step that keeps the data and the object is not seen. *)
LEMMA Unseen ==
  ASSUME gone' = gone, info' = NoObject <=> info = NoObject,
         gone \/ ((Exists(Obj)' <=> Exists(Obj)) /\ DataIn(bucket') = DataIn(bucket))
  PROVE  UNCHANGED Store!storeVars
<1>1. phaseOf' = phaseOf /\ dataOf' = dataOf
  BY View, ViewNext
<1> QED
  BY <1>1 DEF Store!storeVars

LEMMA GoneUnseen ==
  ASSUME gone, gone' = gone
  PROVE  UNCHANGED Store!storeVars
<1>1. phaseOf' = phaseOf /\ dataOf' = dataOf
  BY View, ViewNext
<1> QED
  BY <1>1 DEF Store!storeVars

LEMMA StepSeen ==
  ASSUME OneRace, GCSInv, [Next]_vars
  PROVE  [Store!StoreNext]_Store!storeVars
<1>0. bucket \in Buckets /\ file \in Nat /\ sends \in Nat /\ info \in Nat \cup {NoObject} /\ NoObject \notin Nat
  BY Typed
<1>1. ASSUME bucket' = bucket, gone' = gone, info' = info PROVE UNCHANGED Store!storeVars
  BY <1>1, Unseen DEF Exists
<1>2. CASE UNCHANGED vars
  BY <1>1, <1>2 DEF vars
<1>3. CASE NewUpload
  <2>1. /\ info = NoObject /\ info' # NoObject /\ gone' = FALSE /\ bucket' = [name \in Names |-> NoObject]
    BY <1>3, GCSAssumption DEF NewUpload
  <2>2. bucket' \in Buckets /\ ~Exists(Obj)' /\ PresentIn(bucket') = {}
    BY <2>1, InNames DEF Buckets, Exists, PresentIn
  <2>3. DataIn(bucket') = <<>>
    BY <2>2, ChunkListing, ConcatNone DEF DataIn, Exists
  <2>4. phaseOf \in {"none", "gone"} /\ phaseOf' = "open" /\ dataOf' = <<>>
    BY <2>1, <2>2, <2>3, View, ViewNext
  <2> QED
    BY <2>4 DEF Store!NewUpload, Store!StoreNext
<1>4. CASE HeadFile \/ Patch \/ FinishUpload \/ ComposeFails \/ SetObjectMetadata \/ RequestFails
  BY <1>1, <1>4 DEF HeadFile, Patch, FinishUpload, ComposeFails, SetObjectMetadata, RequestFails
<1>5. CASE Terminate
  <2>1. gone' = TRUE /\ info # NoObject
    BY <1>5 DEF Terminate
  <2>2. phaseOf' = "gone" /\ dataOf' = <<>>
    BY <2>1, ViewNext
  <2>3. CASE gone
    BY <2>2, <2>3, View DEF Store!storeVars
  <2>4. CASE ~gone
    <3>1. phaseOf \in {"open", "finished"}
      BY <2>1, <2>4, View
    <3> QED
      BY <2>2, <3>1 DEF Store!Terminate, Store!StoreNext
  <2> QED
    BY <2>3, <2>4
<1>6. CASE WriteChunk
  <2>1. gone' = gone /\ info' = info /\ ~Exists(Obj) /\ info # NoObject
    BY <1>6 DEF WriteChunk, GCSInv, Knows, Lengths
  <2>2. CASE Holes(FilterChunks) # {}
    BY <1>1, <1>6, <2>1, <2>2 DEF WriteChunk
  <2>3. CASE gone
    BY <2>1, <2>3, GoneUnseen
  <2>4. CASE Holes(FilterChunks) = {} /\ ~gone
    <3>1. Sound(bucket, file)
      BY <2>1, <2>4, Typed DEF GCSInv, ChunksOK
    <3>2. PICK n, m \in Nat :
            /\ Whole(bucket, file, n, m) /\ offset = m
            /\ bucket' \in Buckets /\ Whole(bucket', file, n + 1, m + sends) /\ NoTmps(bucket')
            /\ bucket'[Obj] = bucket[Obj]
      BY <1>6, <2>4, <3>1, WriteSound
    <3>3. ~Exists(Obj)' /\ DataIn(bucket) = Bytes(0, m) /\ DataIn(bucket') = Bytes(0, m + sends)
      <4>1. ConcatIn(bucket, ChunkNames(bucket)) = Bytes(0, m)
        BY <1>0, <3>2, WholeFacts
      <4>2. ConcatIn(bucket', ChunkNames(bucket')) = Bytes(0, m + sends)
        BY <1>0, <3>2, WholeFacts
      <4> QED
        BY <2>1, <3>2, <4>1, <4>2 DEF DataIn, Exists
    <3>4. phaseOf = "open" /\ phaseOf' = "open" /\ dataOf = Bytes(0, m) /\ dataOf' = Bytes(0, m + sends)
      BY <2>1, <2>4, <3>3, View, ViewNext
    <3>5. CASE sends = 0
      <4>1. m + sends = m
        BY <3>5
      <4> QED
        BY <3>4, <4>1 DEF Store!storeVars
    <3>6. CASE sends # 0
      <4>1. m + sends \in Nat /\ m + sends > m
        BY <1>0, <3>6
      <4>2. Len(Bytes(0, m)) = m /\ Len(Bytes(0, m + sends)) = m + sends
        BY <4>1, BytesFacts
      <4>3. Bytes(0, m + sends) = [k \in 1..(m + sends) |-> k]
        BY <4>1 DEF Bytes
      <4> QED
        BY <3>4, <4>1, <4>2, <4>3 DEF Store!WriteChunk, Store!StoreNext
    <3> QED
      BY <3>5, <3>6
  <2> QED
    BY <2>2, <2>3, <2>4
<1>7. CASE ComposeGroup
  <2>1. gone' = gone /\ info' = info
    BY <1>7 DEF ComposeGroup
  <2>2. /\ GCSInv' /\ bucket'[Obj] = bucket[Obj]
        /\ \A i \in 0..(MaxChunks - 1) : bucket'[Chunk(i)] = bucket[Chunk(i)]
    BY <1>7, ComposeGroupKeeps
  <2>3. bucket' \in Buckets
    BY <2>2 DEF GCSInv, TypeOK, Buckets
  <2>4. DataIn(bucket') = DataIn(bucket)
    BY <1>0, <2>2, <2>3, DataSame
  <2> QED
    BY <2>1, <2>2, <2>4, Unseen DEF Exists
<1>8. CASE ComposeLast
  <2>1. gone' = gone /\ info' = info /\ ~Exists(Obj) /\ info # NoObject
    BY <1>8 DEF ComposeLast, GCSInv, Knows, Lengths
  <2>2. Sound(bucket, file) /\ Composing /\ bucket'[Obj] = Bytes(0, file)
    BY <1>8, ComposeLastKeeps
  <2>3. PICK n, m : Whole(bucket, file, n, m)
    BY <2>2 DEF Sound
  <2>4. n \in 0..MaxChunks /\ m \in Nat /\ ConcatIn(bucket, ChunkNames(bucket)) = Bytes(0, m)
    BY <1>0, <2>3, WholeFacts
  <2>5. n \in Nat
    BY <2>4, GCSAssumption
  <2>6. m = file
    BY <2>2, <2>3, <2>4, <2>5 DEF Composing
  <2>7. Bytes(0, file) # NoObject
    BY <1>0, BytesFacts, GCSAssumption
  <2>8. DataIn(bucket) = Bytes(0, file) /\ DataIn(bucket') = Bytes(0, file) /\ Exists(Obj)'
    BY <2>1, <2>2, <2>4, <2>6, <2>7 DEF DataIn, Exists
  <2>9. CASE gone
    BY <2>1, <2>9, GoneUnseen
  <2>10. CASE ~gone
    <3>1. phaseOf = "open" /\ phaseOf' = "finished" /\ dataOf' = dataOf
      BY <2>1, <2>8, <2>10, View, ViewNext
    <3> QED
      BY <3>1 DEF Store!FinishUpload, Store!StoreNext
  <2> QED
    BY <2>9, <2>10
<1>9. CASE DeleteObject
  <2>1. gone' = gone /\ info' = info /\ Deleting
    BY <1>9 DEF DeleteObject
  <2>2. CASE gone
    BY <2>1, <2>2, GoneUnseen
  <2>3. CASE ~gone
    <3>1. pc \in {"deleteTmp", "deleteChunks"} /\ Exists(Obj)
      BY <2>1, <2>3 DEF GCSInv, Deletes, Deleting
    <3>2. GCSInv'
      BY <1>9, DeleteObjectKeeps
    <3>3. CASE bucket' = bucket
      BY <1>1, <2>1, <3>3
    <3>4. CASE bucket' # bucket
      <4>1. pc' = pc
        BY <1>9, <3>4 DEF DeleteObject
      <4>2. Exists(Obj)'
        BY <3>1, <3>2, <4>1 DEF GCSInv, Deletes
      <4>3. bucket'[Obj] = Bytes(0, file') /\ bucket[Obj] = Bytes(0, file)
        BY <3>1, <3>2, <4>2 DEF GCSInv, ObjectIsFile
      <4>4. file' = file
        BY <1>9, <3>4 DEF DeleteObject, clientVars
      <4>5. DataIn(bucket') = DataIn(bucket)
        BY <3>1, <4>2, <4>3, <4>4 DEF DataIn, Exists
      <4> QED
        BY <2>1, <3>1, <4>2, <4>5, Unseen
    <3> QED
      BY <3>3, <3>4
  <2> QED
    BY <2>2, <2>3
<1>10. CASE Deleted
  <2>1. gone' = gone /\ bucket' = bucket
    BY <1>10 DEF Deleted
  <2>2. CASE info' = info
    BY <1>1, <2>1, <2>2
  <2>3. CASE info' # info
    <3>1. gone
      BY <1>10, <2>3 DEF Deleted, GCSInv, Deletes
    <3> QED
      BY <2>1, <3>1, GoneUnseen
  <2> QED
    BY <2>2, <2>3
<1> QED
  BY <1>2, <1>3, <1>4, <1>5, <1>6, <1>7, <1>8, <1>9, <1>10 DEF Next, RequestStep

(* The GCS store implements UploadStore: bytes are added at the end and    *)
(* none is lost, also while recursiveCompose puts the chunks together and  *)
(* deletes them, whatever fails in between.                                *)
THEOREM StoreRefinement == ASSUME OneRace PROVE Spec => ImplementsUploadStore
<1>1. Init => Store!StoreInit
  <2> SUFFICES ASSUME Init PROVE Store!StoreInit
    OBVIOUS
  <2>1. info = NoObject /\ ~gone
    BY DEF Init
  <2> QED
    BY <2>1, View DEF Store!StoreInit
<1>2. GCSInv /\ [Next]_vars => [Store!StoreNext]_Store!storeVars
  BY StepSeen
<1> QED
  BY <1>1, <1>2, GCSInvariance, PTL DEF Spec, ImplementsUploadStore, Store!StoreSpec
=============================================================================
