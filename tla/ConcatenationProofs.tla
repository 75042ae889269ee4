------------------------ MODULE ConcatenationProofs -------------------------
(***************************************************************************)
(* The data of final uploads, for any number of uploads of any size and    *)
(* lists of any length, in both stores and whatever fails or is deleted    *)
(* meanwhile.  What sizeOfUploads has seen complete stays complete or      *)
(* disappears, although no lock is held: so what is copied later is what   *)
(* was counted.                                                            *)
(***************************************************************************)
EXTENDS Concatenation, SequenceFacts, FiniteSetTheorems, TLAPS

Pieces == Seq(Seq(Byte) \cup {None})
Steps == {"open", "append", "download", "multipart", "emit", "finish", "emitAgain"}
Seens == [info: Infos \cup {None}, parts: Int \cup {None}, incomplete: Int \cup {None}]
Posts == [pc: {"idle", "check", "done", "failed"} \cup Steps, list: Seq(Uploads), checked: Nat, seen: Seens,
          size: Nat, small: BOOLEAN, copied: SUBSET Nat, err: BOOLEAN, file: Seq(Byte), aborts: BOOLEAN]

Types ==
  /\ store \in Stores
  /\ info \in [Uploads -> Infos \cup {None}]
  /\ pieces \in [Uploads -> Pieces \cup {None}]
  /\ object \in [Uploads -> Seq(Byte) \cup {None}]
  /\ todo \in [Uploads -> SUBSET {"write", "finish", "bin", "info", "abort", "object"}]
  /\ post \in [Finals -> Posts]
  /\ meant \in [Uploads -> Seq(Byte) \cup {None}]
  /\ deleted \subseteq Finals
  /\ announced \in [Finals -> 0..2]

(* What the first k uploads of the list are meant to be. *)
MeantOf(m, list, k) == FlattenSeq([i \in 1..k |-> m[list[i]]])

StartOf(s, t) == Len(s) <= Len(t) /\ \A i \in 1..Len(s) : s[i] = t[i]

(* An upload that a POST has seen complete. *)
Ready(u) ==
  /\ meant[u] # None
  /\ store = "file" /\ pieces[u] # None => Data(pieces[u]) = meant[u]

UploadOK(u) ==
  /\ meant[u] = None => info[u] = None /\ pieces[u] = None /\ object[u] = None /\ todo[u] = {}
  /\ info[u] # None =>
       /\ info[u].isFinal <=> u \in Finals
       /\ info[u].deferred => u \in Partials
       /\ ~info[u].deferred => info[u].size = Len(meant[u])
  /\ u \in Partials /\ meant[u] # None => meant[u] = Bytes(u, 0, Len(meant[u]))
  /\ pieces[u] # None /\ (store = "file" \/ u \in Partials) => StartOf(Data(pieces[u]), meant[u])
  /\ pieces[u] # None /\ u \in Partials => Len(pieces[u]) = 2 /\ pieces[u][2] # None
  /\ "write" \in todo[u] => todo[u] = {"write"} /\ u \in Partials /\ info[u] # None
  /\ "finish" \in todo[u] =>
       /\ todo[u] = {"finish"} /\ u \in Partials
       /\ pieces[u] # None /\ Data(pieces[u]) = meant[u]
  /\ object[u] # None => object[u] = meant[u]
  /\ u \in Finals /\ todo[u] # {} => u \in deleted

(* No DELETE has come for the final upload. *)
Kept(f) == f \notin deleted

(* What the POST has read of the next upload is right, and an upload that  *)
(* is complete by the size and the offset read so far is complete.         *)
Right(u, seen) ==
  /\ seen.info # None => meant[u] # None /\ (~seen.info.deferred => seen.info.size = Len(meant[u]))
  /\ store = "file" /\ seen.parts # None =>
       /\ seen.info # None
       /\ ~seen.info.deferred /\ seen.parts = seen.info.size => Ready(u)

Sees(f) == Right(Listed(f), post[f].seen)

(* The POST has copied the first uploads of its list. *)
Counted(f, k) == k \in 0..Len(post[f].list) /\ post[f].copied = 1..k

Checks(f) ==
  /\ post[f].pc = "idle" => post[f] = NoPost
  /\ post[f].pc \in {"idle", "check"} => meant[f] = None /\ announced[f] = 0
  /\ post[f].pc = "check" =>
       /\ post[f].copied = {} /\ post[f].file = <<>> /\ ~post[f].err /\ ~post[f].aborts
       /\ \A i \in 1..post[f].checked : Ready(post[f].list[i])
       /\ post[f].size = Len(MeantOf(meant, post[f].list, post[f].checked))
       /\ post[f].checked < Len(post[f].list) => Sees(f)
  /\ post[f].checked <= Len(post[f].list)
  /\ post[f].copied \subseteq 1..Len(post[f].list)

Runs(f) ==
  post[f].pc \in Steps =>
    /\ meant[f] # None /\ meant[f] = MeantOf(meant, post[f].list, Len(post[f].list))
    /\ \A i \in 1..Len(post[f].list) : Ready(post[f].list[i])
    /\ post[f].size = Len(meant[f])

Appends(f) ==
  post[f].pc \in {"open", "append"} =>
    /\ store = "file"
    /\ Kept(f) => pieces[f] # None
    /\ \E k \in Nat : /\ Counted(f, k)
                      /\ pieces[f] # None => Data(pieces[f]) = MeantOf(meant, post[f].list, k)

Downloads(f) ==
  /\ post[f].pc = "download" =>
       /\ store = "s3"
       /\ \E k \in Nat : Counted(f, k) /\ post[f].file = MeantOf(meant, post[f].list, k)
  /\ store = "s3" /\ post[f].pc \in {"download", "emit", "finish"} /\ pieces[f] # None =>
       \A i \in 1..Len(pieces[f]) : pieces[f][i] = None
  /\ post[f].aborts => store = "s3"

Copies(f) ==
  post[f].pc = "multipart" =>
    /\ store = "s3"
    /\ pieces[f] # None =>
         /\ Len(pieces[f]) = Len(post[f].list)
         /\ \A i \in 1..Len(post[f].list) :
              IF i \in post[f].copied THEN post[f].err \/ pieces[f][i] = meant[post[f].list[i]]
              ELSE pieces[f][i] = None

Announces(f) ==
  /\ post[f].pc \in {"emit", "finish", "emitAgain"} \/ announced[f] > 0 => (Kept(f) => Source(f) = meant[f])
  /\ post[f].pc = "finish" => post[f].size = 0
  /\ post[f].pc \in {"open", "append", "download", "multipart", "emit"} => announced[f] = 0
  /\ post[f].pc \in {"finish", "emitAgain"} => announced[f] = 1

PostOK(f) == Checks(f) /\ Runs(f) /\ Appends(f) /\ Downloads(f) /\ Copies(f) /\ Announces(f)

ConcatInv ==
  /\ Types
  /\ \A u \in Uploads : UploadOK(u)
  /\ \A f \in Finals : PostOK(f)

-----------------------------------------------------------------------------
(* The data of pieces. *)

LEMMA NoneIs == None \notin Infos /\ None \notin Seq(Byte) /\ None \notin Pieces
BY ConcatenationAssumption DEF Pieces

Filled(ps) == [i \in 1..Len(ps) |-> IF ps[i] = None THEN <<>> ELSE ps[i]]

LEMMA FilledFacts ==
  ASSUME NEW ps \in Pieces
  PROVE  /\ Filled(ps) \in Seq(Seq(Byte)) /\ Len(Filled(ps)) = Len(ps) /\ Len(ps) \in Nat
         /\ \A i \in 1..Len(ps) : Filled(ps)[i] = IF ps[i] = None THEN <<>> ELSE ps[i]
         /\ Data(ps) = FlattenSeq(Filled(ps)) /\ Data(ps) \in Seq(Byte)
<1> DEFINE B == Seq(Byte)
<1>1. Len(ps) \in Nat /\ \A i \in 1..Len(ps) : ps[i] \in B \cup {None}
  BY LenProperties, ElementOfSeq DEF Pieces
<1>2. <<>> \in B
  OBVIOUS
<1> HIDE DEF B
<1>3. Filled(ps) \in Seq(B) /\ Len(Filled(ps)) = Len(ps)
  BY <1>1, <1>2 DEF Filled
<1>4. Data(ps) = FlattenSeq(Filled(ps))
  BY DEF Data, Filled
<1>5. Data(ps) \in Seq(Byte)
  BY <1>3, <1>4, FlattenAppend DEF B
<1> QED
  BY <1>1, <1>3, <1>4, <1>5 DEF Filled, B

LEMMA DataAppend ==
  ASSUME NEW ps \in Pieces, NEW x \in Seq(Byte)
  PROVE  Append(ps, x) \in Pieces /\ Data(Append(ps, x)) = Data(ps) \o x
<1> DEFINE B == Seq(Byte)
           qs == Append(ps, x)
<1>0. x # None /\ x \in B
  BY NoneIs
<1>1. qs \in Pieces
  BY DEF Pieces
<1>2. /\ Filled(ps) \in Seq(B) /\ Len(Filled(ps)) = Len(ps) /\ Len(ps) \in Nat
      /\ \A i \in 1..Len(ps) : Filled(ps)[i] = IF ps[i] = None THEN <<>> ELSE ps[i]
      /\ Data(ps) = FlattenSeq(Filled(ps))
  BY FilledFacts
<1>3. /\ Filled(qs) \in Seq(B) /\ Len(Filled(qs)) = Len(qs)
      /\ \A i \in 1..Len(qs) : Filled(qs)[i] = IF qs[i] = None THEN <<>> ELSE qs[i]
      /\ Data(qs) = FlattenSeq(Filled(qs))
  BY <1>1, FilledFacts
<1>4. Len(qs) = Len(ps) + 1 /\ qs[Len(ps) + 1] = x /\ \A i \in 1..Len(ps) : qs[i] = ps[i]
  BY DEF Pieces
<1> HIDE DEF B, qs
<1>5. Filled(qs) = Append(Filled(ps), x)
  <2> DEFINE a == Append(Filled(ps), x)
  <2>1. /\ a \in Seq(B) /\ Len(a) = Len(ps) + 1 /\ a[Len(ps) + 1] = x
        /\ \A i \in 1..Len(ps) : a[i] = Filled(ps)[i]
    BY <1>0, <1>2
  <2> HIDE DEF a
  <2>2. ASSUME NEW i \in 1..Len(qs) PROVE Filled(qs)[i] = a[i]
    <3>1. CASE i = Len(ps) + 1
      BY <1>0, <1>3, <1>4, <2>1, <3>1
    <3>2. CASE i # Len(ps) + 1
      <4>1. i \in 1..Len(ps)
        BY <1>2, <1>4, <3>2
      <4> QED
        BY <1>2, <1>3, <1>4, <2>1, <4>1
    <3> QED
      BY <3>1, <3>2
  <2>3. Len(Filled(qs)) = Len(a)
    BY <1>3, <1>4, <2>1
  <2>4. Filled(qs) = a
    BY <1>3, <2>1, <2>2, <2>3, SeqEqual
  <2> QED
    BY <2>4 DEF a
<1>6. FlattenSeq(Append(Filled(ps), x)) = FlattenSeq(Filled(ps)) \o x
  BY <1>0, <1>2, FlattenAppend DEF B
<1> QED
  BY <1>1, <1>2, <1>3, <1>5, <1>6 DEF qs

LEMMA DataOne ==
  /\ <<>> \in Pieces /\ Data(<<>>) = <<>>
  /\ \A x \in Seq(Byte) : <<x>> \in Pieces /\ Data(<<x>>) = x
<1>1. <<>> \in Pieces
  BY DEF Pieces
<1>2. Filled(<<>>) = <<>>
  BY DEF Filled
<1>3. Data(<<>>) = <<>>
  BY <1>1, <1>2, FilledFacts, FlattenAppend
<1>4. ASSUME NEW x \in Seq(Byte) PROVE <<x>> \in Pieces /\ Data(<<x>>) = x
  <2> DEFINE e == <<>>
  <2>1. <<x>> = Append(e, x)
    OBVIOUS
  <2>2. e \in Pieces /\ Data(e) = <<>>
    BY <1>1, <1>3
  <2> HIDE DEF e
  <2>3. Append(e, x) \in Pieces /\ Data(Append(e, x)) = <<>> \o x
    BY <2>2, DataAppend
  <2>4. <<>> \o x = x
    BY ConcatEmptySeq
  <2> QED
    BY <2>1, <2>3, <2>4
<1> QED
  BY <1>1, <1>3, <1>4

LEMMA DataTwo ==
  ASSUME NEW x \in Seq(Byte), NEW y \in Seq(Byte)
  PROVE  /\ <<x, y>> \in Pieces /\ Data(<<x, y>>) = x \o y
         /\ Len(<<x, y>>) = 2 /\ <<x, y>>[2] # None
<1> DEFINE e == <<x>>
<1>1. <<x, y>> = Append(e, y)
  OBVIOUS
<1>2. e \in Pieces /\ Data(e) = x
  BY DataOne
<1> HIDE DEF e
<1>3. Append(e, y) \in Pieces /\ Data(Append(e, y)) = x \o y
  BY <1>2, DataAppend
<1>4. Len(<<x, y>>) = 2 /\ <<x, y>>[2] = y /\ y # None
  BY NoneIs
<1> QED
  BY <1>1, <1>3, <1>4

(* The bytes of a partial upload, with the last t of them in `.part`. *)
LEMMA DataSplit ==
  ASSUME NEW s \in Seq(Byte), NEW t \in Nat, t <= Len(s), NEW ps,
         ps = <<SubSeq(s, 1, Len(s) - t), SubSeq(s, Len(s) - t + 1, Len(s))>>
  PROVE  ps \in Pieces /\ Data(ps) = s /\ Len(ps) = 2 /\ ps[2] # None
<1> DEFINE n == Len(s)
           k == n - t
           x == SubSeq(s, 1, k)
           y == SubSeq(s, k + 1, n)
<1>1. n \in Nat /\ k \in 0..n /\ k + 1 \in Nat /\ 1 \in 1..(n + 1) /\ k \in (1 - 1)..n /\ n \in k..n
  BY LenProperties
<1>2. \A i \in 1..n : s[i] \in Byte
  BY <1>1, ElementOfSeq
<1>3. x \in Seq(Byte)
  <2>1. \A i \in 1..k : s[i] \in Byte
    BY <1>1, <1>2
  <2> QED
    BY <1>1, <2>1, SubSeqProperties
<1>4. y \in Seq(Byte)
  <2>1. \A i \in (k + 1)..n : s[i] \in Byte
    BY <1>1, <1>2
  <2> QED
    BY <1>1, <2>1, SubSeqProperties
<1>5. x \o y = s
  <2>1. x \o y = SubSeq(s, 1, n)
    BY <1>1, ConcatAdjacentSubSeq
  <2> QED
    BY <2>1, SubSeqFull
<1>6. ps = <<x, y>>
  OBVIOUS
<1> HIDE DEF x, y, n, k
<1> QED
  BY <1>3, <1>4, <1>5, <1>6, DataTwo

LEMMA DataNone ==
  ASSUME NEW ps \in Pieces, \A i \in 1..Len(ps) : ps[i] = None
  PROVE  Data(ps) = <<>>
<1> DEFINE F == [i \in 0..Len(ps) |-> <<>>]
           s == Filled(ps)
<1>1. /\ s \in Seq(Seq(Byte)) /\ Len(s) = Len(ps) /\ Len(ps) \in Nat
      /\ \A i \in 1..Len(ps) : s[i] = <<>>
      /\ Data(ps) = FlattenSeq(s)
  BY FilledFacts
<1> HIDE DEF s
<1>2. <<>> \in Seq(Byte) /\ <<>> \o <<>> = <<>>
  OBVIOUS
<1>3. F \in [0..Len(s) -> Seq(Byte)] /\ F[0] = <<>>
  BY <1>1, <1>2
<1>4. \A i \in 1..Len(s) : F[i] = F[i - 1] \o s[i]
  <2> TAKE i \in 1..Len(s)
  <2>1. i \in 0..Len(ps) /\ i - 1 \in 0..Len(ps)
    BY <1>1
  <2>2. F[i] = <<>> /\ F[i - 1] = <<>> /\ s[i] = <<>>
    BY <1>1, <2>1
  <2> QED
    BY <1>2, <2>2
<1>5. Len(s) \in 0..Len(ps)
  BY <1>1
<1>6. F[Len(s)] = <<>>
  BY <1>5
<1> HIDE DEF F
<1>7. FlattenSeq(s) = F[Len(s)]
  BY <1>1, <1>3, <1>4, FlattenRuns
<1> QED
  BY <1>1, <1>6, <1>7

-----------------------------------------------------------------------------
(* What a list of uploads is meant to be. *)

Known(m, list, k) ==
  /\ list \in Seq(Uploads) /\ k \in Nat /\ k <= Len(list)
  /\ \A i \in 1..k : m[list[i]] \in Seq(Byte)

Parts(m, list, k) == [i \in 1..k |-> m[list[i]]]

LEMMA PartsFacts ==
  ASSUME NEW m, NEW list, NEW k, Known(m, list, k)
  PROVE  /\ Parts(m, list, k) \in Seq(Seq(Byte)) /\ Len(Parts(m, list, k)) = k
         /\ \A i \in 1..k : Parts(m, list, k)[i] = m[list[i]]
         /\ MeantOf(m, list, k) = FlattenSeq(Parts(m, list, k)) /\ MeantOf(m, list, k) \in Seq(Byte)
<1> DEFINE B == Seq(Byte)
<1>1. k \in Nat /\ \A i \in 1..k : m[list[i]] \in B
  BY DEF Known
<1> HIDE DEF B
<1>2. Parts(m, list, k) \in Seq(B) /\ Len(Parts(m, list, k)) = k
  BY <1>1 DEF Parts
<1>3. MeantOf(m, list, k) = FlattenSeq(Parts(m, list, k))
  BY DEF MeantOf, Parts
<1>4. MeantOf(m, list, k) \in Seq(Byte)
  BY <1>2, <1>3, FlattenAppend DEF B
<1> QED
  BY <1>2, <1>3, <1>4 DEF Parts, B

LEMMA MeantMore ==
  ASSUME NEW m, NEW list, NEW k \in Nat, Known(m, list, k + 1)
  PROVE  /\ Known(m, list, k)
         /\ MeantOf(m, list, k + 1) = MeantOf(m, list, k) \o m[list[k + 1]]
<1> DEFINE B == Seq(Byte)
           p == Parts(m, list, k)
           q == Parts(m, list, k + 1)
           x == m[list[k + 1]]
<1>1. list \in Seq(Uploads) /\ k + 1 <= Len(list) /\ Len(list) \in Nat /\ \A i \in 1..(k + 1) : m[list[i]] \in B
  BY LenProperties DEF Known
<1>2. Known(m, list, k)
  <2>1. k <= Len(list) /\ \A i \in 1..k : i \in 1..(k + 1)
    BY <1>1
  <2> QED
    BY <1>1, <2>1 DEF Known
<1>3. /\ p \in Seq(B) /\ Len(p) = k /\ (\A i \in 1..k : p[i] = m[list[i]]) /\ MeantOf(m, list, k) = FlattenSeq(p)
  BY <1>2, PartsFacts
<1>4. /\ q \in Seq(B) /\ Len(q) = k + 1 /\ (\A i \in 1..(k + 1) : q[i] = m[list[i]])
      /\ MeantOf(m, list, k + 1) = FlattenSeq(q)
  BY PartsFacts
<1>5. k + 1 \in 1..(k + 1)
  OBVIOUS
<1>6. x \in B /\ q[k + 1] = x
  BY <1>1, <1>4, <1>5
<1> HIDE DEF B, p, q, x
<1>7. q = Append(p, x)
  <2> DEFINE a == Append(p, x)
  <2>1. a \in Seq(B) /\ Len(a) = k + 1 /\ a[k + 1] = x /\ \A i \in 1..k : a[i] = p[i]
    BY <1>3, <1>6
  <2> HIDE DEF a
  <2>2. ASSUME NEW i \in 1..(k + 1) PROVE q[i] = a[i]
    <3>1. CASE i = k + 1
      BY <1>6, <2>1, <3>1
    <3>2. CASE i # k + 1
      <4>1. i \in 1..k
        BY <3>2
      <4> QED
        BY <1>3, <1>4, <2>1, <4>1
    <3> QED
      BY <3>1, <3>2
  <2>3. q = a
    BY <1>4, <2>1, <2>2, SeqEqual
  <2> QED
    BY <2>3 DEF a
<1>8. FlattenSeq(Append(p, x)) = FlattenSeq(p) \o x
  BY <1>3, <1>6, FlattenAppend DEF B
<1> QED
  BY <1>2, <1>3, <1>4, <1>7, <1>8 DEF x

(* Only what the listed uploads are meant to be matters. *)
LEMMA MeantSame ==
  ASSUME NEW m, NEW n, NEW list, NEW k, \A i \in 1..k : n[list[i]] = m[list[i]]
  PROVE  MeantOf(n, list, k) = MeantOf(m, list, k)
BY DEF MeantOf

LEMMA MeantNone ==
  ASSUME NEW m, NEW list PROVE MeantOf(m, list, 0) = <<>>
<1>1. [i \in 1..0 |-> m[list[i]]] = <<>>
  OBVIOUS
<1> QED
  BY <1>1, FlattenAppend DEF MeantOf

(* The first uploads of the list are the start of all. *)
LEMMA MeantStart ==
  ASSUME NEW m, NEW list, Known(m, list, Len(list)), NEW k \in 0..Len(list)
  PROVE  /\ Known(m, list, k)
         /\ StartOf(MeantOf(m, list, k), MeantOf(m, list, Len(list)))
<1> DEFINE n == Len(list)
           p == Parts(m, list, k)
           q == Parts(m, list, n)
           rest == SubSeq(q, k + 1, Len(q))
<1>0. n \in Nat /\ k \in Nat /\ list \in Seq(Uploads)
  BY LenProperties DEF Known
<1>1. Known(m, list, k)
  <2>1. \A i \in 1..k : i \in 1..n
    BY <1>0
  <2> QED
    BY <1>0, <2>1 DEF Known
<1>2. /\ p \in Seq(Seq(Byte)) /\ Len(p) = k /\ (\A i \in 1..k : p[i] = m[list[i]])
      /\ MeantOf(m, list, k) = FlattenSeq(p) /\ MeantOf(m, list, k) \in Seq(Byte)
  BY <1>1, PartsFacts
<1>3. /\ q \in Seq(Seq(Byte)) /\ Len(q) = n /\ (\A i \in 1..n : q[i] = m[list[i]])
      /\ MeantOf(m, list, n) = FlattenSeq(q)
  BY PartsFacts
<1> HIDE DEF p, q
<1>4. SubSeq(q, 1, k) = p
  <2> DEFINE B == Seq(Byte)
             a == SubSeq(q, 1, k)
  <2>1. a \in Seq(B) /\ Len(a) = k /\ \A i \in 1..k : a[i] = q[i]
    BY <1>0, <1>3
  <2> HIDE DEF a, B
  <2>2. \A i \in 1..k : a[i] = p[i]
    <3> TAKE i \in 1..k
    <3>1. i \in 1..n
      BY <1>0
    <3> QED
      BY <1>2, <1>3, <2>1, <3>1
  <2>3. p \in Seq(B)
    BY <1>2 DEF B
  <2>4. a = p
    BY <1>2, <2>1, <2>2, <2>3, SeqEqual
  <2> QED
    BY <2>4 DEF a
<1>5. rest \in Seq(Seq(Byte)) /\ FlattenSeq(q) = FlattenSeq(p) \o FlattenSeq(rest)
  BY <1>3, <1>4, FlattenStart
<1> HIDE DEF rest
<1>6. FlattenSeq(p) \in Seq(Byte) /\ FlattenSeq(rest) \in Seq(Byte)
  BY <1>2, <1>5, FlattenAppend
<1>7. StartOf(FlattenSeq(p), FlattenSeq(p) \o FlattenSeq(rest))
  <2> DEFINE x == FlattenSeq(p)
             y == FlattenSeq(rest)
  <2>1. x \in Seq(Byte) /\ y \in Seq(Byte)
    BY <1>6
  <2> HIDE DEF x, y
  <2>2. StartOf(x, x \o y)
    BY <2>1 DEF StartOf
  <2> QED
    BY <2>2 DEF x, y
<1> QED
  BY <1>1, <1>2, <1>3, <1>5, <1>7

(* The pieces are the listed uploads, one each. *)
LEMMA DataMeant ==
  ASSUME NEW ps \in Pieces, NEW m, NEW list, Known(m, list, Len(list)), Len(ps) = Len(list),
         \A i \in 1..Len(list) : ps[i] = m[list[i]]
  PROVE  Data(ps) = MeantOf(m, list, Len(list))
<1> DEFINE n == Len(list)
           p == Filled(ps)
           q == Parts(m, list, n)
           B == Seq(Byte)
<1>1. /\ p \in Seq(B) /\ Len(p) = Len(ps) /\ Data(ps) = FlattenSeq(p)
      /\ \A i \in 1..Len(ps) : p[i] = IF ps[i] = None THEN <<>> ELSE ps[i]
  BY FilledFacts
<1>2. q \in Seq(B) /\ Len(q) = n /\ (\A i \in 1..n : q[i] = m[list[i]]) /\ MeantOf(m, list, n) = FlattenSeq(q)
  BY PartsFacts
<1>3. \A i \in 1..n : m[list[i]] # None
  BY NoneIs DEF Known
<1> HIDE DEF p, q, B
<1>4. \A i \in 1..n : p[i] = q[i]
  BY <1>1, <1>2, <1>3
<1>5. p = q
  BY <1>1, <1>2, <1>4, SeqEqual
<1> QED
  BY <1>1, <1>2, <1>5

(* A start of the same length is the whole. *)
LEMMA StartWhole ==
  ASSUME NEW s \in Seq(Byte), NEW t \in Seq(Byte), StartOf(s, t)
  PROVE  /\ Len(s) = Len(t) => s = t
         /\ IsPrefix(s, t)
<1>1. Len(s) \in Nat /\ Len(t) \in Nat /\ Len(s) <= Len(t) /\ \A i \in 1..Len(s) : s[i] = t[i]
  BY LenProperties DEF StartOf
<1>2. Len(s) = Len(t) => s = t
  BY <1>1, SeqEqual
<1>3. IsPrefix(s, t)
  BY <1>1 DEF IsPrefix
<1> QED
  BY <1>2, <1>3

-----------------------------------------------------------------------------
(* What is not touched stays as it is. *)

Same(u) ==
  /\ info'[u] = info[u] /\ pieces'[u] = pieces[u] /\ object'[u] = object[u]
  /\ todo'[u] = todo[u] /\ meant'[u] = meant[u] /\ (u \in deleted' <=> u \in deleted)

SamePost(f) == post'[f] = post[f] /\ announced'[f] = announced[f]

(* Nothing is meant otherwise later, and what was seen complete stays so. *)
Lasting(u) ==
  /\ meant[u] # None => meant'[u] = meant[u]
  /\ Ready(u) => Ready(u)'

LEMMA RightStays ==
  ASSUME NEW u, NEW s, Right(u, s), Lasting(u), store' = store PROVE Right(u, s)'
BY DEF Right, Lasting

LEMMA UploadFrame ==
  ASSUME NEW u \in Uploads, UploadOK(u), Same(u), store' = store
  PROVE  UploadOK(u)' /\ Lasting(u)
BY DEF UploadOK, Same, Lasting, Ready

LEMMA PostTyped ==
  ASSUME Types, NEW f \in Finals
  PROVE  /\ f \in Uploads /\ post[f] \in Posts
         /\ post[f].list \in Seq(Uploads) /\ Len(post[f].list) \in Nat
         /\ \A i \in 1..Len(post[f].list) : post[f].list[i] \in Uploads
         /\ post[f].checked \in Nat /\ post[f].size \in Nat /\ post[f].file \in Seq(Byte)
         /\ post[f].err \in BOOLEAN /\ post[f].aborts \in BOOLEAN /\ post[f].small \in BOOLEAN
         /\ post[f].copied \in SUBSET Nat /\ post[f].pc \in {"idle", "check", "done", "failed"} \cup Steps
<1>1. f \in Uploads /\ post[f] \in Posts
  BY DEF Types, Uploads
<1>2. /\ post[f].list \in Seq(Uploads) /\ post[f].checked \in Nat /\ post[f].size \in Nat
      /\ post[f].file \in Seq(Byte)
      /\ post[f].err \in BOOLEAN /\ post[f].aborts \in BOOLEAN /\ post[f].small \in BOOLEAN
      /\ post[f].copied \in SUBSET Nat /\ post[f].pc \in {"idle", "check", "done", "failed"} \cup Steps
  BY <1>1 DEF Posts
<1>3. Len(post[f].list) \in Nat /\ \A i \in 1..Len(post[f].list) : post[f].list[i] \in Uploads
  BY <1>2, LenProperties, ElementOfSeq
<1> QED
  BY <1>1, <1>2, <1>3

LEMMA UploadTyped ==
  ASSUME Types, NEW u \in Uploads
  PROVE  /\ info[u] \in Infos \cup {None} /\ pieces[u] \in Pieces \cup {None}
         /\ object[u] \in Seq(Byte) \cup {None} /\ meant[u] \in Seq(Byte) \cup {None}
         /\ info[u] # None => info[u].size \in Nat /\ info[u].deferred \in BOOLEAN /\ info[u].isFinal \in BOOLEAN
         /\ pieces[u] # None => pieces[u] \in Pieces /\ Data(pieces[u]) \in Seq(Byte) /\ Len(Data(pieces[u])) \in Nat
         /\ meant[u] # None => meant[u] \in Seq(Byte) /\ Len(meant[u]) \in Nat
<1>1. /\ info[u] \in Infos \cup {None} /\ pieces[u] \in Pieces \cup {None}
      /\ object[u] \in Seq(Byte) \cup {None} /\ meant[u] \in Seq(Byte) \cup {None}
  BY DEF Types
<1>2. info[u] # None => info[u].size \in Nat /\ info[u].deferred \in BOOLEAN /\ info[u].isFinal \in BOOLEAN
  BY <1>1 DEF Infos
<1>3. pieces[u] # None => pieces[u] \in Pieces /\ Data(pieces[u]) \in Seq(Byte)
  BY <1>1, FilledFacts
<1> QED
  BY <1>1, <1>2, <1>3, LenProperties

LEMMA PostFrame ==
  ASSUME NEW f \in Finals, Types, PostOK(f), store' = store, SamePost(f),
         \A u \in Uploads : Lasting(u), meant'[f] = meant[f],
         pieces'[f] = pieces[f] \/ pieces'[f] = None,
         Kept(f)' => Kept(f) /\ pieces'[f] = pieces[f] /\ Source(f)' = Source(f)
  PROVE  PostOK(f)'
<1> DEFINE p == post[f]
<1>0. /\ p.list \in Seq(Uploads) /\ Len(p.list) \in Nat /\ p.checked \in Nat
      /\ \A i \in 1..Len(p.list) : p.list[i] \in Uploads
  BY PostTyped
<1>1. post'[f] = p /\ announced'[f] = announced[f]
  BY DEF SamePost
<1>2. p.checked <= Len(p.list)
  BY DEF PostOK, Checks
<1>3. ASSUME NEW k \in Nat, k <= Len(p.list), \A i \in 1..k : Ready(p.list[i])
      PROVE  /\ \A i \in 1..k : Ready(p.list[i])' /\ meant'[p.list[i]] = meant[p.list[i]]
             /\ MeantOf(meant', p.list, k) = MeantOf(meant, p.list, k)
  <2>1. \A i \in 1..k : i \in 1..Len(p.list)
    BY <1>0, <1>3
  <2>2. \A i \in 1..k : p.list[i] \in Uploads
    BY <1>0, <2>1
  <2>3. \A i \in 1..k : Ready(p.list[i])' /\ meant'[p.list[i]] = meant[p.list[i]]
    <3> TAKE i \in 1..k
    <3> DEFINE u == p.list[i]
    <3>1. u \in Uploads /\ Ready(u)
      BY <1>3, <2>2
    <3> HIDE DEF u
    <3>2. Lasting(u)
      BY <3>1
    <3>3. Ready(u)' /\ meant'[u] = meant[u]
      BY <3>1, <3>2 DEF Lasting, Ready
    <3> QED
      BY <1>1, <3>3 DEF u
  <2>4. MeantOf(meant', p.list, k) = MeantOf(meant, p.list, k)
    BY <2>3, MeantSame
  <2> QED
    BY <2>3, <2>4
<1>4. Checks(f)'
  <2>0. ASSUME p.pc = "check", p.checked < Len(p.list) PROVE Sees(f)'
    <3>1. Sees(f) /\ Listed(f) \in Uploads /\ Listed(f)' = Listed(f)
      BY <1>0, <1>1, <2>0 DEF PostOK, Checks, Listed
    <3>2. PICK u \in Uploads : u = Listed(f)
      BY <3>1
    <3>3. PICK s : s = p.seen
      OBVIOUS
    <3>4. Right(u, s) /\ Lasting(u)
      BY <3>1, <3>2, <3>3 DEF Sees
    <3>5. Right(u, s)'
      BY <3>4, RightStays
    <3> QED
      BY <1>1, <3>1, <3>2, <3>3, <3>5 DEF Sees, Right
  <2>1. ASSUME p.pc = "check"
        PROVE  /\ \A i \in 1..p.checked : Ready(p.list[i])'
               /\ p.size = Len(MeantOf(meant', p.list, p.checked))
    <3>1. /\ \A i \in 1..p.checked : Ready(p.list[i])
          /\ p.size = Len(MeantOf(meant, p.list, p.checked))
      BY <2>1 DEF PostOK, Checks
    <3> QED
      BY <1>0, <1>2, <1>3, <3>1
  <2> QED
    BY <1>1, <2>0, <2>1 DEF PostOK, Checks
<1>5. ASSUME p.pc \in Steps
      PROVE  /\ \A i \in 1..Len(p.list) : Ready(p.list[i])' /\ meant'[p.list[i]] = meant[p.list[i]]
             /\ \A k \in 0..Len(p.list) : MeantOf(meant', p.list, k) = MeantOf(meant, p.list, k)
  <2>1. \A i \in 1..Len(p.list) : Ready(p.list[i])
    BY <1>5 DEF PostOK, Runs
  <2>2. \A k \in 0..Len(p.list) : MeantOf(meant', p.list, k) = MeantOf(meant, p.list, k)
    <3> TAKE k \in 0..Len(p.list)
    <3>1. k \in Nat /\ k <= Len(p.list) /\ \A i \in 1..k : Ready(p.list[i])
      <4>1. k \in Nat /\ k <= Len(p.list) /\ \A i \in 1..k : i \in 1..Len(p.list)
        BY <1>0
      <4> QED
        BY <2>1, <4>1
    <3> QED
      BY <1>3, <3>1
  <2>3. Len(p.list) <= Len(p.list)
    BY <1>0
  <2> QED
    BY <1>0, <1>3, <2>1, <2>2, <2>3
<1>6. Runs(f)'
  <2>1. Len(p.list) \in 0..Len(p.list)
    BY <1>0
  <2> QED
    BY <1>1, <1>5, <2>1 DEF PostOK, Runs
<1>7. Appends(f)'
  <2> SUFFICES ASSUME p.pc \in {"open", "append"}
               PROVE  /\ store' = "file"
                      /\ Kept(f)' => pieces'[f] # None
                      /\ \E k \in Nat : /\ Counted(f, k)'
                                        /\ pieces'[f] # None => Data(pieces'[f]) = MeantOf(meant', p.list, k)
    BY <1>1 DEF Appends
  <2>1. p.pc \in Steps
    BY DEF Steps
  <2>2. store = "file"
    BY DEF PostOK, Appends
  <2>3. PICK k \in Nat : Counted(f, k) /\ (pieces[f] # None => Data(pieces[f]) = MeantOf(meant, p.list, k))
    BY DEF PostOK, Appends
  <2>4. Counted(f, k)' /\ k \in 0..Len(p.list)
    BY <1>1, <2>3 DEF Counted
  <2>5. pieces'[f] # None => Data(pieces'[f]) = MeantOf(meant', p.list, k)
    BY <1>5, <2>1, <2>3, <2>4
  <2>6. Kept(f)' => pieces'[f] # None
    BY DEF PostOK, Appends
  <2> QED
    BY <2>2, <2>4, <2>5, <2>6
<1>8. Downloads(f)'
  <2>1. ASSUME p.pc = "download"
        PROVE  store' = "s3" /\ \E k \in Nat : Counted(f, k)' /\ p.file = MeantOf(meant', p.list, k)
    <3>1. p.pc \in Steps
      BY <2>1 DEF Steps
    <3>2. store = "s3"
      BY <2>1 DEF PostOK, Downloads
    <3>3. PICK k \in Nat : Counted(f, k) /\ p.file = MeantOf(meant, p.list, k)
      BY <2>1 DEF PostOK, Downloads
    <3>4. Counted(f, k)' /\ k \in 0..Len(p.list)
      BY <1>1, <3>3 DEF Counted
    <3> QED
      BY <1>5, <3>1, <3>2, <3>3, <3>4
  <2> QED
    BY <1>1, <2>1 DEF PostOK, Downloads
<1>9. Copies(f)'
  <2>1. p.pc = "multipart" => p.pc \in Steps
    BY DEF Steps
  <2> QED
    BY <1>1, <1>5, <2>1 DEF PostOK, Copies
<1>10. Announces(f)'
  BY <1>1 DEF PostOK, Announces
<1> QED
  BY <1>4, <1>6, <1>7, <1>8, <1>9, <1>10 DEF PostOK

(* A step touches one upload only. *)
LEMMA OneUpload ==
  ASSUME ConcatInv, Types', store' = store, NEW x \in Uploads,
         \A u \in Uploads \ {x} : Same(u), \A f \in Finals \ {x} : SamePost(f),
         UploadOK(x)', Lasting(x), x \in Finals => PostOK(x)'
  PROVE  ConcatInv'
<1>1. \A u \in Uploads : UploadOK(u)' /\ Lasting(u)
  <2> TAKE u \in Uploads
  <2>1. CASE u = x
    BY <2>1
  <2>2. CASE u # x
    <3>1. UploadOK(u) /\ Same(u)
      BY <2>2 DEF ConcatInv
    <3> QED
      BY <3>1, UploadFrame
  <2> QED
    BY <2>1, <2>2
<1>2. ASSUME NEW f \in Finals, f # x PROVE PostOK(f)'
  <2>1. Same(f) /\ SamePost(f) /\ PostOK(f) /\ Types
    BY <1>2 DEF Uploads, ConcatInv
  <2>2. /\ meant'[f] = meant[f] /\ pieces'[f] = pieces[f]
        /\ (Kept(f)' => Kept(f) /\ pieces'[f] = pieces[f] /\ Source(f)' = Source(f))
    BY <2>1 DEF Same, Kept, Source
  <2> QED
    BY <1>1, <2>1, <2>2, PostFrame
<1>3. \A f \in Finals : PostOK(f)'
  BY <1>2
<1> QED
  BY <1>1, <1>3 DEF ConcatInv

-----------------------------------------------------------------------------
(* The requests for one upload. *)

LEMMA BytesFacts ==
  ASSUME NEW u \in Uploads, NEW from \in Nat, NEW n \in Nat
  PROVE  /\ Bytes(u, from, n) \in Seq(Byte) /\ Len(Bytes(u, from, n)) = n
         /\ \A k \in 1..n : Bytes(u, from, n)[k] = <<u, from + k>>
<1>1. \A k \in 1..n : <<u, from + k>> \in Byte
  BY DEF Byte
<1> QED
  BY <1>1 DEF Bytes

(* The next bytes of what the client has in mind. *)
LEMMA BytesMore ==
  ASSUME NEW u \in Uploads, NEW m \in Nat, NEW n \in Nat, NEW s \in Seq(Byte),
         StartOf(s, Bytes(u, 0, m)), Len(s) + n <= m
  PROVE  /\ s \o Bytes(u, Len(s), n) \in Seq(Byte)
         /\ Len(s \o Bytes(u, Len(s), n)) = Len(s) + n
         /\ StartOf(s \o Bytes(u, Len(s), n), Bytes(u, 0, m))
<1> DEFINE t == Bytes(u, 0, m)
           b == Bytes(u, Len(s), n)
           l == Len(s)
<1>0. l \in Nat
  BY LenProperties
<1>1. t \in Seq(Byte) /\ Len(t) = m /\ \A k \in 1..m : t[k] = <<u, 0 + k>>
  BY BytesFacts
<1>2. b \in Seq(Byte) /\ Len(b) = n /\ \A k \in 1..n : b[k] = <<u, l + k>>
  BY <1>0, BytesFacts
<1>3. \A k \in 1..l : s[k] = t[k]
  BY DEF StartOf
<1>4. StartOf(s, t)
  OBVIOUS
<1> HIDE DEF t, b
<1>5. /\ s \o b \in Seq(Byte) /\ Len(s \o b) = l + n
      /\ \A k \in 1..(l + n) : (s \o b)[k] = IF k <= l THEN s[k] ELSE b[k - l]
  BY <1>0, <1>2, ConcatProperties
<1>6. ASSUME NEW k \in 1..(l + n) PROVE (s \o b)[k] = t[k]
  <2>1. CASE k <= l
    BY <1>0, <1>3, <1>5, <2>1
  <2>2. CASE ~(k <= l)
    <3>1. k - l \in 1..n /\ k \in 1..m /\ l + (k - l) = 0 + k
      BY <1>0, <2>2
    <3>2. b[k - l] = <<u, l + (k - l)>> /\ t[k] = <<u, 0 + k>>
      BY <1>1, <1>2, <3>1
    <3> QED
      BY <1>5, <2>2, <3>1, <3>2
  <2> QED
    BY <2>1, <2>2
<1>7. StartOf(s \o b, t)
  BY <1>0, <1>1, <1>5, <1>6 DEF StartOf
<1> QED
  BY <1>5, <1>7 DEF t, b

LEMMA NoFinalIsPartial == /\ \A p \in Partials : p \in Uploads /\ p \notin Finals
                          /\ \A u \in Uploads : u \in Partials \/ u \in Finals
BY ConcatenationAssumption DEF Uploads

(* A request for one upload leaves every POST alone. *)
LEMMA RequestStep ==
  ASSUME ConcatInv, Types', store' = store, NEW x \in Uploads,
         \A u \in Uploads \ {x} : Same(u), post' = post, announced' = announced,
         UploadOK(x)', Lasting(x),
         x \in Finals => /\ meant'[x] = meant[x]
                         /\ pieces'[x] = pieces[x] \/ pieces'[x] = None
                         /\ Kept(x)' => Kept(x) /\ pieces'[x] = pieces[x] /\ Source(x)' = Source(x)
  PROVE  ConcatInv'
<1>1. \A f \in Finals : SamePost(f)
  BY DEF SamePost
<1>2. \A u \in Uploads : Lasting(u)
  <2> TAKE u \in Uploads
  <2>1. CASE u = x
    BY <2>1
  <2>2. CASE u # x
    <3>1. UploadOK(u) /\ Same(u)
      BY <2>2 DEF ConcatInv
    <3> QED
      BY <3>1, UploadFrame
  <2> QED
    BY <2>1, <2>2
<1>3. ASSUME x \in Finals PROVE PostOK(x)'
  <2>1. Types /\ PostOK(x) /\ SamePost(x)
    BY <1>1, <1>3 DEF ConcatInv
  <2> QED
    BY <1>2, <1>3, <2>1, PostFrame
<1> QED
  BY <1>1, <1>3, OneUpload

LEMMA PostPartialKeeps ==
  ASSUME ConcatInv, NEW p \in Partials, PostPartial(p) PROVE ConcatInv'
<1>1. p \in Uploads /\ p \notin Finals /\ Types /\ UploadOK(p)
  BY NoFinalIsPartial DEF ConcatInv
<1>2. PICK n \in 0..MaxSize, deferred \in BOOLEAN :
       /\ meant' = [meant EXCEPT ![p] = Bytes(p, 0, n)]
       /\ info' = [info EXCEPT ![p] = [size |-> IF deferred THEN 0 ELSE n,
                                      deferred |-> deferred, isFinal |-> FALSE]]
       /\ todo' = [todo EXCEPT ![p] = IF n = 0 /\ ~deferred THEN {"finish"} ELSE {}]
  BY DEF PostPartial
<1> DEFINE b == Bytes(p, 0, n)
           r == [size |-> IF deferred THEN 0 ELSE n, deferred |-> deferred, isFinal |-> FALSE]
           t == IF n = 0 /\ ~deferred THEN {"finish"} ELSE {}
           e == << <<>>, <<>> >>
<1>3. n \in Nat /\ b \in Seq(Byte) /\ Len(b) = n /\ b = Bytes(p, 0, Len(b)) /\ (n = 0 => b = <<>>)
  <2>1. n \in Nat /\ 0 \in Nat
    BY ConcatenationAssumption
  <2>2. b \in Seq(Byte) /\ Len(b) = n
    BY <1>1, <2>1, BytesFacts
  <2> QED
    BY <2>1, <2>2, EmptySeq
<1>4. /\ r \in Infos /\ r.isFinal = FALSE /\ r.deferred = deferred /\ (~deferred => r.size = n)
  BY <1>3 DEF Infos
<1>5. e \in Pieces /\ Data(e) = <<>> /\ Len(e) = 2 /\ e[2] # None
  <2> DEFINE y == <<>>
  <2>1. y \in Seq(Byte) /\ y \o y = <<>> /\ e = <<y, y>>
    OBVIOUS
  <2> HIDE DEF y, e
  <2> QED
    BY <2>1, DataTwo
<1>6. t \in SUBSET {"write", "finish", "bin", "info", "abort", "object"} /\ ("finish" \in t => n = 0 /\ t = {"finish"})
      /\ "write" \notin t
  OBVIOUS
<1>7. /\ meant' = [meant EXCEPT ![p] = b] /\ info' = [info EXCEPT ![p] = r] /\ todo' = [todo EXCEPT ![p] = t]
      /\ pieces' = [pieces EXCEPT ![p] = e] /\ store' = store /\ object' = object /\ post' = post
      /\ announced' = announced /\ deleted' = deleted /\ meant[p] = None
  BY <1>2 DEF PostPartial
<1>8. StartOf(Data(e), b)
  BY <1>3, <1>5 DEF StartOf
<1>9. b # None /\ r # None /\ e # None
  BY <1>3, <1>4, <1>5, NoneIs
<1> HIDE DEF b, r, t, e
<1>10. Types'
  BY <1>1, <1>3, <1>4, <1>5, <1>6, <1>7 DEF Types
<1>11. \A u \in Uploads \ {p} : Same(u)
  BY <1>7 DEF Same, Types
<1>12. /\ meant'[p] = b /\ info'[p] = r /\ todo'[p] = t /\ pieces'[p] = e /\ object'[p] = None
  BY <1>1, <1>7 DEF Types, UploadOK
<1>13. UploadOK(p)'
  BY <1>1, <1>3, <1>4, <1>5, <1>6, <1>7, <1>8, <1>9, <1>12 DEF UploadOK
<1>14. Lasting(p)
  BY <1>7 DEF Lasting, Ready
<1> QED
  BY <1>1, <1>7, <1>10, <1>11, <1>13, <1>14, RequestStep

LEMMA PatchFileKeeps ==
  ASSUME ConcatInv, NEW u \in Uploads, PatchFile(u) PROVE ConcatInv'
<1>1. Types /\ UploadOK(u) /\ info[u] # None /\ ~info[u].isFinal
  BY DEF ConcatInv, PatchFile, Exists
<1>2. u \in Partials /\ u \notin Finals /\ meant[u] # None
  BY <1>1, NoFinalIsPartial DEF UploadOK
<1>3. PICK declares \in BOOLEAN : Patch(u, declares)
  BY DEF PatchFile
<1> DEFINE m == Len(meant[u])
           r == IF declares THEN [info[u] EXCEPT !.size = m, !.deferred = FALSE] ELSE info[u]
<1>4. info[u] \in Infos /\ m \in Nat
  BY <1>1, <1>2, UploadTyped
<1>5. /\ r \in Infos /\ r.isFinal = info[u].isFinal /\ (r.deferred => info[u].deferred)
      /\ (~r.deferred => r.size = m)
  <2>1. CASE declares
    BY <1>4, <2>1 DEF Infos
  <2>2. CASE ~declares
    BY <1>1, <1>4, <2>2 DEF UploadOK
  <2> QED
    BY <2>1, <2>2
<1>6. /\ todo[u] = {} /\ todo' = [todo EXCEPT ![u] = {"write"}]
      /\ info' = [info EXCEPT ![u] = r]
  <2>1. /\ todo[u] = {} /\ todo' = [todo EXCEPT ![u] = {"write"}]
        /\ info' = IF declares THEN [info EXCEPT ![u].size = Len(meant[u]), ![u].deferred = FALSE] ELSE info
    BY <1>3 DEF Patch
  <2>2. CASE declares
    BY <2>1, <2>2, <1>4 DEF Types
  <2>3. CASE ~declares
    BY <1>1, <2>1, <2>3 DEF Types
  <2> QED
    BY <2>1, <2>2, <2>3
<1>7. /\ store' = store /\ pieces' = pieces /\ object' = object /\ post' = post
      /\ meant' = meant /\ deleted' = deleted /\ announced' = announced
  BY <1>3 DEF Patch
<1>8. r # None
  BY <1>5, NoneIs
<1> HIDE DEF r, m
<1>9. Types'
  BY <1>1, <1>5, <1>6, <1>7 DEF Types
<1>10. \A v \in Uploads \ {u} : Same(v)
  BY <1>1, <1>6, <1>7 DEF Same, Types
<1>11. info'[u] = r /\ todo'[u] = {"write"}
  BY <1>1, <1>6 DEF Types
<1>12. UploadOK(u)' /\ Lasting(u)
  BY <1>1, <1>2, <1>5, <1>7, <1>8, <1>11 DEF UploadOK, Lasting, Ready, m
<1> QED
  BY <1>2, <1>7, <1>9, <1>10, <1>12, RequestStep

LEMMA WriteChunkKeeps ==
  ASSUME ConcatInv, NEW u \in Uploads, WriteChunk(u) PROVE ConcatInv'
<1> DEFINE d == Data(pieces[u])
           m == Len(meant[u])
<1>1. Types /\ UploadOK(u) /\ todo[u] = {"write"}
  BY DEF ConcatInv, WriteChunk
<1>2. u \in Partials /\ u \notin Finals /\ info[u] # None /\ meant[u] # None
  BY <1>1, NoFinalIsPartial DEF UploadOK
<1>3. /\ store' = store /\ info' = info /\ object' = object /\ post' = post
      /\ meant' = meant /\ deleted' = deleted /\ announced' = announced
  BY DEF WriteChunk
<1>4. CASE pieces[u] = None
  <2>1. pieces' = pieces /\ todo' = [todo EXCEPT ![u] = {}]
    BY <1>4 DEF WriteChunk
  <2>2. Types'
    BY <1>1, <1>3, <2>1 DEF Types
  <2>3. (\A v \in Uploads \ {u} : Same(v)) /\ todo'[u] = {}
    BY <1>1, <1>3, <2>1 DEF Same, Types
  <2>4. UploadOK(u)' /\ Lasting(u)
    BY <1>1, <1>2, <1>3, <1>4, <2>1, <2>3 DEF UploadOK, Lasting, Ready
  <2> QED
    BY <1>2, <1>3, <2>2, <2>3, <2>4, RequestStep
<1>5. CASE pieces[u] # None
  <2>1. /\ d \in Seq(Byte) /\ Len(d) \in Nat /\ m \in Nat /\ meant[u] \in Seq(Byte)
        /\ info[u].size \in Nat /\ info[u].deferred \in BOOLEAN
    BY <1>1, <1>2, <1>5, UploadTyped
  <2>2. StartOf(d, meant[u]) /\ meant[u] = Bytes(u, 0, m)
    BY <1>1, <1>2, <1>5 DEF UploadOK
  <2>3. Offset(u) = Len(d)
    BY <1>5 DEF Offset
  <2>4. PICK n \in 0..(m - Len(d)), tail \in 0..MinPartSize :
          LET all      == d \o Bytes(u, Len(d), n)
              complete == ~info[u].deferred /\ Len(all) = info[u].size
              k        == Len(all) - tail
          IN  /\ tail > 0 => store = "s3" /\ tail < MinPartSize /\ tail <= Len(all) /\ ~complete
              /\ pieces' = [pieces EXCEPT ![u] = <<SubSeq(all, 1, k), SubSeq(all, k + 1, Len(all))>>]
              /\ todo' = [todo EXCEPT ![u] = IF complete THEN {"finish"} ELSE {}]
    BY <1>5, <2>3 DEF WriteChunk
  <2> DEFINE all == d \o Bytes(u, Len(d), n)
             t == IF ~info[u].deferred /\ Len(all) = info[u].size THEN {"finish"} ELSE {}
             ps == <<SubSeq(all, 1, Len(all) - tail), SubSeq(all, Len(all) - tail + 1, Len(all))>>
  <2>5. n \in Nat /\ Len(d) + n <= m /\ tail \in Nat
    BY <2>1, ConcatenationAssumption
  <2>6. all \in Seq(Byte) /\ Len(all) = Len(d) + n /\ StartOf(all, meant[u])
    <3>1. StartOf(d, Bytes(u, 0, m))
      BY <2>2
    <3> HIDE DEF d, m
    <3>2. all \in Seq(Byte) /\ Len(all) = Len(d) + n /\ StartOf(all, Bytes(u, 0, m))
      BY <2>1, <2>5, <3>1, BytesMore
    <3> QED
      BY <2>2, <3>2
  <2>7. /\ tail > 0 => tail <= Len(all)
        /\ pieces' = [pieces EXCEPT ![u] = ps] /\ todo' = [todo EXCEPT ![u] = t]
    BY <2>4
  <2>8. t = {} \/ (t = {"finish"} /\ all = meant[u])
    <3>1. ASSUME ~info[u].deferred, Len(all) = info[u].size PROVE all = meant[u]
      <4>1. Len(all) = Len(meant[u])
        BY <1>1, <1>2, <3>1 DEF UploadOK
      <4> HIDE DEF all
      <4> QED
        BY <2>1, <2>6, <4>1, StartWhole
    <3> QED
      BY <3>1
  <2> HIDE DEF all, t
  <2>9. ps \in Pieces /\ Data(ps) = all /\ Len(ps) = 2 /\ ps[2] # None
    <3>1. tail <= Len(all)
      BY <2>1, <2>5, <2>6, <2>7
    <3> QED
      BY <2>5, <2>6, <3>1, DataSplit
  <2>10. ps # None
    BY <2>9, NoneIs
  <2> HIDE DEF ps
  <2>11. Types'
    BY <1>1, <1>3, <2>7, <2>8, <2>9 DEF Types
  <2>12. /\ \A v \in Uploads \ {u} : Same(v)
         /\ pieces'[u] = ps /\ todo'[u] = t
    BY <1>1, <1>3, <2>7 DEF Same, Types
  <2>13. UploadOK(u)'
    BY <1>1, <1>2, <1>3, <2>6, <2>8, <2>9, <2>10, <2>12 DEF UploadOK
  <2>14. Lasting(u)
    <3>1. ASSUME Ready(u), store = "file" PROVE Data(ps) = meant[u]
      <4>1. d = meant[u]
        BY <1>5, <3>1 DEF Ready
      <4>2. Len(all) = Len(meant[u])
        BY <2>1, <2>5, <2>6, <4>1
      <4> QED
        BY <2>1, <2>6, <2>9, <4>2, StartWhole
    <3> QED
      BY <1>2, <1>3, <2>12, <3>1 DEF Lasting, Ready
  <2> QED
    BY <1>2, <1>3, <2>11, <2>12, <2>13, <2>14, RequestStep
<1> QED
  BY <1>4, <1>5

LEMMA FinishUploadKeeps ==
  ASSUME ConcatInv, NEW u \in Uploads, FinishUpload(u) PROVE ConcatInv'
<1>1. Types /\ UploadOK(u) /\ "finish" \in todo[u]
  BY DEF ConcatInv, FinishUpload
<1>2. /\ todo[u] = {"finish"} /\ u \in Partials /\ u \notin Finals
      /\ pieces[u] # None /\ Data(pieces[u]) = meant[u] /\ Data(pieces[u]) \in Seq(Byte) /\ meant[u] # None
      /\ Data(pieces[u]) # None
  BY <1>1, NoFinalIsPartial, UploadTyped, NoneIs DEF UploadOK
<1>3. /\ todo' = [todo EXCEPT ![u] = {}] /\ store' = store /\ info' = info /\ post' = post
      /\ meant' = meant /\ deleted' = deleted /\ announced' = announced
  BY DEF FinishUpload
<1>4. CASE store = "file"
  <2>1. pieces' = pieces /\ object' = object
    BY <1>4 DEF FinishUpload, Completed
  <2>2. Types'
    BY <1>1, <1>3, <2>1 DEF Types
  <2>3. (\A v \in Uploads \ {u} : Same(v)) /\ todo'[u] = {}
    BY <1>1, <1>3, <2>1 DEF Same, Types
  <2>4. UploadOK(u)' /\ Lasting(u)
    BY <1>1, <1>2, <1>3, <2>1, <2>3 DEF UploadOK, Lasting, Ready
  <2> QED
    BY <1>2, <1>3, <2>2, <2>3, <2>4, RequestStep
<1>5. CASE store # "file"
  <2>1. /\ object' = [object EXCEPT ![u] = Data(pieces[u])]
        /\ pieces' = [pieces EXCEPT ![u] = None]
    BY <1>5 DEF FinishUpload, Completed
  <2>2. Types'
    BY <1>1, <1>2, <1>3, <2>1 DEF Types
  <2>3. /\ \A v \in Uploads \ {u} : Same(v)
        /\ todo'[u] = {} /\ object'[u] = meant[u] /\ pieces'[u] = None
    BY <1>1, <1>2, <1>3, <2>1 DEF Same, Types
  <2>4. UploadOK(u)' /\ Lasting(u)
    BY <1>1, <1>2, <1>3, <2>3 DEF UploadOK, Lasting, Ready
  <2> QED
    BY <1>2, <1>3, <2>2, <2>3, <2>4, RequestStep
<1> QED
  BY <1>4, <1>5

LEMMA DelFileKeeps ==
  ASSUME ConcatInv, NEW u \in Uploads, DelFile(u) \/ RequestFails(u) PROVE ConcatInv'
<1> DEFINE t == IF DelFile(u) THEN IF store = "file" THEN {"bin", "info"} ELSE {"abort", "object", "info"} ELSE {}
           x == IF DelFile(u) THEN {u} \cap Finals ELSE {}
<1>1. Types /\ UploadOK(u)
  BY DEF ConcatInv
<1>2. /\ todo' = [todo EXCEPT ![u] = t] /\ store' = store /\ info' = info /\ pieces' = pieces /\ object' = object
      /\ post' = post /\ meant' = meant /\ deleted' = deleted \cup x /\ announced' = announced
      /\ meant[u] = None => t = {}
  <2>1. CASE DelFile(u)
    BY <1>1, <2>1 DEF DelFile, storeVars, UploadOK, Exists
  <2>2. CASE ~DelFile(u)
    BY <2>2 DEF RequestFails, storeVars
  <2> QED
    BY <2>1, <2>2
<1>3. /\ t \in SUBSET {"bin", "info", "abort", "object"} /\ "finish" \notin t /\ "write" \notin t
      /\ x \subseteq {u} \cap Finals /\ (u \in Finals /\ t # {} => u \in x)
  OBVIOUS
<1> HIDE DEF t, x
<1>4. Types'
  BY <1>1, <1>2, <1>3 DEF Types
<1>5. (\A v \in Uploads \ {u} : Same(v)) /\ todo'[u] = t
  BY <1>1, <1>2, <1>3 DEF Same, Types
<1>6. UploadOK(u)' /\ Lasting(u)
  BY <1>1, <1>2, <1>3, <1>5 DEF UploadOK, Lasting, Ready
<1>7. Kept(u)' => Kept(u) /\ pieces'[u] = pieces[u] /\ Source(u)' = Source(u)
  BY <1>2 DEF Kept, Source
<1> QED
  BY <1>2, <1>4, <1>5, <1>6, <1>7, RequestStep

LEMMA TerminateKeeps ==
  ASSUME ConcatInv, NEW u \in Uploads, Terminate(u) PROVE ConcatInv'
<1>1. Types /\ UploadOK(u)
  BY DEF ConcatInv
<1>2. PICK t \in todo[u] \cap {"bin", "abort", "object", "info"} :
       /\ pieces' = [pieces EXCEPT ![u] = IF t \in {"bin", "abort"} THEN None ELSE @]
       /\ object' = [object EXCEPT ![u] = IF t = "object" THEN None ELSE @]
       /\ info' = [info EXCEPT ![u] = IF t = "info" THEN None ELSE @]
       /\ todo' = [todo EXCEPT ![u] = @ \ {t}]
  BY DEF Terminate
<1>3. store' = store /\ post' = post /\ meant' = meant /\ deleted' = deleted /\ announced' = announced
  BY DEF Terminate
<1>4. "finish" \notin todo[u] /\ "write" \notin todo[u] /\ meant[u] # None /\ (u \in Finals => u \in deleted)
  BY <1>1, <1>2 DEF UploadOK
<1>5. Types'
  BY <1>1, <1>2, <1>3 DEF Types
<1>6. \A v \in Uploads \ {u} : Same(v)
  BY <1>1, <1>2, <1>3 DEF Same, Types
<1>7. /\ pieces'[u] \in {pieces[u], None} /\ object'[u] \in {object[u], None}
      /\ info'[u] \in {info[u], None} /\ todo'[u] \subseteq todo[u]
  BY <1>1, <1>2 DEF Types
<1>8. UploadOK(u)' /\ Lasting(u)
  BY <1>1, <1>3, <1>4, <1>7 DEF UploadOK, Lasting, Ready
<1>9. u \in Finals => ~Kept(u)'
  BY <1>3, <1>4 DEF Kept
<1> QED
  BY <1>3, <1>5, <1>6, <1>7, <1>8, <1>9, RequestStep

-----------------------------------------------------------------------------
(* The POST of a final upload. *)

(* What a step of the POST may write. *)
Writes(f, q, a, i, ps, o, m) ==
  /\ post' = [post EXCEPT ![f] = q] /\ announced' = [announced EXCEPT ![f] = a]
  /\ info' = [info EXCEPT ![f] = i] /\ pieces' = [pieces EXCEPT ![f] = ps]
  /\ object' = [object EXCEPT ![f] = o] /\ meant' = [meant EXCEPT ![f] = m]
  /\ todo' = todo /\ store' = store /\ deleted' = deleted

LEMMA PostWrites ==
  ASSUME Types, NEW f \in Finals, NEW q \in Posts, NEW a \in 0..2,
         NEW i \in Infos \cup {None}, NEW ps \in Pieces \cup {None},
         NEW o \in Seq(Byte) \cup {None}, NEW m \in Seq(Byte) \cup {None},
         Writes(f, q, a, i, ps, o, m)
  PROVE  /\ Types' /\ f \in Uploads
         /\ \A u \in Uploads \ {f} : Same(u)
         /\ \A g \in Finals \ {f} : SamePost(g)
         /\ post'[f] = q /\ announced'[f] = a /\ info'[f] = i /\ pieces'[f] = ps
         /\ object'[f] = o /\ meant'[f] = m /\ todo'[f] = todo[f]
<1>1. f \in Uploads
  BY DEF Uploads
<1>2. Types'
  BY DEF Types, Writes
<1>3. \A u \in Uploads \ {f} : Same(u)
  BY DEF Same, Types, Writes
<1>4. \A g \in Finals \ {f} : SamePost(g)
  BY DEF SamePost, Types, Writes
<1>5. post'[f] = q /\ announced'[f] = a /\ info'[f] = i /\ pieces'[f] = ps
      /\ object'[f] = o /\ meant'[f] = m /\ todo'[f] = todo[f]
  BY <1>1 DEF Types, Writes
<1> QED
  BY <1>1, <1>2, <1>3, <1>4, <1>5

(* A step of the POST that writes to nothing but its own record. *)
LEMMA PostAlone ==
  ASSUME ConcatInv, NEW f \in Finals, NEW q \in Posts, NEW a \in 0..2,
         post' = [post EXCEPT ![f] = q], announced' = [announced EXCEPT ![f] = a],
         UNCHANGED <<storeVars, todo, meant, deleted>>
  PROVE  /\ post'[f] = q /\ announced'[f] = a
         /\ \A u \in Uploads : Ready(u)' <=> Ready(u)
         /\ Kept(f)' <=> Kept(f)
         /\ Source(f)' = Source(f)
         /\ PostOK(f)' => ConcatInv'
<1>1. Types /\ f \in Uploads /\ UploadOK(f)
  BY DEF ConcatInv, Uploads
<1>2. /\ store' = store /\ info' = info /\ pieces' = pieces /\ object' = object /\ todo' = todo /\ meant' = meant
      /\ deleted' = deleted
  BY DEF storeVars
<1>3. Writes(f, q, a, info[f], pieces[f], object[f], meant[f])
  BY <1>1, <1>2 DEF Types, Writes
<1>4. /\ info[f] \in Infos \cup {None} /\ pieces[f] \in Pieces \cup {None}
      /\ object[f] \in Seq(Byte) \cup {None} /\ meant[f] \in Seq(Byte) \cup {None}
  BY <1>1, UploadTyped
<1>5. /\ Types'
      /\ \A u \in Uploads \ {f} : Same(u)
      /\ \A g \in Finals \ {f} : SamePost(g)
      /\ post'[f] = q /\ announced'[f] = a
  <2> DEFINE i == info[f]
             ps == pieces[f]
             o == object[f]
             m == meant[f]
  <2>1. /\ i \in Infos \cup {None} /\ ps \in Pieces \cup {None} /\ o \in Seq(Byte) \cup {None}
        /\ m \in Seq(Byte) \cup {None} /\ Writes(f, q, a, i, ps, o, m)
    BY <1>3, <1>4
  <2> HIDE DEF i, ps, o, m
  <2>2. /\ Types' /\ f \in Uploads
        /\ \A u \in Uploads \ {f} : Same(u)
        /\ \A g \in Finals \ {f} : SamePost(g)
        /\ post'[f] = q /\ announced'[f] = a /\ info'[f] = i /\ pieces'[f] = ps
        /\ object'[f] = o /\ meant'[f] = m /\ todo'[f] = todo[f]
    BY <1>1, <2>1, PostWrites
  <2> QED
    BY <2>2
<1>6. UploadOK(f)' /\ Lasting(f)
  BY <1>1, <1>2 DEF UploadOK, Lasting, Ready
<1>7. /\ \A u \in Uploads : Ready(u)' <=> Ready(u)
      /\ Kept(f)' <=> Kept(f)
      /\ Source(f)' = Source(f)
  BY <1>2 DEF Ready, Kept, Source
<1> QED
  BY <1>1, <1>2, <1>5, <1>6, <1>7, OneUpload

LEMMA NoPostTyped ==
  /\ NoPost \in Posts
  /\ NoPost.pc = "idle" /\ NoPost.list = <<>> /\ NoPost.checked = 0 /\ NoPost.size = 0 /\ NoPost.copied = {}
  /\ NoPost.err = FALSE /\ NoPost.file = <<>> /\ NoPost.aborts = FALSE /\ NoPost.seen = NothingSeen
  /\ NothingSeen \in Seens
<1>1. <<>> \in Seq(Uploads) /\ <<>> \in Seq(Byte) /\ {} \in SUBSET Nat
  OBVIOUS
<1>2. NothingSeen \in Seens
  BY DEF NothingSeen, Seens
<1> QED
  BY <1>1, <1>2 DEF NoPost, Posts

LEMMA RespondKeeps ==
  ASSUME ConcatInv, NEW f \in Finals, NEW pc \in {"done", "failed"}, Respond(f, pc), NEW a \in 0..2,
         announced' = [announced EXCEPT ![f] = a], UNCHANGED <<storeVars, todo, meant, deleted>>,
         a > 0 /\ Kept(f) => Source(f) = meant[f]
  PROVE  ConcatInv'
<1> DEFINE q == [NoPost EXCEPT !.pc = pc, !.aborts = post[f].aborts]
<1>1. Types /\ PostOK(f) /\ post[f].aborts \in BOOLEAN
  BY PostTyped DEF ConcatInv
<1>2. /\ q.pc = pc /\ q.list = <<>> /\ q.checked = 0 /\ q.copied = {} /\ q.aborts = post[f].aborts
      /\ q \in Posts
  BY <1>1, NoPostTyped DEF Posts
<1>3. post' = [post EXCEPT ![f] = q]
  BY DEF Respond
<1>4. store' = store /\ meant' = meant
  BY DEF storeVars
<1>5. Len(q.list) = 0
  BY <1>2, EmptySeq
<1> HIDE DEF q
<1>6. /\ post'[f] = q /\ announced'[f] = a
      /\ Kept(f)' <=> Kept(f)
      /\ Source(f)' = Source(f)
      /\ PostOK(f)' => ConcatInv'
  BY <1>2, <1>3, PostAlone
<1>7. Checks(f)' /\ Runs(f)' /\ Appends(f)' /\ Copies(f)'
  BY <1>2, <1>5, <1>6 DEF Checks, Runs, Appends, Copies, Steps
<1>8. Downloads(f)'
  BY <1>1, <1>2, <1>4, <1>6 DEF PostOK, Downloads
<1>9. Announces(f)'
  BY <1>2, <1>4, <1>6 DEF Announces
<1> QED
  BY <1>6, <1>7, <1>8, <1>9 DEF PostOK

LEMMA FailKeeps ==
  ASSUME ConcatInv, NEW f \in Finals, Fail(f), UNCHANGED <<storeVars, todo, meant, deleted, announced>>
  PROVE  ConcatInv'
<1>1. announced' = [announced EXCEPT ![f] = announced[f]] /\ announced[f] \in 0..2
  BY DEF ConcatInv, Types
<1>2. announced[f] > 0 /\ Kept(f) => Source(f) = meant[f]
  BY DEF ConcatInv, PostOK, Announces
<1>3. Respond(f, "failed") /\ UNCHANGED <<storeVars, todo, meant, deleted>>
  BY DEF Fail
<1> QED
  BY <1>1, <1>2, <1>3, RespondKeeps

LEMMA PostFileKeeps ==
  ASSUME ConcatInv, NEW f \in Finals, PostFile(f) PROVE ConcatInv'
<1>1. /\ Types /\ PostOK(f) /\ f \in Uploads /\ post[f] = NoPost /\ meant[f] = None /\ announced[f] = 0
      /\ post[f] \in Posts
  <2>1. Types /\ PostOK(f) /\ post[f].pc = "idle"
    BY DEF ConcatInv, PostFile
  <2> QED
    BY <2>1, PostTyped DEF PostOK, Checks
<1>2. PICK list \in Lists(f) : post' = [post EXCEPT ![f].pc = "check", ![f].list = list]
  BY DEF PostFile
<1> DEFINE q == [post[f] EXCEPT !.pc = "check", !.list = list]
<1>3. list \in Seq(Uploads)
  BY DEF Lists
<1>4. /\ q \in Posts /\ q.pc = "check" /\ q.list = list /\ q.checked = 0 /\ q.size = 0 /\ q.copied = {}
      /\ q.file = <<>> /\ q.err = FALSE /\ q.aborts = FALSE /\ q.seen = NothingSeen
  BY <1>1, <1>3, NoPostTyped DEF Posts
<1>5. /\ post' = [post EXCEPT ![f] = q] /\ announced' = [announced EXCEPT ![f] = 0]
      /\ UNCHANGED <<storeVars, todo, meant, deleted>>
  BY <1>1, <1>2 DEF PostFile, Types
<1> HIDE DEF q
<1>6. /\ post'[f] = q /\ announced'[f] = 0 /\ meant' = meant /\ store' = store
      /\ PostOK(f)' => ConcatInv'
  <2>1. 0 \in 0..2 /\ q \in Posts
    BY <1>4
  <2>2. post'[f] = q /\ announced'[f] = 0 /\ (PostOK(f)' => ConcatInv')
    BY <1>5, <2>1, PostAlone
  <2> QED
    BY <1>5, <2>2 DEF storeVars
<1>7. 0 = Len(MeantOf(meant', q.list, 0)) /\ Len(q.list) \in Nat
  BY <1>3, <1>4, MeantNone, EmptySeq, LenProperties
<1>8. Checks(f)'
  <2>1. post'[f].seen.info = None /\ post'[f].seen.parts = None
    BY <1>4, <1>6 DEF NothingSeen
  <2>2. Sees(f)'
    BY <2>1 DEF Sees, Right
  <2> QED
    BY <1>1, <1>4, <1>6, <1>7, <2>2 DEF Checks
<1>9. Runs(f)' /\ Appends(f)' /\ Copies(f)' /\ Downloads(f)' /\ Announces(f)'
  BY <1>4, <1>6 DEF Runs, Appends, Copies, Downloads, Announces, Steps
<1> QED
  BY <1>6, <1>8, <1>9 DEF PostOK

Seeing(p, s) == [p EXCEPT !.seen = s]

LEMMA SeeingIs ==
  ASSUME NEW p \in Posts, NEW s \in Seens, NEW q, q = Seeing(p, s)
  PROVE  /\ q \in Posts /\ q.pc = p.pc /\ q.list = p.list /\ q.checked = p.checked /\ q.size = p.size
         /\ q.copied = p.copied /\ q.file = p.file /\ q.err = p.err /\ q.aborts = p.aborts /\ q.seen = s
BY DEF Posts, Seeing

(* The upload that is looked at, and what was read of it. *)
LEMMA Looking ==
  ASSUME ConcatInv, NEW f \in Finals, Checking(f)
  PROVE  /\ Types /\ PostOK(f) /\ post[f] \in Posts /\ post[f].pc = "check"
         /\ Listed(f) \in Uploads /\ UploadOK(Listed(f))
         /\ post[f].seen \in Seens /\ Right(Listed(f), post[f].seen)
<1>1. /\ Types /\ PostOK(f) /\ post[f] \in Posts /\ post[f].checked \in Nat /\ Len(post[f].list) \in Nat
      /\ \A i \in 1..Len(post[f].list) : post[f].list[i] \in Uploads
  BY PostTyped DEF ConcatInv
<1>2. post[f].pc = "check" /\ post[f].checked < Len(post[f].list)
  BY DEF Checking
<1>3. post[f].checked + 1 \in 1..Len(post[f].list)
  BY <1>1, <1>2
<1>4. Listed(f) \in Uploads
  BY <1>1, <1>3 DEF Listed
<1>5. Sees(f)
  BY <1>1, <1>2 DEF PostOK, Checks
<1>6. post[f].seen \in Seens
  BY <1>1 DEF Posts
<1> QED
  BY <1>1, <1>2, <1>4, <1>5, <1>6 DEF Sees, ConcatInv

(* One more request of GetUpload and GetInfo has been answered. *)
LEMMA SeesMore ==
  ASSUME ConcatInv, NEW f \in Finals, Checking(f), NEW s \in Seens, Right(Listed(f), s),
         post' = [post EXCEPT ![f] = Seeing(post[f], s)],
         UNCHANGED <<storeVars, todo, meant, deleted, announced>>
  PROVE  ConcatInv'
<1> DEFINE p == post[f]
           q == Seeing(p, s)
<1>1. Types /\ PostOK(f) /\ p \in Posts /\ p.pc = "check"
  BY Looking
<1>2. /\ q \in Posts /\ q.pc = p.pc /\ q.list = p.list /\ q.checked = p.checked /\ q.size = p.size
      /\ q.copied = p.copied /\ q.file = p.file /\ q.err = p.err /\ q.aborts = p.aborts /\ q.seen = s
  <2>1. p \in Posts /\ q = Seeing(p, s)
    BY <1>1
  <2> HIDE DEF p, q
  <2> QED
    BY <2>1, SeeingIs
<1>3. /\ post' = [post EXCEPT ![f] = q] /\ announced' = [announced EXCEPT ![f] = announced[f]]
      /\ announced[f] \in 0..2 /\ UNCHANGED <<storeVars, todo, meant, deleted>>
  BY <1>1 DEF Types
<1>4. store' = store /\ meant' = meant /\ pieces' = pieces
  BY DEF storeVars
<1>5. PICK u \in Uploads : u = Listed(f)
  BY Looking
<1> HIDE DEF q
<1>6. /\ post'[f] = q /\ announced'[f] = announced[f]
      /\ PostOK(f)' => ConcatInv'
  <2> DEFINE a == announced[f]
  <2>1. /\ q \in Posts /\ a \in 0..2 /\ post' = [post EXCEPT ![f] = q] /\ announced' = [announced EXCEPT ![f] = a]
        /\ UNCHANGED <<storeVars, todo, meant, deleted>>
    BY <1>2, <1>3
  <2> HIDE DEF a
  <2>2. /\ post'[f] = q /\ announced'[f] = a
        /\ PostOK(f)' => ConcatInv'
    BY <2>1, PostAlone
  <2> QED
    BY <2>2 DEF a
<1>7. Sees(f)'
  <2>1. Right(u, s) /\ Lasting(u)
    BY <1>4, <1>5 DEF Lasting, Ready
  <2>2. Right(u, s)'
    BY <1>4, <2>1, RightStays
  <2>3. Listed(f)' = u /\ post'[f].seen = s
    BY <1>2, <1>5, <1>6 DEF Listed
  <2> QED
    BY <2>2, <2>3 DEF Sees, Right
<1>8. Checks(f)'
  <2>1. \A i \in 1..post'[f].checked : Ready(post[f].list[i])'
    <3>1. \A i \in 1..p.checked : Ready(p.list[i])
      BY <1>1 DEF PostOK, Checks
    <3> QED
      BY <1>2, <1>4, <1>6, <3>1 DEF Ready
  <2> QED
    BY <1>1, <1>2, <1>4, <1>6, <1>7, <2>1 DEF PostOK, Checks
<1>9. Runs(f)' /\ Appends(f)' /\ Copies(f)'
  BY <1>1, <1>2, <1>6 DEF Runs, Appends, Copies, Steps
<1>10. Downloads(f)' /\ Announces(f)'
  BY <1>1, <1>2, <1>4, <1>6 DEF PostOK, Checks, Downloads, Announces
<1> QED
  BY <1>6, <1>8, <1>9, <1>10 DEF PostOK

LEMMA ReadInfoKeeps ==
  ASSUME ConcatInv, NEW f \in Finals, ReadInfo(f) PROVE ConcatInv'
<1> DEFINE u == Listed(f)
           s == [post[f].seen EXCEPT !.info = info[u]]
<1>1. Checking(f) /\ post[f].seen.info = None /\ UNCHANGED <<storeVars, todo, meant, deleted, announced>>
  BY DEF ReadInfo
<1>2. Types /\ u \in Uploads /\ UploadOK(u) /\ post[f].seen \in Seens /\ Right(u, post[f].seen)
  BY <1>1, Looking
<1>3. CASE info[u] = None
  BY <1>1, <1>3, FailKeeps DEF ReadInfo
<1>4. CASE info[u] # None
  <2>1. info[u] \in Infos
    BY <1>2, <1>4, UploadTyped
  <2>2. s \in Seens /\ s.info = info[u] /\ s.parts = post[f].seen.parts
    BY <1>2, <2>1 DEF Seens
  <2>3. post' = [post EXCEPT ![f] = Seeing(post[f], s)]
    BY <1>4 DEF ReadInfo, Seeing
  <2> HIDE DEF s, u
  <2>4. Right(u, s)
    BY <1>1, <1>2, <1>4, <2>2 DEF Right, UploadOK
  <2> QED
    BY <1>1, <2>2, <2>3, <2>4, SeesMore DEF u
<1> QED
  BY <1>3, <1>4

LEMMA ListPartsKeeps ==
  ASSUME ConcatInv, NEW f \in Finals, ListParts(f) PROVE ConcatInv'
<1> DEFINE u == Listed(f)
           n == IF pieces[u] # None THEN Len(Data(pieces[u])) - IncompletePart(u) ELSE -1
           s == [post[f].seen EXCEPT !.parts = n]
<1>1. /\ Checking(f) /\ UNCHANGED <<storeVars, todo, meant, deleted, announced>>
      /\ store = "file" => post[f].seen.info # None
  BY DEF ListParts
<1>2. Types /\ u \in Uploads /\ UploadOK(u) /\ post[f].seen \in Seens /\ Right(u, post[f].seen)
  BY <1>1, Looking
<1>3. CASE pieces[u] = None /\ store # "s3"
  <2>1. Fail(f)
    BY <1>3 DEF ListParts
  <2> QED
    BY <1>1, <2>1, FailKeeps
<1>4. CASE pieces[u] # None \/ store = "s3"
  <2>1. n \in Int
    <3>1. ASSUME pieces[u] # None, store = "s3", u \in Partials PROVE Len(pieces[u][2]) \in Nat
      <4>1. pieces[u] \in Pieces /\ Len(pieces[u]) = 2 /\ pieces[u][2] # None
        BY <1>2, <3>1, UploadTyped DEF UploadOK
      <4>2. pieces[u][2] \in Seq(Byte) \cup {None}
        BY <4>1, ElementOfSeq DEF Pieces
      <4> QED
        BY <4>1, <4>2, LenProperties
    <3> QED
      BY <1>2, <3>1, UploadTyped DEF IncompletePart
  <2>2. s \in Seens /\ s.info = post[f].seen.info /\ s.parts = n
    BY <1>2, <2>1 DEF Seens
  <2>3. post' = [post EXCEPT ![f] = Seeing(post[f], s)]
    BY <1>4 DEF ListParts, Seeing
  <2>4. ASSUME store = "file", ~s.info.deferred, n = s.info.size PROVE Ready(u)
    <3>1. n = Len(Data(pieces[u])) /\ pieces[u] # None
      BY <1>4, <2>4 DEF IncompletePart
    <3>2. s.info.size = Len(meant[u]) /\ meant[u] # None
      BY <1>1, <1>2, <2>2, <2>4 DEF Right
    <3>3. Data(pieces[u]) \in Seq(Byte) /\ meant[u] \in Seq(Byte)
      BY <1>2, <3>1, <3>2, UploadTyped
    <3>4. StartOf(Data(pieces[u]), meant[u])
      BY <1>2, <2>4, <3>1 DEF UploadOK
    <3>5. Data(pieces[u]) = meant[u]
      BY <2>4, <3>1, <3>2, <3>3, <3>4, StartWhole
    <3> QED
      BY <3>2, <3>5 DEF Ready
  <2> HIDE DEF s, n, u
  <2>5. Right(u, s)
    BY <1>1, <1>2, <2>2, <2>4 DEF Right
  <2> QED
    BY <1>1, <2>2, <2>3, <2>5, SeesMore DEF u
<1> QED
  BY <1>3, <1>4

LEMMA HeadIncompletePartKeeps ==
  ASSUME ConcatInv, NEW f \in Finals, HeadIncompletePart(f) PROVE ConcatInv'
<1> DEFINE u == Listed(f)
           n == IncompletePart(u)
           s == [post[f].seen EXCEPT !.incomplete = n]
<1>1. Checking(f) /\ store = "s3" /\ UNCHANGED <<storeVars, todo, meant, deleted, announced>>
  BY DEF HeadIncompletePart
<1>2. Types /\ u \in Uploads /\ UploadOK(u) /\ post[f].seen \in Seens /\ Right(u, post[f].seen)
  BY <1>1, Looking
<1>3. n \in Int
  <2>1. ASSUME pieces[u] # None, u \in Partials PROVE Len(pieces[u][2]) \in Nat
    <3>1. pieces[u] \in Pieces /\ Len(pieces[u]) = 2 /\ pieces[u][2] # None
      BY <1>2, <2>1, UploadTyped DEF UploadOK
    <3>2. pieces[u][2] \in Seq(Byte) \cup {None}
      BY <3>1, ElementOfSeq DEF Pieces
    <3> QED
      BY <3>1, <3>2, LenProperties
  <2> QED
    BY <2>1 DEF IncompletePart
<1>4. s \in Seens /\ s.info = post[f].seen.info /\ s.parts = post[f].seen.parts
  BY <1>2, <1>3 DEF Seens
<1>5. post' = [post EXCEPT ![f] = Seeing(post[f], s)]
  BY DEF HeadIncompletePart, Seeing
<1> HIDE DEF s, n, u
<1>6. Right(u, s)
  BY <1>1, <1>2, <1>4 DEF Right
<1> QED
  BY <1>1, <1>4, <1>5, <1>6, SeesMore DEF u

LEMMA ReadyKnown ==
  ASSUME Types, NEW f \in Finals, NEW k \in 0..Len(post[f].list), \A i \in 1..k : Ready(post[f].list[i])
  PROVE  Known(meant, post[f].list, k)
<1> DEFINE l == post[f].list
<1>1. l \in Seq(Uploads) /\ Len(l) \in Nat /\ \A i \in 1..Len(l) : l[i] \in Uploads
  BY PostTyped
<1>2. ASSUME NEW i \in 1..k PROVE meant[l[i]] \in Seq(Byte)
  <2>1. i \in 1..Len(l)
    BY <1>1
  <2>2. l[i] \in Uploads /\ meant[l[i]] # None
    BY <1>1, <2>1 DEF Ready
  <2> QED
    BY <2>2, UploadTyped
<1>3. k \in Nat /\ k <= Len(l)
  BY <1>1
<1> QED
  BY <1>1, <1>2, <1>3 DEF Known

More(p, s, b) == [p EXCEPT !.checked = @ + 1, !.seen = NothingSeen, !.size = @ + s, !.small = b]

LEMMA CheckedOne ==
  ASSUME NEW p \in Posts, NEW s \in Nat, NEW b \in BOOLEAN, NEW q, q = More(p, s, b)
  PROVE  /\ q \in Posts /\ q.pc = p.pc /\ q.list = p.list /\ q.checked = p.checked + 1 /\ q.size = p.size + s
         /\ q.copied = p.copied /\ q.file = p.file /\ q.err = p.err /\ q.aborts = p.aborts
         /\ q.seen = NothingSeen
<1>1. /\ p.checked + 1 \in Nat /\ p.size + s \in Nat
  BY DEF Posts
<1>2. q \in Posts
  BY <1>1, NoPostTyped DEF Posts, More
<1> QED
  BY <1>2 DEF Posts, More

LEMMA SizeOfUploadsKeeps ==
  ASSUME ConcatInv, NEW f \in Finals, sizeOfUploads(f) PROVE ConcatInv'
<1> DEFINE p == post[f]
           k == p.checked
           u == p.list[k + 1]
           i == p.seen.info
           fin == ~i.deferred /\ SeenOffset(f) = i.size
<1>1. /\ Types /\ PostOK(f) /\ p \in Posts /\ p.list \in Seq(Uploads) /\ Len(p.list) \in Nat /\ k \in Nat
      /\ \A j \in 1..Len(p.list) : p.list[j] \in Uploads
      /\ p.size \in Nat /\ p.small \in BOOLEAN
  BY PostTyped DEF ConcatInv
<1>2. CheckNext(f, fin)
  BY DEF sizeOfUploads
<1>3. /\ Checking(f) /\ p.pc = "check" /\ k < Len(p.list) /\ i # None /\ p.seen.parts # None
      /\ UNCHANGED <<storeVars, todo, meant, deleted, announced>>
  BY <1>2 DEF CheckNext, Checking
<1>4. CASE ~fin
  <2>1. Fail(f)
    BY <1>2, <1>4 DEF CheckNext
  <2> QED
    BY <1>3, <2>1, FailKeeps
<1>5. CASE fin
  <2>1. k + 1 \in 1..Len(p.list)
    BY <1>1, <1>3
  <2>2. u \in Uploads
    BY <1>1, <2>1
  <2>3. Ready(u) /\ i.size = Len(meant[u]) /\ i.size \in Nat
    <3>1. Right(u, p.seen) /\ p.seen \in Seens
      BY <1>3, Looking DEF Listed
    <3>2. i \in Infos
      BY <1>3, <3>1 DEF Seens
    <3>3. meant[u] # None /\ i.size = Len(meant[u])
      BY <1>3, <1>5, <3>1 DEF Right
    <3>4. store = "file" => Ready(u)
      BY <1>3, <1>5, <3>1 DEF Right, SeenOffset
    <3> QED
      BY <3>2, <3>3, <3>4 DEF Ready, Infos
  <2> DEFINE q == [p EXCEPT !.checked = @ + 1, !.seen = NothingSeen, !.size = @ + i.size,
                            !.small = @ \/ i.size < MinPartSize]
  <2>4. post' = [post EXCEPT ![f].checked = @ + 1, ![f].seen = NothingSeen,
                             ![f].size = @ + i.size,
                             ![f].small = @ \/ i.size < MinPartSize]
    BY <1>2, <1>5 DEF CheckNext
  <2>5. post' = [post EXCEPT ![f] = q]
    BY <2>4
  <2>6. /\ q \in Posts /\ q.pc = "check" /\ q.list = p.list /\ q.checked = k + 1 /\ q.size = p.size + i.size
        /\ q.copied = p.copied /\ q.file = p.file /\ q.err = p.err /\ q.aborts = p.aborts
        /\ q.seen = NothingSeen
    <3> DEFINE s == i.size
               b == p.small \/ s < MinPartSize
    <3>1. s \in Nat /\ b \in BOOLEAN
      BY <2>3
    <3>2. q = More(p, s, b) /\ p \in Posts
      BY <1>1 DEF More
    <3> HIDE DEF s, b, q
    <3>3. /\ q \in Posts /\ q.pc = p.pc /\ q.list = p.list /\ q.checked = p.checked + 1 /\ q.size = p.size + s
          /\ q.copied = p.copied /\ q.file = p.file /\ q.err = p.err /\ q.aborts = p.aborts
          /\ q.seen = NothingSeen
      <4> HIDE DEF p
      <4> QED
        BY <3>1, <3>2, CheckedOne
    <3> QED
      BY <1>3, <3>3 DEF s
  <2>7. announced' = [announced EXCEPT ![f] = announced[f]] /\ announced[f] \in 0..2
    BY <1>1, <1>3 DEF Types
  <2>8. UNCHANGED <<storeVars, todo, meant, deleted>> /\ store' = store /\ meant' = meant
    BY <1>3 DEF storeVars
  <2>9. /\ meant[f] = None /\ announced[f] = 0
        /\ p.copied = {} /\ p.file = <<>> /\ ~p.err /\ ~p.aborts
        /\ \A j \in 1..k : Ready(p.list[j])
        /\ p.size = Len(MeantOf(meant, p.list, k))
    BY <1>1, <1>3 DEF PostOK, Checks
  <2> HIDE DEF q
  <2>10. /\ post'[f] = q /\ announced'[f] = announced[f]
         /\ \A v \in Uploads : Ready(v)' <=> Ready(v)
         /\ PostOK(f)' => ConcatInv'
    BY <2>5, <2>6, <2>7, <2>8, PostAlone
  <2>11. \A j \in 1..(k + 1) : Ready(p.list[j])
    <3> TAKE j \in 1..(k + 1)
    <3>1. CASE j = k + 1
      BY <2>3, <3>1
    <3>2. CASE j # k + 1
      <4>1. j \in 1..k
        BY <1>1, <3>2
      <4> QED
        BY <2>9, <4>1
    <3> QED
      BY <3>1, <3>2
  <2>12. \A j \in 1..(k + 1) : Ready(p.list[j])'
    <3> TAKE j \in 1..(k + 1)
    <3> DEFINE v == p.list[j]
    <3>1. j \in 1..Len(p.list)
      BY <1>1, <2>1
    <3>2. v \in Uploads /\ Ready(v)
      BY <1>1, <2>11, <3>1
    <3>3. meant' = meant /\ pieces' = pieces /\ store' = store /\ post'[f].list = p.list
      BY <2>6, <2>8, <2>10 DEF storeVars
    <3> QED
      BY <3>2, <3>3 DEF Ready
  <2>13. Known(meant, p.list, k + 1)
    <3>1. k + 1 \in 0..Len(p.list)
      BY <2>1, <1>1
    <3> QED
      BY <1>1, <2>11, <3>1, ReadyKnown
  <2>14. MeantOf(meant, p.list, k + 1) = MeantOf(meant, p.list, k) \o meant[u] /\ Known(meant, p.list, k)
    BY <1>1, <2>13, MeantMore
  <2>15. Len(MeantOf(meant, p.list, k + 1)) = p.size + i.size
    <3> DEFINE a == MeantOf(meant, p.list, k)
               b == meant[u]
    <3>1. a \in Seq(Byte) /\ b \in Seq(Byte)
      <4>1. MeantOf(meant, p.list, k) \in Seq(Byte)
        BY <2>14, PartsFacts
      <4>2. k + 1 \in 1..(k + 1)
        BY <1>1
      <4>3. meant[p.list[k + 1]] \in Seq(Byte)
        BY <2>13, <4>2 DEF Known
      <4> QED
        BY <4>1, <4>3
    <3>2. p.size = Len(a) /\ i.size = Len(b) /\ MeantOf(meant, p.list, k + 1) = a \o b
      BY <2>3, <2>9, <2>14
    <3> HIDE DEF a, b
    <3>3. Len(a \o b) = Len(a) + Len(b)
      BY <3>1
    <3> QED
      BY <3>2, <3>3
  <2>16. Checks(f)'
    <3>1. post'[f].checked = k + 1 /\ post'[f].list = p.list /\ post'[f].size = p.size + i.size
      BY <2>6, <2>10
    <3>2. /\ p.size + i.size = Len(MeantOf(meant', p.list, k + 1)) /\ k + 1 <= Len(p.list)
      BY <1>1, <1>3, <2>8, <2>15
    <3>3. \A j \in 1..post'[f].checked : Ready(post[f].list[j])'
      BY <2>12, <3>1
    <3>4. post'[f].size = Len(MeantOf(meant', post'[f].list, post'[f].checked)) /\ post'[f].checked <= Len(post'[f].list)
      BY <3>1, <3>2
    <3>5. /\ post'[f].copied = {} /\ post'[f].file = <<>> /\ ~post'[f].err /\ ~post'[f].aborts /\ meant'[f] = None
          /\ announced'[f] = 0 /\ post'[f].pc = "check"
      BY <2>6, <2>8, <2>9, <2>10
    <3>6. Sees(f)'
      <4>1. post'[f].seen.info = None /\ post'[f].seen.parts = None
        BY <2>6, <2>10 DEF NothingSeen
      <4> QED
        BY <4>1 DEF Sees, Right
    <3> QED
      BY <3>3, <3>4, <3>5, <3>6 DEF Checks
  <2>17. Runs(f)' /\ Appends(f)' /\ Copies(f)' /\ Downloads(f)' /\ Announces(f)'
    BY <2>6, <2>9, <2>10 DEF Runs, Appends, Copies, Downloads, Announces, Steps
  <2> QED
    BY <2>10, <2>16, <2>17 DEF PostOK
<1> QED
  BY <1>4, <1>5

LEMMA StoreIs == ASSUME Types PROVE store = "file" \/ store = "s3"
BY ConcatenationAssumption DEF Types, AllStores

GoesTo(p, x) == [p EXCEPT !.pc = x]

LEMMA GoesToIs ==
  ASSUME NEW p \in Posts, NEW x \in Steps, NEW q, q = GoesTo(p, x)
  PROVE  /\ q \in Posts /\ q.pc = x /\ q.list = p.list /\ q.checked = p.checked /\ q.size = p.size
         /\ q.copied = p.copied /\ q.file = p.file /\ q.err = p.err /\ q.aborts = p.aborts
BY DEF Posts, GoesTo

LEMMA NewUploadKeeps ==
  ASSUME ConcatInv, NEW f \in Finals, NewUpload(f) PROVE ConcatInv'
<1> DEFINE p == post[f]
           n == Len(p.list)
           r == [size |-> p.size, deferred |-> FALSE, isFinal |-> TRUE]
           ps == IF store = "file" THEN <<>> ELSE [i \in 1..n |-> None]
           x == IF store = "file" THEN "open" ELSE IF p.small THEN "download" ELSE "multipart"
           q == GoesTo(p, x)
           m == MeantOf(meant, p.list, n)
<1>1. /\ Types /\ PostOK(f) /\ UploadOK(f) /\ f \in Uploads
      /\ p \in Posts /\ p.list \in Seq(Uploads) /\ n \in Nat
      /\ \A i \in 1..n : p.list[i] \in Uploads
      /\ p.size \in Nat /\ p.small \in BOOLEAN
  BY PostTyped DEF ConcatInv, Uploads
<1>2. p.pc = "check" /\ p.checked = n
  BY DEF NewUpload
<1>3. /\ meant[f] = None /\ announced[f] = 0
      /\ p.copied = {} /\ p.file = <<>> /\ ~p.err /\ ~p.aborts
      /\ \A i \in 1..n : Ready(p.list[i])
      /\ p.size = Len(m)
  BY <1>1, <1>2 DEF PostOK, Checks
<1>4. info[f] = None /\ pieces[f] = None /\ object[f] = None /\ todo[f] = {}
  BY <1>1, <1>3 DEF UploadOK
<1>5. m \in Seq(Byte) /\ m # None
  <2>1. n \in 0..n
    BY <1>1
  <2>2. Known(meant, p.list, n)
    BY <1>1, <1>3, <2>1, ReadyKnown
  <2>3. m \in Seq(Byte)
    BY <2>2, PartsFacts
  <2> QED
    BY <2>3, NoneIs
<1>6. ps \in Pieces /\ ps # None
      /\ (store = "file" => ps = <<>>) /\ (store # "file" => Len(ps) = n /\ \A i \in 1..n : ps[i] = None)
  <2>1. CASE store = "file"
    BY <2>1, DataOne, NoneIs
  <2>2. CASE store # "file"
    <3> DEFINE B == Seq(Byte)
               a == [i \in 1..n |-> None]
    <3> HIDE DEF B, n
    <3>1. a \in Seq(B \cup {None}) /\ Len(a) = n /\ \A i \in 1..n : a[i] = None
      BY <1>1
    <3>2. a \in Pieces
      BY <3>1 DEF Pieces, B
    <3>3. ps = a
      BY <2>2
    <3> HIDE DEF a, ps
    <3> QED
      BY <2>2, <3>1, <3>2, <3>3, NoneIs
  <2> QED
    BY <2>1, <2>2
<1>7. /\ x \in Steps /\ x \in {"open", "download", "multipart"}
      /\ (x = "open" <=> store = "file")
  BY DEF Steps
<1>8. r \in Infos /\ r # None /\ r.size = p.size /\ r.deferred = FALSE /\ r.isFinal = TRUE
  <2>1. r \in Infos /\ r.size = p.size /\ r.deferred = FALSE /\ r.isFinal = TRUE
    BY <1>1 DEF Infos
  <2> QED
    BY <2>1, NoneIs
<1>9. Writes(f, q, 0, r, ps, None, m)
  <2>1. info' = [info EXCEPT ![f] = r] /\ pieces' = [pieces EXCEPT ![f] = ps]
    BY DEF NewUpload
  <2>2. post' = [post EXCEPT ![f] = q] /\ meant' = [meant EXCEPT ![f] = m]
    BY DEF NewUpload, GoesTo, MeantOf
  <2>3. todo' = todo /\ store' = store /\ announced' = announced /\ object' = object /\ deleted' = deleted
    BY DEF NewUpload
  <2>4. announced' = [announced EXCEPT ![f] = 0] /\ object' = [object EXCEPT ![f] = None]
    BY <1>1, <1>3, <1>4, <2>3 DEF Types
  <2> QED
    BY <2>1, <2>2, <2>3, <2>4 DEF Writes
<1>10. /\ q \in Posts /\ q.pc = x /\ q.list = p.list /\ q.checked = p.checked /\ q.size = p.size
       /\ q.copied = p.copied /\ q.file = p.file /\ q.err = p.err /\ q.aborts = p.aborts
  <2>1. p \in Posts /\ x \in Steps /\ q = GoesTo(p, x)
    BY <1>1, <1>7
  <2> HIDE DEF p, x, q
  <2> QED
    BY <2>1, GoesToIs
<1> HIDE DEF r, ps, x, q, m
<1>11. /\ Types' /\ f \in Uploads
       /\ \A u \in Uploads \ {f} : Same(u)
       /\ \A g \in Finals \ {f} : SamePost(g)
       /\ post'[f] = q /\ announced'[f] = 0 /\ info'[f] = r /\ pieces'[f] = ps
       /\ object'[f] = None /\ meant'[f] = m /\ todo'[f] = todo[f]
  <2>1. 0 \in 0..2 /\ None \in Seq(Byte) \cup {None} /\ r \in Infos \cup {None} /\ ps \in Pieces \cup {None}
        /\ m \in Seq(Byte) \cup {None}
    BY <1>5, <1>6, <1>8
  <2> QED
    BY <1>1, <1>9, <1>10, <2>1, PostWrites
<1>12. store' = store
  BY <1>9 DEF Writes
<1>13. store = "file" => Data(ps) = <<>>
  BY <1>6, DataOne
<1>14. UploadOK(f)'
  <2>1. StartOf(<<>>, m)
    BY <1>5 DEF StartOf
  <2>2. f \notin Partials
    BY NoFinalIsPartial
  <2> QED
    BY <1>3, <1>4, <1>5, <1>6, <1>8, <1>11, <1>12, <1>13, <2>1, <2>2 DEF UploadOK
<1>15. Lasting(f)
  BY <1>3 DEF Lasting, Ready
<1>16. ASSUME NEW i \in 1..n PROVE meant'[p.list[i]] = meant[p.list[i]] /\ Ready(post[f].list[i])'
  <2> DEFINE u == p.list[i]
  <2>1. u \in Uploads /\ Ready(u)
    BY <1>1, <1>3
  <2>2. post'[f].list[i] = u
    BY <1>10, <1>11
  <2> HIDE DEF u
  <2>3. u # f
    BY <1>3, <2>1 DEF Ready
  <2>4. Same(u)
    BY <1>11, <2>1, <2>3
  <2> QED
    BY <1>12, <2>1, <2>2, <2>4 DEF Same, Ready, u
<1>17. MeantOf(meant', p.list, n) = m
  BY <1>16, MeantSame DEF m
<1>18. Checks(f)'
  <2>1. {} \subseteq 1..n /\ n <= n
    BY <1>1
  <2> QED
    BY <1>2, <1>3, <1>7, <1>10, <1>11, <2>1 DEF Checks
<1>19. Runs(f)'
  <2>1. \A i \in 1..Len(post'[f].list) : Ready(post[f].list[i])'
    BY <1>10, <1>11, <1>16
  <2> QED
    BY <1>3, <1>5, <1>10, <1>11, <1>17, <2>1 DEF Runs
<1>20. Counted(f, 0)' /\ MeantOf(meant', p.list, 0) = <<>>
  <2>1. {} = 1..0 /\ 0 \in 0..n
    BY <1>1
  <2> QED
    BY <1>3, <1>10, <1>11, <2>1, MeantNone DEF Counted
<1>21. Appends(f)'
  BY <1>6, <1>7, <1>10, <1>11, <1>12, <1>13, <1>20 DEF Appends
<1>22. store # "file" => store = "s3"
  BY <1>1, StoreIs
<1>23. Downloads(f)'
  BY <1>3, <1>6, <1>7, <1>10, <1>11, <1>12, <1>20, <1>22 DEF Downloads
<1>24. Copies(f)'
  BY <1>3, <1>6, <1>7, <1>10, <1>11, <1>12, <1>22 DEF Copies
<1>25. Announces(f)'
  BY <1>7, <1>10, <1>11 DEF Announces
<1>26. PostOK(f)'
  BY <1>18, <1>19, <1>21, <1>23, <1>24, <1>25 DEF PostOK
<1> QED
  BY <1>11, <1>12, <1>14, <1>15, <1>26, OneUpload

(* The POST copies what its uploads are meant to be. *)
LEMMA Going ==
  ASSUME ConcatInv, NEW f \in Finals, post[f].pc \in Steps
  PROVE  /\ Types /\ UploadOK(f) /\ f \in Uploads /\ f \notin Partials
         /\ post[f] \in Posts /\ post[f].list \in Seq(Uploads) /\ Len(post[f].list) \in Nat
         /\ post[f].copied \subseteq 1..Len(post[f].list) /\ post[f].checked <= Len(post[f].list)
         /\ \A i \in 1..Len(post[f].list) : post[f].list[i] \in Uploads /\ Ready(post[f].list[i])
         /\ Known(meant, post[f].list, Len(post[f].list))
         /\ meant[f] = MeantOf(meant, post[f].list, Len(post[f].list))
         /\ meant[f] \in Seq(Byte) /\ meant[f] # None
         /\ post[f].size = Len(meant[f]) /\ post[f].file \in Seq(Byte)
         /\ announced[f] \in 0..2 /\ "finish" \notin todo[f]
<1> DEFINE l == post[f].list
<1>1. Types /\ UploadOK(f) /\ PostOK(f) /\ f \in Uploads /\ f \notin Partials
  BY NoFinalIsPartial DEF ConcatInv, Uploads
<1>2. /\ post[f] \in Posts /\ l \in Seq(Uploads) /\ Len(l) \in Nat /\ \A i \in 1..Len(l) : l[i] \in Uploads
  BY <1>1, PostTyped
<1>3. post[f].file \in Seq(Byte) /\ announced[f] \in 0..2
  BY <1>1, PostTyped DEF Types
<1>4. /\ meant[f] # None /\ meant[f] = MeantOf(meant, l, Len(l))
      /\ \A i \in 1..Len(l) : Ready(l[i])
      /\ post[f].size = Len(meant[f])
  BY <1>1 DEF PostOK, Runs
<1>5. Len(l) \in 0..Len(l)
  BY <1>2
<1>6. Known(meant, l, Len(l))
  BY <1>1, <1>4, <1>5, ReadyKnown
<1>7. meant[f] \in Seq(Byte)
  BY <1>4, <1>6, PartsFacts
<1>8. post[f].copied \subseteq 1..Len(l) /\ post[f].checked <= Len(l) /\ "finish" \notin todo[f]
  BY <1>1 DEF PostOK, Checks, UploadOK
<1> QED
  BY <1>1, <1>2, <1>3, <1>4, <1>6, <1>7, <1>8

LEMMA CopySource ==
  ASSUME ConcatInv, NEW u \in Uploads, Ready(u), Source(u) # None
  PROVE  Source(u) = meant[u] /\ meant[u] \in Seq(Byte)
<1>1. Types /\ UploadOK(u) /\ (store = "file" \/ store = "s3")
  BY StoreIs DEF ConcatInv
<1>2. meant[u] \in Seq(Byte)
  BY <1>1, UploadTyped DEF Ready
<1>3. CASE store = "file"
  BY <1>2, <1>3 DEF Source, Ready
<1>4. CASE store = "s3"
  BY <1>1, <1>2, <1>4 DEF Source, UploadOK
<1> QED
  BY <1>1, <1>2, <1>3, <1>4

LEMMA Interval ==
  ASSUME NEW k \in Nat
  PROVE  /\ Cardinality(1..k) = k
         /\ (1..k) \cup {k + 1} = 1..(k + 1)
         /\ \A n \in Nat : 1..k = 1..n => k = n
<1>1. Cardinality(1..k) = k
  <2>1. 1 \in Int /\ k \in Int
    OBVIOUS
  <2>2. Cardinality(1..k) = IF 1 > k THEN 0 ELSE k - 1 + 1
    BY <2>1, FS_Interval
  <2> QED
    BY <2>2
<1>2. (1..k) \cup {k + 1} = 1..(k + 1)
  OBVIOUS
<1>3. ASSUME NEW n \in Nat, 1..k = 1..n PROVE k = n
  <2>1. CASE k < n
    <3>1. n \in 1..n /\ n \notin 1..k
      BY <2>1
    <3> QED
      BY <1>3, <3>1
  <2>2. CASE n < k
    <3>1. k \in 1..k /\ k \notin 1..n
      BY <2>2
    <3> QED
      BY <1>3, <3>1
  <2> QED
    BY <2>1, <2>2
<1> QED
  BY <1>1, <1>2, <1>3

(* The next upload of the list to be copied. *)
LEMMA CopyNext ==
  ASSUME ConcatInv, NEW f \in Finals, post[f].pc \in Steps, NEW k \in Nat, Counted(f, k), ~AllCopied(f),
         Source(post[f].list[NextCopy(f)]) # None
  PROVE  /\ NextCopy(f) = k + 1 /\ k + 1 \in 1..Len(post[f].list)
         /\ post[f].copied \cup {NextCopy(f)} = 1..(k + 1)
         /\ Source(post[f].list[NextCopy(f)]) \in Seq(Byte)
         /\ MeantOf(meant, post[f].list, k + 1) =
              MeantOf(meant, post[f].list, k) \o Source(post[f].list[NextCopy(f)])
         /\ StartOf(MeantOf(meant, post[f].list, k + 1), meant[f])
         /\ MeantOf(meant, post[f].list, k) \in Seq(Byte)
<1> DEFINE l == post[f].list
           u == l[k + 1]
<1>1. /\ Len(l) \in Nat /\ Known(meant, l, Len(l)) /\ meant[f] = MeantOf(meant, l, Len(l))
      /\ \A i \in 1..Len(l) : l[i] \in Uploads /\ Ready(l[i])
  BY Going
<1>2. k \in 0..Len(l) /\ post[f].copied = 1..k /\ k # Len(l)
  BY DEF Counted, AllCopied
<1>3. Cardinality(1..k) = k /\ (1..k) \cup {k + 1} = 1..(k + 1)
  BY Interval
<1>4. NextCopy(f) = k + 1 /\ k + 1 \in 1..Len(l) /\ k + 1 \in 0..Len(l)
  BY <1>1, <1>2, <1>3 DEF NextCopy
<1>5. u \in Uploads /\ Ready(u) /\ Source(u) # None
  BY <1>1, <1>4
<1> HIDE DEF u
<1>6. Source(u) = meant[u] /\ meant[u] \in Seq(Byte)
  BY <1>5, CopySource
<1>7. Known(meant, l, k + 1) /\ StartOf(MeantOf(meant, l, k + 1), MeantOf(meant, l, Len(l)))
  BY <1>1, <1>4, MeantStart
<1>8. Known(meant, l, k) /\ MeantOf(meant, l, k + 1) = MeantOf(meant, l, k) \o meant[l[k + 1]]
  BY <1>7, MeantMore
<1>9. MeantOf(meant, l, k) \in Seq(Byte)
  BY <1>8, PartsFacts
<1> QED
  BY <1>1, <1>2, <1>3, <1>4, <1>6, <1>7, <1>8, <1>9 DEF u

(* The POST goes on with the same list. *)
LEMMA GoesOn ==
  ASSUME ConcatInv, NEW f \in Finals, post[f].pc \in Steps, NEW q \in Posts, q.pc \in Steps,
         q.list = post[f].list, q.size = post[f].size, q.checked = post[f].checked,
         q.copied \subseteq 1..Len(q.list),
         post'[f] = q, meant' = meant, \A u \in Uploads : Lasting(u)
  PROVE  Checks(f)' /\ Runs(f)'
<1> DEFINE l == post[f].list
<1>1. /\ Len(l) \in Nat /\ post[f].checked <= Len(l)
      /\ \A i \in 1..Len(l) : l[i] \in Uploads /\ Ready(l[i])
      /\ meant[f] = MeantOf(meant, l, Len(l)) /\ meant[f] # None /\ post[f].size = Len(meant[f])
  BY Going
<1>2. q.pc \notin {"idle", "check"}
  BY DEF Steps
<1>3. Checks(f)'
  BY <1>1, <1>2 DEF Checks
<1>4. \A i \in 1..Len(post'[f].list) : Ready(post[f].list[i])'
  <2> TAKE i \in 1..Len(post'[f].list)
  <2> DEFINE u == l[i]
  <2>1. u \in Uploads /\ Ready(u) /\ post'[f].list[i] = u
    BY <1>1
  <2> HIDE DEF u
  <2>2. Lasting(u)
    BY <2>1
  <2>3. meant[u] # None /\ (store' = "file" /\ pieces'[u] # None => Data(pieces'[u]) = meant'[u])
    BY <2>1, <2>2 DEF Lasting, Ready
  <2> QED
    BY <2>1, <2>3 DEF Ready
<1>5. Runs(f)'
  BY <1>1, <1>4 DEF Runs
<1> QED
  BY <1>3, <1>5

(* The same if it writes to nothing but its own record. *)
LEMMA GoesOnAlone ==
  ASSUME ConcatInv, NEW f \in Finals, post[f].pc \in Steps, NEW q \in Posts, q.pc \in Steps,
         q.list = post[f].list, q.size = post[f].size, q.checked = post[f].checked,
         q.copied \subseteq 1..Len(q.list),
         NEW a \in 0..2, announced' = [announced EXCEPT ![f] = a],
         post' = [post EXCEPT ![f] = q], UNCHANGED <<storeVars, todo, meant, deleted>>
  PROVE  /\ post'[f] = q /\ announced'[f] = a /\ pieces' = pieces /\ store' = store /\ meant' = meant
         /\ Kept(f)' <=> Kept(f)
         /\ Source(f)' = Source(f)
         /\ Appends(f)' /\ Downloads(f)' /\ Copies(f)' /\ Announces(f)' => ConcatInv'
<1>1. /\ post'[f] = q /\ announced'[f] = a
      /\ Kept(f)' <=> Kept(f)
      /\ Source(f)' = Source(f)
      /\ PostOK(f)' => ConcatInv'
  BY PostAlone
<1>2. pieces' = pieces /\ store' = store /\ meant' = meant
  BY DEF storeVars
<1>3. \A u \in Uploads : Lasting(u)
  BY <1>2 DEF Lasting, Ready
<1>4. Checks(f)' /\ Runs(f)'
  BY <1>1, <1>2, <1>3, GoesOn
<1> QED
  BY <1>1, <1>2, <1>4 DEF PostOK

Copying(p, k) == [p EXCEPT !.copied = 1..k]

LEMMA CopyingIs ==
  ASSUME NEW p \in Posts, NEW k \in Nat, NEW q, q = Copying(p, k)
  PROVE  /\ q \in Posts /\ q.pc = p.pc /\ q.list = p.list /\ q.checked = p.checked /\ q.size = p.size
         /\ q.copied = 1..k /\ q.file = p.file /\ q.err = p.err /\ q.aborts = p.aborts
<1>1. 1..k \in SUBSET Nat
  OBVIOUS
<1> QED
  BY <1>1 DEF Posts, Copying

LEMMA OpenFileKeeps ==
  ASSUME ConcatInv, NEW f \in Finals, OpenFile(f) PROVE ConcatInv'
<1> DEFINE p == post[f]
           q == GoesTo(p, "append")
<1>1. p.pc = "open" /\ p.pc \in Steps /\ "append" \in Steps /\ UNCHANGED <<storeVars, todo, meant, deleted, announced>>
  BY DEF OpenFile, Steps
<1>2. CASE pieces[f] = None
  BY <1>1, <1>2, FailKeeps DEF OpenFile
<1>3. CASE pieces[f] # None
  <2>1. PostOK(f) /\ Types /\ p \in Posts /\ p.copied \subseteq 1..Len(p.list) /\ announced[f] \in 0..2
    BY <1>1, Going DEF ConcatInv
  <2>2. /\ q \in Posts /\ q.pc = "append" /\ q.list = p.list /\ q.checked = p.checked /\ q.size = p.size
        /\ q.copied = p.copied /\ q.file = p.file /\ q.err = p.err /\ q.aborts = p.aborts
    BY <1>1, <2>1, GoesToIs
  <2>3. /\ post' = [post EXCEPT ![f] = q] /\ announced' = [announced EXCEPT ![f] = announced[f]]
        /\ UNCHANGED <<storeVars, todo, meant, deleted>>
    BY <1>1, <1>3, <2>1 DEF OpenFile, GoesTo, Types
  <2> HIDE DEF q
  <2>4. /\ post'[f] = q /\ announced'[f] = announced[f] /\ pieces' = pieces /\ store' = store /\ meant' = meant
        /\ Kept(f)' <=> Kept(f)
        /\ Source(f)' = Source(f)
        /\ Appends(f)' /\ Downloads(f)' /\ Copies(f)' /\ Announces(f)' => ConcatInv'
    <3>1. q \in Posts /\ q.pc \in Steps /\ q.copied \subseteq 1..Len(q.list)
      BY <1>1, <2>1, <2>2
    <3> QED
      BY <1>1, <2>1, <2>2, <2>3, <3>1, GoesOnAlone
  <2>5. Appends(f)'
    BY <1>1, <2>1, <2>2, <2>4 DEF PostOK, Appends, Counted
  <2>6. Downloads(f)' /\ Copies(f)'
    BY <1>1, <2>1, <2>2, <2>4 DEF PostOK, Appends, Downloads, Copies
  <2>7. Announces(f)'
    BY <1>1, <2>1, <2>2, <2>4 DEF PostOK, Announces
  <2> QED
    BY <2>4, <2>5, <2>6, <2>7
<1> QED
  BY <1>2, <1>3

LEMMA AppendToKeeps ==
  ASSUME ConcatInv, NEW f \in Finals, appendTo(f) PROVE ConcatInv'
<1> DEFINE p == post[f]
           src == Source(p.list[NextCopy(f)])
<1>1. /\ p.pc = "append" /\ p.pc \in Steps /\ ~AllCopied(f)
      /\ UNCHANGED <<store, info, object, todo, meant, deleted, announced>>
  BY DEF appendTo, Steps
<1>2. CASE src = None
  <2>1. Fail(f) /\ UNCHANGED <<storeVars, todo, meant, deleted, announced>>
    BY <1>1, <1>2 DEF appendTo, storeVars
  <2> QED
    BY <2>1, FailKeeps
<1>3. CASE src # None
  <2>1. /\ PostOK(f) /\ Types /\ UploadOK(f) /\ f \in Uploads /\ f \notin Partials /\ p \in Posts
        /\ announced[f] \in 0..2 /\ meant[f] \in Seq(Byte) /\ meant[f] # None /\ "finish" \notin todo[f]
    BY <1>1, Going DEF ConcatInv
  <2>2. PICK k \in Nat : Counted(f, k) /\ (pieces[f] # None => Data(pieces[f]) = MeantOf(meant, p.list, k))
    BY <1>1, <2>1 DEF PostOK, Appends
  <2>3. store = "file" /\ announced[f] = 0
    BY <1>1, <2>1 DEF PostOK, Appends, Announces
  <2>4. /\ NextCopy(f) = k + 1 /\ k + 1 \in 1..Len(p.list)
        /\ p.copied \cup {NextCopy(f)} = 1..(k + 1)
        /\ src \in Seq(Byte)
        /\ MeantOf(meant, p.list, k + 1) = MeantOf(meant, p.list, k) \o src
        /\ StartOf(MeantOf(meant, p.list, k + 1), meant[f])
        /\ MeantOf(meant, p.list, k) \in Seq(Byte)
    BY <1>1, <1>3, <2>2, CopyNext
  <2> DEFINE q == Copying(p, k + 1)
             ps == IF pieces[f] = None THEN None ELSE Append(pieces[f], src)
  <2>5. Writes(f, q, announced[f], info[f], ps, object[f], meant[f])
    <3>1. post' = [post EXCEPT ![f].copied = @ \cup {NextCopy(f)}]
      BY <1>1, <1>3 DEF appendTo
    <3>2. post' = [post EXCEPT ![f] = q]
      BY <2>4, <3>1 DEF Copying
    <3>3. pieces' = [pieces EXCEPT ![f] = ps]
      BY <1>3 DEF appendTo
    <3> QED
      BY <1>1, <2>1, <3>2, <3>3 DEF Writes, Types
  <2>6. /\ q \in Posts /\ q.pc = p.pc /\ q.list = p.list /\ q.checked = p.checked /\ q.size = p.size
        /\ q.copied = 1..(k + 1) /\ q.file = p.file /\ q.err = p.err /\ q.aborts = p.aborts
    <3> DEFINE n == k + 1
    <3>1. n \in Nat /\ p \in Posts /\ q = Copying(p, n)
      BY <2>1
    <3> HIDE DEF n, p, q
    <3>2. /\ q \in Posts /\ q.pc = p.pc /\ q.list = p.list /\ q.checked = p.checked
          /\ q.size = p.size /\ q.copied = 1..n /\ q.file = p.file /\ q.err = p.err
          /\ q.aborts = p.aborts
      BY ONLY <3>1, CopyingIs
    <3> QED
      BY <3>2 DEF n
  <2>7. /\ ps \in Pieces \cup {None} /\ (ps = None <=> pieces[f] = None)
        /\ (ps # None => Data(ps) = MeantOf(meant, p.list, k + 1))
    <3>1. CASE pieces[f] = None
      BY <3>1
    <3>2. CASE pieces[f] # None
      <4>1. pieces[f] \in Pieces /\ ps = Append(pieces[f], src)
        BY <2>1, <3>2, UploadTyped
      <4>2. Append(pieces[f], src) \in Pieces /\ Data(Append(pieces[f], src)) = Data(pieces[f]) \o src
        BY <2>4, <4>1, DataAppend
      <4>3. ps \in Pieces /\ Data(ps) = MeantOf(meant, p.list, k + 1)
        BY <2>2, <2>4, <3>2, <4>1, <4>2
      <4> QED
        BY <3>2, <4>3, NoneIs
    <3> QED
      BY <3>1, <3>2
  <2> HIDE DEF q, ps
  <2> DEFINE i == info[f]
             o == object[f]
             m == meant[f]
             a == announced[f]
  <2>8. /\ i \in Infos \cup {None} /\ o \in Seq(Byte) \cup {None} /\ m \in Seq(Byte) \cup {None} /\ a \in 0..2
        /\ Writes(f, q, a, i, ps, o, m)
    BY <2>1, <2>5, UploadTyped
  <2>9. /\ Types' /\ f \in Uploads
        /\ \A u \in Uploads \ {f} : Same(u)
        /\ \A g \in Finals \ {f} : SamePost(g)
        /\ post'[f] = q /\ announced'[f] = a /\ info'[f] = i /\ pieces'[f] = ps
        /\ object'[f] = o /\ meant'[f] = m /\ todo'[f] = todo[f]
    <3> HIDE DEF i, o, m, a
    <3> QED
      BY <2>1, <2>6, <2>7, <2>8, PostWrites
  <2>10. UploadOK(f)'
    BY <1>1, <2>1, <2>4, <2>7, <2>9 DEF UploadOK
  <2>11. Lasting(f)
    <3>1. ASSUME Ready(f), pieces[f] # None PROVE Data(ps) = meant[f]
      <4> DEFINE x == MeantOf(meant, p.list, k)
                 y == MeantOf(meant, p.list, k + 1)
      <4>1. x = meant[f] /\ Data(ps) = y /\ y = x \o src /\ StartOf(y, meant[f]) /\ x \in Seq(Byte) /\ src \in Seq(Byte)
        BY <2>2, <2>3, <2>4, <2>7, <3>1 DEF Ready
      <4> HIDE DEF x, y, src
      <4>2. y \in Seq(Byte) /\ Len(y) = Len(x) + Len(src) /\ Len(src) \in Nat /\ Len(x) \in Nat
        BY <4>1
      <4>3. Len(y) <= Len(meant[f])
        BY <4>1 DEF StartOf
      <4>4. Len(y) = Len(meant[f])
        BY <4>1, <4>2, <4>3
      <4>5. y = meant[f]
        BY <2>1, <4>1, <4>2, <4>4, StartWhole
      <4> QED
        BY <4>1, <4>5
    <3> QED
      BY <1>1, <2>7, <2>9, <3>1 DEF Lasting, Ready
  <2>12. \A u \in Uploads : Lasting(u)
    <3> TAKE u \in Uploads
    <3>1. CASE u = f
      BY <2>11, <3>1
    <3>2. CASE u # f
      <4>1. UploadOK(u) /\ Same(u) /\ store' = store
        BY <1>1, <2>9, <3>2 DEF ConcatInv
      <4> QED
        BY <4>1, UploadFrame
    <3> QED
      BY <3>1, <3>2
  <2>13. k + 1 \in 0..Len(p.list) /\ 1..(k + 1) \subseteq 1..Len(p.list)
    BY <1>1, <2>4, Going
  <2>14. Checks(f)' /\ Runs(f)'
    <3>1. q \in Posts /\ q.pc \in Steps /\ q.copied \subseteq 1..Len(q.list) /\ meant' = meant
      BY <1>1, <2>6, <2>13
    <3> QED
      BY <1>1, <2>6, <2>9, <2>12, <3>1, GoesOn
  <2>15. Appends(f)'
    <3>1. Counted(f, k + 1)'
      BY <2>6, <2>9, <2>13 DEF Counted
    <3>2. pieces'[f] # None => Data(pieces'[f]) = MeantOf(meant', post'[f].list, k + 1)
      BY <1>1, <2>6, <2>7, <2>9
    <3>3. k + 1 \in Nat /\ store' = "file"
      BY <1>1, <2>3
    <3>4. Kept(f)' => pieces'[f] # None
      BY <1>1, <2>1, <2>7, <2>9 DEF PostOK, Appends, Kept
    <3> QED
      BY <3>1, <3>2, <3>3, <3>4 DEF Appends
  <2>16. Downloads(f)' /\ Copies(f)'
    BY <1>1, <2>1, <2>3, <2>6, <2>9 DEF PostOK, Downloads, Copies
  <2>17. Announces(f)'
    BY <1>1, <2>3, <2>6, <2>9 DEF Announces
  <2>18. PostOK(f)'
    BY <2>14, <2>15, <2>16, <2>17 DEF PostOK
  <2> QED
    BY <1>1, <2>9, <2>10, <2>11, <2>18, OneUpload
<1> QED
  BY <1>2, <1>3

LEMMA FileClosedKeeps ==
  ASSUME ConcatInv, NEW f \in Finals, FileClosed(f) PROVE ConcatInv'
<1> DEFINE p == post[f]
           q == GoesTo(p, "emit")
<1>1. /\ p.pc = "append" /\ p.pc \in Steps /\ "emit" \in Steps /\ AllCopied(f)
      /\ UNCHANGED <<storeVars, todo, meant, deleted, announced>>
  BY DEF FileClosed, Steps
<1>2. /\ PostOK(f) /\ Types /\ p \in Posts /\ p.copied \subseteq 1..Len(p.list) /\ announced[f] \in 0..2
      /\ Len(p.list) \in Nat /\ meant[f] = MeantOf(meant, p.list, Len(p.list))
  BY <1>1, Going DEF ConcatInv
<1>3. /\ q \in Posts /\ q.pc = "emit" /\ q.list = p.list /\ q.checked = p.checked /\ q.size = p.size
      /\ q.copied = p.copied /\ q.file = p.file /\ q.err = p.err /\ q.aborts = p.aborts
  BY <1>1, <1>2, GoesToIs
<1>4. /\ post' = [post EXCEPT ![f] = q] /\ announced' = [announced EXCEPT ![f] = announced[f]]
      /\ UNCHANGED <<storeVars, todo, meant, deleted>>
  BY <1>1, <1>2 DEF FileClosed, GoesTo, Types
<1> HIDE DEF q
<1>5. /\ post'[f] = q /\ announced'[f] = announced[f] /\ pieces' = pieces /\ store' = store /\ meant' = meant
      /\ Kept(f)' <=> Kept(f)
      /\ Source(f)' = Source(f)
      /\ Appends(f)' /\ Downloads(f)' /\ Copies(f)' /\ Announces(f)' => ConcatInv'
  <2>1. q \in Posts /\ q.pc \in Steps /\ q.copied \subseteq 1..Len(q.list)
    BY <1>1, <1>2, <1>3
  <2> QED
    BY <1>1, <1>2, <1>3, <1>4, <2>1, GoesOnAlone
<1>6. Kept(f) => Source(f) = meant[f]
  <2>1. PICK k \in Nat : Counted(f, k) /\ (pieces[f] # None => Data(pieces[f]) = MeantOf(meant, p.list, k))
    BY <1>1, <1>2 DEF PostOK, Appends
  <2>2. 1..k = 1..Len(p.list)
    BY <1>1, <2>1 DEF Counted, AllCopied
  <2>3. k = Len(p.list)
    BY <1>2, <2>2, Interval
  <2>4. store = "file" /\ (Kept(f) => pieces[f] # None)
    BY <1>1, <1>2 DEF PostOK, Appends
  <2> QED
    BY <1>2, <2>1, <2>3, <2>4 DEF Source
<1>7. Appends(f)' /\ Downloads(f)' /\ Copies(f)'
  <2>1. store = "file"
    BY <1>1, <1>2 DEF PostOK, Appends
  <2> QED
    BY <1>1, <1>2, <1>3, <1>5, <2>1 DEF PostOK, Appends, Downloads, Copies
<1>8. Announces(f)'
  BY <1>1, <1>2, <1>3, <1>5, <1>6 DEF PostOK, Announces
<1> QED
  BY <1>5, <1>7, <1>8

Downloading(p, k, x) == [p EXCEPT !.copied = 1..k, !.file = x]

LEMMA DownloadingIs ==
  ASSUME NEW p \in Posts, NEW k \in Nat, NEW x \in Seq(Byte), NEW q, q = Downloading(p, k, x)
  PROVE  /\ q \in Posts /\ q.pc = p.pc /\ q.list = p.list /\ q.checked = p.checked /\ q.size = p.size
         /\ q.copied = 1..k /\ q.file = x /\ q.err = p.err /\ q.aborts = p.aborts
<1>1. 1..k \in SUBSET Nat
  OBVIOUS
<1> QED
  BY <1>1 DEF Posts, Downloading

LEMMA DownloadNextKeeps ==
  ASSUME ConcatInv, NEW f \in Finals, DownloadNext(f) PROVE ConcatInv'
<1> DEFINE p == post[f]
           src == Source(p.list[NextCopy(f)])
<1>1. /\ p.pc = "download" /\ p.pc \in Steps /\ ~AllCopied(f)
      /\ UNCHANGED <<storeVars, todo, meant, deleted, announced>>
  BY DEF DownloadNext, Steps
<1>2. CASE src = None
  BY <1>1, <1>2, FailKeeps DEF DownloadNext
<1>3. CASE src # None
  <2>1. PostOK(f) /\ Types /\ p \in Posts /\ announced[f] \in 0..2 /\ Len(p.list) \in Nat
    BY <1>1, Going DEF ConcatInv
  <2>2. PICK k \in Nat : Counted(f, k) /\ p.file = MeantOf(meant, p.list, k)
    BY <1>1, <2>1 DEF PostOK, Downloads
  <2>3. /\ NextCopy(f) = k + 1 /\ k + 1 \in 1..Len(p.list)
        /\ p.copied \cup {NextCopy(f)} = 1..(k + 1)
        /\ src \in Seq(Byte)
        /\ MeantOf(meant, p.list, k + 1) = MeantOf(meant, p.list, k) \o src
        /\ StartOf(MeantOf(meant, p.list, k + 1), meant[f])
        /\ MeantOf(meant, p.list, k) \in Seq(Byte)
    BY <1>1, <1>3, <2>2, CopyNext
  <2> DEFINE x == p.file \o src
             q == Downloading(p, k + 1, x)
  <2>4. x \in Seq(Byte) /\ x = MeantOf(meant, p.list, k + 1)
    <3> DEFINE y == MeantOf(meant, p.list, k)
    <3>1. y \in Seq(Byte) /\ src \in Seq(Byte) /\ x = y \o src
      BY <2>2, <2>3
    <3> HIDE DEF y, src, x
    <3>2. x \in Seq(Byte)
      BY <3>1
    <3> QED
      BY <2>3, <3>1, <3>2 DEF y
  <2>5. /\ q \in Posts /\ q.pc = p.pc /\ q.list = p.list /\ q.checked = p.checked /\ q.size = p.size
        /\ q.copied = 1..(k + 1) /\ q.file = x /\ q.err = p.err /\ q.aborts = p.aborts
    <3>1. k + 1 \in Nat /\ p \in Posts /\ x \in Seq(Byte) /\ q = Downloading(p, k + 1, x)
      BY <2>1, <2>4
    <3> HIDE DEF p, q, x
    <3> QED
      BY <3>1, DownloadingIs
  <2>6. /\ post' = [post EXCEPT ![f] = q] /\ announced' = [announced EXCEPT ![f] = announced[f]]
        /\ UNCHANGED <<storeVars, todo, meant, deleted>>
    <3>1. post' = [post EXCEPT ![f].copied = @ \cup {NextCopy(f)}, ![f].file = @ \o src]
      BY <1>3 DEF DownloadNext
    <3> QED
      BY <1>1, <2>1, <2>3, <3>1 DEF Downloading, Types
  <2> HIDE DEF q, x
  <2>7. k + 1 \in 0..Len(p.list) /\ 1..(k + 1) \subseteq 1..Len(p.list)
    BY <2>1, <2>3
  <2>8. /\ post'[f] = q /\ announced'[f] = announced[f] /\ pieces' = pieces /\ store' = store /\ meant' = meant
        /\ Kept(f)' <=> Kept(f)
        /\ Source(f)' = Source(f)
        /\ Appends(f)' /\ Downloads(f)' /\ Copies(f)' /\ Announces(f)' => ConcatInv'
    <3>1. q \in Posts /\ q.pc \in Steps /\ q.copied \subseteq 1..Len(q.list)
      BY <1>1, <2>5, <2>7
    <3> QED
      BY <1>1, <2>1, <2>5, <2>6, <3>1, GoesOnAlone
  <2>9. Downloads(f)'
    <3>1. Counted(f, k + 1)' /\ k + 1 \in Nat
      BY <2>5, <2>7, <2>8 DEF Counted
    <3>2. post'[f].file = MeantOf(meant', post'[f].list, k + 1)
      BY <2>4, <2>5, <2>8
    <3>3. store' = "s3" /\ (pieces'[f] # None => \A i \in 1..Len(pieces'[f]) : pieces'[f][i] = None)
      BY <1>1, <2>1, <2>8 DEF PostOK, Downloads
    <3> QED
      BY <3>1, <3>2, <3>3 DEF Downloads
  <2>10. Appends(f)' /\ Copies(f)' /\ Announces(f)'
    BY <1>1, <2>1, <2>5, <2>8 DEF PostOK, Appends, Copies, Announces
  <2> QED
    BY <2>8, <2>9, <2>10
<1> QED
  BY <1>2, <1>3

Putting(p) == [p EXCEPT !.pc = "emit", !.aborts = TRUE]

LEMMA PuttingIs ==
  ASSUME NEW p \in Posts, NEW q, q = Putting(p)
  PROVE  /\ q \in Posts /\ q.pc = "emit" /\ q.list = p.list /\ q.checked = p.checked /\ q.size = p.size
         /\ q.copied = p.copied /\ q.file = p.file /\ q.err = p.err /\ q.aborts = TRUE
BY DEF Posts, Putting, Steps

(* The steps of the POST that write to the S3 store. *)
LEMMA S3Writes ==
  ASSUME ConcatInv, NEW f \in Finals, store = "s3", store' = store, post[f].pc \in Steps, NEW q \in Posts, q.pc \in Steps,
         q.list = post[f].list, q.size = post[f].size, q.checked = post[f].checked,
         q.copied \subseteq 1..Len(q.list), NEW ps \in Pieces \cup {None}, NEW o \in Seq(Byte) \cup {None},
         o = object[f] \/ o = meant[f],
         Writes(f, q, announced[f], info[f], ps, o, meant[f])
  PROVE  /\ post'[f] = q /\ announced'[f] = announced[f] /\ pieces'[f] = ps /\ object'[f] = o
         /\ info'[f] = info[f] /\ meant' = meant
         /\ Appends(f)' /\ Downloads(f)' /\ Copies(f)' /\ Announces(f)' => ConcatInv'
<1>1. /\ Types /\ UploadOK(f) /\ f \in Uploads /\ f \notin Partials /\ meant[f] # None /\ "finish" \notin todo[f]
      /\ announced[f] \in 0..2
  BY Going
<1> DEFINE i == info[f]
           m == meant[f]
           a == announced[f]
<1>2. /\ i \in Infos \cup {None} /\ m \in Seq(Byte) \cup {None} /\ a \in 0..2
      /\ Writes(f, q, a, i, ps, o, m)
  BY <1>1, UploadTyped
<1>3. /\ Types' /\ f \in Uploads
      /\ \A u \in Uploads \ {f} : Same(u)
      /\ \A g \in Finals \ {f} : SamePost(g)
      /\ post'[f] = q /\ announced'[f] = a /\ info'[f] = i /\ pieces'[f] = ps
      /\ object'[f] = o /\ meant'[f] = m /\ todo'[f] = todo[f]
  <2> HIDE DEF i, m, a
  <2> QED
    BY <1>1, <1>2, PostWrites
<1>4. meant' = meant /\ deleted' = deleted
  BY <1>1 DEF Writes, Types
<1>5. UploadOK(f)'
  BY <1>1, <1>3, <1>4 DEF UploadOK
<1>6. \A u \in Uploads : Lasting(u)
  BY <1>4 DEF Lasting, Ready
<1>7. Checks(f)' /\ Runs(f)'
  BY <1>3, <1>4, <1>6, GoesOn
<1>8. Lasting(f)
  BY <1>1, <1>6
<1>9. ASSUME PostOK(f)' PROVE ConcatInv'
  BY <1>3, <1>5, <1>8, <1>9, OneUpload
<1> QED
  BY <1>3, <1>4, <1>7, <1>9 DEF PostOK

LEMMA PutObjectKeeps ==
  ASSUME ConcatInv, NEW f \in Finals, PutObject(f) PROVE ConcatInv'
<1> DEFINE p == post[f]
           q == Putting(p)
           ps == pieces[f]
           o == p.file
<1>1. /\ p.pc = "download" /\ p.pc \in Steps /\ "emit" \in Steps /\ AllCopied(f)
      /\ UNCHANGED <<store, info, pieces, todo, meant, deleted, announced>>
  BY DEF PutObject, Steps
<1>2. /\ PostOK(f) /\ Types /\ f \in Uploads /\ p \in Posts /\ p.copied \subseteq 1..Len(p.list)
      /\ Len(p.list) \in Nat /\ meant[f] = MeantOf(meant, p.list, Len(p.list)) /\ p.file \in Seq(Byte)
  BY <1>1, Going DEF ConcatInv
<1>3. store = "s3"
  BY <1>1, <1>2 DEF PostOK, Downloads
<1>4. p.file = meant[f]
  <2>1. PICK k \in Nat : Counted(f, k) /\ p.file = MeantOf(meant, p.list, k)
    BY <1>1, <1>2 DEF PostOK, Downloads
  <2>2. 1..k = 1..Len(p.list)
    BY <1>1, <2>1 DEF Counted, AllCopied
  <2>3. k = Len(p.list)
    BY <1>2, <2>2, Interval
  <2> QED
    BY <1>2, <2>1, <2>3
<1>5. /\ q \in Posts /\ q.pc = "emit" /\ q.list = p.list /\ q.checked = p.checked /\ q.size = p.size
      /\ q.copied = p.copied /\ q.file = p.file /\ q.err = p.err /\ q.aborts = TRUE
  BY <1>2, PuttingIs
<1>6. Writes(f, q, announced[f], info[f], ps, o, meant[f])
  BY <1>1, <1>2 DEF PutObject, Putting, Writes, Types
<1>7. ps \in Pieces \cup {None} /\ o \in Seq(Byte) \cup {None} /\ (o = object[f] \/ o = meant[f])
  BY <1>2, <1>4, UploadTyped
<1>8. q \in Posts /\ q.pc \in Steps /\ q.copied \subseteq 1..Len(q.list)
  BY <1>1, <1>2, <1>5
<1> HIDE DEF q, ps, o
<1>9. /\ post'[f] = q /\ announced'[f] = announced[f] /\ pieces'[f] = ps /\ object'[f] = o
      /\ info'[f] = info[f] /\ meant' = meant
      /\ Appends(f)' /\ Downloads(f)' /\ Copies(f)' /\ Announces(f)' => ConcatInv'
  BY <1>1, <1>3, <1>5, <1>6, <1>7, <1>8, S3Writes
<1>10. Downloads(f)'
  BY <1>1, <1>2, <1>3, <1>5, <1>9 DEF PostOK, Downloads, ps
<1>11. Appends(f)' /\ Copies(f)'
  BY <1>5, <1>9 DEF Appends, Copies
<1>12. Announces(f)'
  <2>1. Source(f)' = meant'[f]
    BY <1>1, <1>3, <1>4, <1>9 DEF Source, o
  <2>2. announced[f] = 0
    BY <1>1, <1>2 DEF PostOK, Announces
  <2> QED
    BY <1>5, <1>9, <2>1, <2>2 DEF Announces
<1> QED
  BY <1>9, <1>10, <1>11, <1>12

Copied(p, i, e) == [p EXCEPT !.copied = @ \cup {i}, !.err = @ \/ e]

LEMMA CopiedIs ==
  ASSUME NEW p \in Posts, NEW i \in Nat, NEW e \in BOOLEAN, NEW q, q = Copied(p, i, e)
  PROVE  /\ q \in Posts /\ q.pc = p.pc /\ q.list = p.list /\ q.checked = p.checked /\ q.size = p.size
         /\ q.copied = p.copied \cup {i} /\ q.file = p.file /\ (q.err <=> p.err \/ e) /\ q.aborts = p.aborts
<1>1. p.copied \cup {i} \in SUBSET Nat /\ (p.err \/ e) \in BOOLEAN
  BY DEF Posts
<1> QED
  BY <1>1 DEF Posts, Copied

LEMMA UploadPartCopyKeeps ==
  ASSUME ConcatInv, NEW f \in Finals, UploadPartCopy(f) PROVE ConcatInv'
<1> DEFINE p == post[f]
<1>1. /\ p.pc = "multipart" /\ p.pc \in Steps
      /\ UNCHANGED <<store, info, object, todo, meant, deleted, announced>>
  BY DEF UploadPartCopy, Steps
<1>2. PICK i \in 1..Len(p.list) \ p.copied :
       LET src == object[p.list[i]]
           ok  == src # None /\ pieces[f] # None
       IN  /\ post' = [post EXCEPT ![f].copied = @ \cup {i}, ![f].err = @ \/ ~ok]
           /\ pieces' = IF ok THEN [pieces EXCEPT ![f][i] = src] ELSE pieces
  BY DEF UploadPartCopy
<1> DEFINE src == object[p.list[i]]
           ok == src # None /\ pieces[f] # None
           e == ~ok
           q == Copied(p, i, e)
           ps == IF ok THEN [pieces[f] EXCEPT ![i] = src] ELSE pieces[f]
           o == object[f]
<1>3. /\ PostOK(f) /\ Types /\ f \in Uploads /\ p \in Posts /\ p.copied \subseteq 1..Len(p.list)
      /\ Len(p.list) \in Nat /\ \A j \in 1..Len(p.list) : p.list[j] \in Uploads
  BY <1>1, Going DEF ConcatInv
<1>4. store = "s3"
  BY <1>1, <1>3 DEF PostOK, Copies
<1>5. src # None => src = meant[p.list[i]] /\ src \in Seq(Byte)
  <2> DEFINE u == p.list[i]
  <2>1. u \in Uploads
    BY <1>3
  <2> HIDE DEF u
  <2>2. UploadOK(u) /\ object[u] \in Seq(Byte) \cup {None}
    BY <1>3, <2>1, UploadTyped DEF ConcatInv
  <2>3. object[u] # None => object[u] = meant[u] /\ object[u] \in Seq(Byte)
    BY <2>2 DEF UploadOK
  <2> QED
    BY <2>3 DEF u
<1>6. i \in Nat /\ e \in BOOLEAN /\ (ok <=> src # None /\ pieces[f] # None) /\ (e <=> ~ok)
  BY <1>3
<1>7. /\ q \in Posts /\ q.pc = p.pc /\ q.list = p.list /\ q.checked = p.checked /\ q.size = p.size
      /\ q.copied = p.copied \cup {i} /\ q.file = p.file /\ (q.err <=> p.err \/ e) /\ q.aborts = p.aborts
  <2>1. p \in Posts /\ i \in Nat /\ e \in BOOLEAN /\ q = Copied(p, i, e)
    BY <1>3, <1>6
  <2> HIDE DEF p, e, q
  <2> QED
    BY <2>1, CopiedIs
<1>8. ASSUME ok
      PROVE  /\ pieces[f] \in Pieces /\ Len(pieces[f]) = Len(p.list) /\ ps \in Pieces /\ Len(ps) = Len(pieces[f])
             /\ \A j \in 1..Len(p.list) : ps[j] = IF j = i THEN src ELSE pieces[f][j]
  <2> DEFINE B == Seq(Byte) \cup {None}
             g == pieces[f]
  <2>1. g \in Seq(B) /\ Len(g) = Len(p.list) /\ src \in B
    BY <1>1, <1>3, <1>5, <1>8, UploadTyped DEF PostOK, Copies, Pieces
  <2>2. ps = [g EXCEPT ![i] = src] /\ i \in 1..Len(g)
    BY <1>8, <2>1
  <2> HIDE DEF B, g, src, ps, ok
  <2>3. ps \in Seq(B) /\ Len(ps) = Len(g) /\ \A j \in 1..Len(g) : ps[j] = IF j = i THEN src ELSE g[j]
    BY <2>1, <2>2
  <2> QED
    BY <2>1, <2>3 DEF g, B, Pieces
<1>9. ps \in Pieces \cup {None} /\ o \in Seq(Byte) \cup {None} /\ (o = object[f] \/ o = meant[f])
  <2>1. pieces[f] \in Pieces \cup {None} /\ o \in Seq(Byte) \cup {None}
    BY <1>3, UploadTyped
  <2> QED
    BY <1>8, <2>1
<1>10. Writes(f, q, announced[f], info[f], ps, o, meant[f])
  <2>1. post' = [post EXCEPT ![f] = q]
    BY <1>2 DEF Copied
  <2>2. pieces' = [pieces EXCEPT ![f] = ps]
    <3>1. CASE ok
      BY <1>2, <3>1
    <3>2. CASE ~ok
      BY <1>2, <1>3, <3>2 DEF Types
    <3> QED
      BY <3>1, <3>2
  <2> QED
    BY <1>1, <1>3, <2>1, <2>2 DEF Writes, Types
<1>11. q \in Posts /\ q.pc \in Steps /\ q.copied \subseteq 1..Len(q.list)
  BY <1>1, <1>3, <1>7
<1>12. ~ok => ps = pieces[f]
  OBVIOUS
<1> HIDE DEF q, ps, o, src, ok, e
<1>13. /\ post'[f] = q /\ announced'[f] = announced[f] /\ pieces'[f] = ps /\ object'[f] = o
       /\ info'[f] = info[f] /\ meant' = meant
       /\ Appends(f)' /\ Downloads(f)' /\ Copies(f)' /\ Announces(f)' => ConcatInv'
  BY <1>1, <1>4, <1>7, <1>9, <1>10, <1>11, S3Writes
<1>14. Copies(f)'
  <2>1. ASSUME ps # None
        PROVE  /\ Len(ps) = Len(p.list)
               /\ \A j \in 1..Len(p.list) :
                    IF j \in q.copied THEN q.err \/ ps[j] = meant[p.list[j]] ELSE ps[j] = None
    <3>1. pieces[f] # None
      BY <1>6, <1>12, <2>1
    <3>2. /\ Len(pieces[f]) = Len(p.list)
          /\ \A j \in 1..Len(p.list) :
               IF j \in p.copied THEN p.err \/ pieces[f][j] = meant[p.list[j]] ELSE pieces[f][j] = None
      BY <1>1, <1>3, <3>1 DEF PostOK, Copies
    <3>3. Len(ps) = Len(p.list)
      BY <1>8, <1>12, <3>2
    <3>4. ASSUME NEW j \in 1..Len(p.list)
          PROVE  IF j \in q.copied THEN q.err \/ ps[j] = meant[p.list[j]] ELSE ps[j] = None
      <4>1. CASE ok
        <5>1. ps[j] = IF j = i THEN src ELSE pieces[f][j]
          BY <1>8, <4>1
        <5>2. CASE j = i
          BY <1>5, <1>6, <1>7, <4>1, <5>1, <5>2
        <5>3. CASE j # i
          BY <1>7, <3>2, <5>1, <5>3
        <5> QED
          BY <5>2, <5>3
      <4>2. CASE ~ok
        BY <1>6, <1>7, <1>12, <3>2, <4>2
      <4> QED
        BY <4>1, <4>2
    <3> QED
      BY <3>3, <3>4
  <2> QED
    BY <1>1, <1>4, <1>7, <1>13, <2>1 DEF Copies
<1>15. Appends(f)' /\ Downloads(f)'
  BY <1>1, <1>3, <1>4, <1>7, <1>13 DEF PostOK, Appends, Downloads
<1>16. Announces(f)'
  BY <1>1, <1>3, <1>7, <1>13 DEF PostOK, Announces
<1> QED
  BY <1>13, <1>14, <1>15, <1>16

LEMMA FinishMultipartKeeps ==
  ASSUME ConcatInv, NEW f \in Finals, FinishMultipart(f) PROVE ConcatInv'
<1> DEFINE p == post[f]
           q == GoesTo(p, "emit")
           ps == None
           o == Data(pieces[f])
<1>1. /\ p.pc = "multipart" /\ p.pc \in Steps /\ "emit" \in Steps /\ AllCopied(f)
      /\ UNCHANGED <<store, info, todo, meant, deleted, announced>>
  BY DEF FinishMultipart, Steps
<1>2. CASE p.err \/ pieces[f] = None
  <2>1. Fail(f) /\ UNCHANGED <<storeVars, todo, meant, deleted, announced>>
    BY <1>1, <1>2 DEF FinishMultipart, storeVars
  <2> QED
    BY <2>1, FailKeeps
<1>3. CASE ~(p.err \/ pieces[f] = None)
  <2>1. /\ PostOK(f) /\ Types /\ f \in Uploads /\ p \in Posts /\ p.copied \subseteq 1..Len(p.list)
        /\ meant[f] = MeantOf(meant, p.list, Len(p.list)) /\ Known(meant, p.list, Len(p.list))
        /\ meant[f] \in Seq(Byte)
    BY <1>1, Going DEF ConcatInv
  <2>2. store = "s3" /\ Len(pieces[f]) = Len(p.list) /\ \A i \in 1..Len(p.list) : pieces[f][i] = meant[p.list[i]]
    BY <1>1, <1>3, <2>1 DEF PostOK, Copies, AllCopied
  <2>3. o = meant[f]
    <3>1. pieces[f] \in Pieces
      BY <1>3, <2>1, UploadTyped
    <3> QED
      BY <2>1, <2>2, <3>1, DataMeant
  <2>4. /\ q \in Posts /\ q.pc = "emit" /\ q.list = p.list /\ q.checked = p.checked /\ q.size = p.size
        /\ q.copied = p.copied /\ q.file = p.file /\ q.err = p.err /\ q.aborts = p.aborts
    BY <1>1, <2>1, GoesToIs
  <2>5. Writes(f, q, announced[f], info[f], ps, o, meant[f])
    <3>1. object' = [object EXCEPT ![f] = o] /\ pieces' = [pieces EXCEPT ![f] = ps]
      BY <1>3, <2>2 DEF FinishMultipart, Completed
    <3>2. post' = [post EXCEPT ![f] = q]
      BY <1>3 DEF FinishMultipart, GoesTo
    <3> QED
      BY <1>1, <2>1, <3>1, <3>2 DEF Writes, Types
  <2>6. ps \in Pieces \cup {None} /\ o \in Seq(Byte) \cup {None} /\ (o = object[f] \/ o = meant[f])
    BY <2>1, <2>3
  <2>7. q \in Posts /\ q.pc \in Steps /\ q.copied \subseteq 1..Len(q.list)
    BY <1>1, <2>1, <2>4
  <2>8. ps = None
    OBVIOUS
  <2> HIDE DEF q, ps, o
  <2>9. /\ post'[f] = q /\ announced'[f] = announced[f] /\ pieces'[f] = ps /\ object'[f] = o
        /\ info'[f] = info[f] /\ meant' = meant
        /\ Appends(f)' /\ Downloads(f)' /\ Copies(f)' /\ Announces(f)' => ConcatInv'
    BY <1>1, <2>2, <2>4, <2>5, <2>6, <2>7, S3Writes
  <2>10. Appends(f)' /\ Downloads(f)' /\ Copies(f)'
    BY <1>1, <2>2, <2>4, <2>8, <2>9 DEF Appends, Downloads, Copies
  <2>11. Announces(f)'
    <3>1. Source(f)' = meant'[f]
      BY <1>1, <2>2, <2>3, <2>9 DEF Source
    <3>2. announced[f] = 0
      BY <1>1, <2>1 DEF PostOK, Announces
    <3> QED
      BY <2>4, <2>9, <3>1, <3>2 DEF Announces
  <2> QED
    BY <2>9, <2>10, <2>11
<1> QED
  BY <1>2, <1>3

LEMMA EmitFinishEventsKeeps ==
  ASSUME ConcatInv, NEW f \in Finals, emitFinishEvents(f) PROVE ConcatInv'
<1> DEFINE p == post[f]
           a == announced[f] + 1
<1>1. /\ p.pc \in {"emit", "emitAgain"} /\ p.pc \in Steps /\ "finish" \in Steps
      /\ UNCHANGED <<storeVars, todo, meant, deleted>> /\ announced' = [announced EXCEPT ![f] = a]
  BY DEF emitFinishEvents, Steps
<1>2. /\ PostOK(f) /\ Types /\ f \in Uploads /\ p \in Posts /\ p.copied \subseteq 1..Len(p.list)
      /\ announced[f] \in 0..2
  BY <1>1, Going DEF ConcatInv
<1>3. /\ Kept(f) => Source(f) = meant[f]
      /\ p.pc = "emit" => announced[f] = 0
      /\ p.pc = "emitAgain" => announced[f] = 1
  BY <1>1, <1>2 DEF PostOK, Announces
<1>4. a \in 0..2
  BY <1>1, <1>3
<1>5. CASE p.pc = "emit" /\ p.size = 0
  <2> DEFINE q == GoesTo(p, "finish")
  <2>1. /\ q \in Posts /\ q.pc = "finish" /\ q.list = p.list /\ q.checked = p.checked /\ q.size = p.size
        /\ q.copied = p.copied /\ q.file = p.file /\ q.err = p.err /\ q.aborts = p.aborts
    BY <1>1, <1>2, GoesToIs
  <2>2. post' = [post EXCEPT ![f] = q]
    BY <1>5 DEF emitFinishEvents, GoesTo
  <2>3. q \in Posts /\ q.pc \in Steps /\ q.copied \subseteq 1..Len(q.list)
    BY <1>1, <1>2, <2>1
  <2>4. a = 1
    BY <1>3, <1>5
  <2> HIDE DEF q, a
  <2>5. /\ post'[f] = q /\ announced'[f] = a /\ pieces' = pieces /\ store' = store /\ meant' = meant
        /\ Kept(f)' <=> Kept(f)
        /\ Source(f)' = Source(f)
        /\ Appends(f)' /\ Downloads(f)' /\ Copies(f)' /\ Announces(f)' => ConcatInv'
    BY <1>1, <1>4, <2>1, <2>2, <2>3, GoesOnAlone
  <2>6. Appends(f)' /\ Copies(f)'
    BY <2>1, <2>5 DEF Appends, Copies
  <2>7. Downloads(f)'
    BY <1>2, <1>5, <2>1, <2>5 DEF PostOK, Downloads
  <2>8. Announces(f)'
    BY <1>3, <1>5, <2>1, <2>4, <2>5 DEF Announces
  <2> QED
    BY <2>5, <2>6, <2>7, <2>8
<1>6. CASE ~(p.pc = "emit" /\ p.size = 0)
  <2>1. Respond(f, "done")
    BY <1>6 DEF emitFinishEvents
  <2> HIDE DEF a
  <2> QED
    BY <1>1, <1>3, <1>4, <2>1, RespondKeeps
<1> QED
  BY <1>5, <1>6

LEMMA FinishUploadIfCompleteKeeps ==
  ASSUME ConcatInv, NEW f \in Finals, finishUploadIfComplete(f) PROVE ConcatInv'
<1> DEFINE p == post[f]
           q == GoesTo(p, "emitAgain")
<1>1. /\ p.pc = "finish" /\ p.pc \in Steps /\ "emitAgain" \in Steps
      /\ UNCHANGED <<store, info, todo, meant, deleted, announced>>
  BY DEF finishUploadIfComplete, Steps
<1>2. /\ PostOK(f) /\ Types /\ f \in Uploads /\ p \in Posts /\ p.copied \subseteq 1..Len(p.list)
      /\ meant[f] \in Seq(Byte) /\ p.size = Len(meant[f]) /\ announced[f] \in 0..2
  BY <1>1, Going DEF ConcatInv
<1>3. /\ q \in Posts /\ q.pc = "emitAgain" /\ q.list = p.list /\ q.checked = p.checked /\ q.size = p.size
      /\ q.copied = p.copied /\ q.file = p.file /\ q.err = p.err /\ q.aborts = p.aborts
  BY <1>1, <1>2, GoesToIs
<1>4. q \in Posts /\ q.pc \in Steps /\ q.copied \subseteq 1..Len(q.list)
  BY <1>1, <1>2, <1>3
<1>5. (Kept(f) => Source(f) = meant[f]) /\ announced[f] = 1
  BY <1>1, <1>2 DEF PostOK, Announces
<1>6. CASE store = "s3" /\ pieces[f] = None
  <2>1. Fail(f) /\ UNCHANGED <<storeVars, todo, meant, deleted, announced>>
    BY <1>1, <1>6 DEF finishUploadIfComplete, storeVars
  <2> QED
    BY <2>1, FailKeeps
<1>7. CASE store = "file"
  <2>1. /\ post' = [post EXCEPT ![f] = q] /\ announced' = [announced EXCEPT ![f] = announced[f]]
        /\ UNCHANGED <<storeVars, todo, meant, deleted>>
    BY <1>1, <1>2, <1>7 DEF finishUploadIfComplete, Completed, GoesTo, storeVars, Types
  <2> HIDE DEF q
  <2>2. /\ post'[f] = q /\ announced'[f] = announced[f] /\ pieces' = pieces /\ store' = store /\ meant' = meant
        /\ Kept(f)' <=> Kept(f)
        /\ Source(f)' = Source(f)
        /\ Appends(f)' /\ Downloads(f)' /\ Copies(f)' /\ Announces(f)' => ConcatInv'
    BY <1>1, <1>2, <1>3, <1>4, <2>1, GoesOnAlone
  <2>3. Appends(f)' /\ Copies(f)' /\ Downloads(f)'
    BY <1>2, <1>3, <2>2 DEF PostOK, Appends, Copies, Downloads
  <2>4. Announces(f)'
    BY <1>3, <1>5, <2>2 DEF Announces
  <2> QED
    BY <2>2, <2>3, <2>4
<1>8. CASE store = "s3" /\ pieces[f] # None
  <2> DEFINE ps == None
             o == Data(pieces[f])
  <2>1. pieces[f] \in Pieces /\ \A i \in 1..Len(pieces[f]) : pieces[f][i] = None
    BY <1>1, <1>2, <1>8, UploadTyped DEF PostOK, Downloads
  <2>2. Data(pieces[f]) = <<>>
    BY <2>1, DataNone
  <2>3. Len(meant[f]) = 0
    BY <1>1, <1>2 DEF PostOK, Announces
  <2>4. o = meant[f]
    BY <1>2, <2>2, <2>3, EmptySeq
  <2>5. Writes(f, q, announced[f], info[f], ps, o, meant[f])
    <3>1. object' = [object EXCEPT ![f] = o] /\ pieces' = [pieces EXCEPT ![f] = ps]
      BY <1>8 DEF finishUploadIfComplete, Completed
    <3>2. post' = [post EXCEPT ![f] = q]
      BY <1>8 DEF finishUploadIfComplete, GoesTo
    <3> QED
      BY <1>1, <1>2, <3>1, <3>2 DEF Writes, Types
  <2>6. ps \in Pieces \cup {None} /\ o \in Seq(Byte) \cup {None} /\ (o = object[f] \/ o = meant[f])
    BY <1>2, <2>4
  <2>7. ps = None
    OBVIOUS
  <2> HIDE DEF q, ps, o
  <2>8. /\ post'[f] = q /\ announced'[f] = announced[f] /\ pieces'[f] = ps /\ object'[f] = o
        /\ info'[f] = info[f] /\ meant' = meant
        /\ Appends(f)' /\ Downloads(f)' /\ Copies(f)' /\ Announces(f)' => ConcatInv'
    BY <1>1, <1>3, <1>4, <1>8, <2>5, <2>6, S3Writes
  <2>9. Appends(f)' /\ Downloads(f)' /\ Copies(f)'
    BY <1>1, <1>3, <1>8, <2>7, <2>8 DEF Appends, Downloads, Copies
  <2>10. Announces(f)'
    <3>1. Source(f)' = meant'[f]
      BY <1>1, <1>8, <2>4, <2>8 DEF Source
    <3> QED
      BY <1>3, <1>5, <2>8, <3>1 DEF Announces
  <2> QED
    BY <2>8, <2>9, <2>10
<1> QED
  BY <1>2, <1>6, <1>7, <1>8, StoreIs

NoAbort(p) == [p EXCEPT !.aborts = FALSE]

LEMMA NoAbortIs ==
  ASSUME NEW p \in Posts, NEW q, q = NoAbort(p)
  PROVE  /\ q \in Posts /\ q.pc = p.pc /\ q.list = p.list /\ q.checked = p.checked /\ q.size = p.size
         /\ q.copied = p.copied /\ q.file = p.file /\ q.err = p.err /\ q.aborts = FALSE
BY DEF Posts, NoAbort

LEMMA AbortKeeps ==
  ASSUME ConcatInv, NEW f \in Finals, AbortMultipartUpload(f) PROVE ConcatInv'
<1> DEFINE p == post[f]
           q == NoAbort(p)
<1>1. p.aborts /\ UNCHANGED <<store, info, object, todo, meant, deleted, announced>>
  BY DEF AbortMultipartUpload
<1>2. /\ PostOK(f) /\ UploadOK(f) /\ Types /\ f \in Uploads /\ p \in Posts /\ announced[f] \in 0..2
      /\ p.pc \in {"idle", "check", "done", "failed"} \cup Steps /\ f \notin Partials
      /\ pieces[f] \in Pieces \cup {None}
  BY NoFinalIsPartial, PostTyped, UploadTyped DEF ConcatInv, Types, Uploads
<1>3. store = "s3" /\ p.pc \in {"done", "failed"} \cup Steps /\ p.pc \notin {"open", "append"}
  <2>1. store = "s3"
    BY <1>1, <1>2 DEF PostOK, Downloads
  <2>2. p.pc # "idle"
    BY <1>1, <1>2, NoPostTyped DEF PostOK, Checks
  <2>3. p.pc # "check" /\ p.pc \notin {"open", "append"}
    BY <1>1, <1>2, <2>1 DEF PostOK, Checks, Appends
  <2> QED
    BY <1>2, <2>1, <2>2, <2>3
<1>4. PICK ps \in {pieces[f], None} : pieces' = [pieces EXCEPT ![f] = ps]
  <2>1. pieces = [pieces EXCEPT ![f] = pieces[f]]
    BY <1>2 DEF Types
  <2> QED
    BY <2>1 DEF AbortMultipartUpload
<1>5. /\ q \in Posts /\ q.pc = p.pc /\ q.list = p.list /\ q.checked = p.checked /\ q.size = p.size
      /\ q.copied = p.copied /\ q.file = p.file /\ q.err = p.err /\ q.aborts = FALSE
  BY <1>2, NoAbortIs
<1> DEFINE i == info[f]
           o == object[f]
           m == meant[f]
           a == announced[f]
<1>6. Writes(f, q, a, i, ps, o, m)
  BY <1>1, <1>2, <1>4 DEF AbortMultipartUpload, NoAbort, Writes, Types
<1>7. /\ i \in Infos \cup {None} /\ o \in Seq(Byte) \cup {None} /\ m \in Seq(Byte) \cup {None} /\ a \in 0..2
      /\ ps \in Pieces \cup {None}
  BY <1>2, UploadTyped
<1> HIDE DEF q
<1>8. /\ Types' /\ f \in Uploads
      /\ \A u \in Uploads \ {f} : Same(u)
      /\ \A g \in Finals \ {f} : SamePost(g)
      /\ post'[f] = q /\ announced'[f] = a /\ info'[f] = i /\ pieces'[f] = ps
      /\ object'[f] = o /\ meant'[f] = m /\ todo'[f] = todo[f]
  <2> HIDE DEF i, o, m, a
  <2> QED
    BY <1>2, <1>5, <1>6, <1>7, PostWrites
<1>9. UploadOK(f)'
  BY <1>1, <1>2, <1>3, <1>8 DEF UploadOK
<1>10. \A u \in Uploads : Lasting(u)
  BY <1>1, <1>3 DEF Lasting, Ready
<1>11. Checks(f)' /\ Runs(f)'
  <2>1. CASE p.pc \in Steps
    <3>1. q \in Posts /\ q.pc \in Steps /\ q.copied \subseteq 1..Len(q.list) /\ meant' = meant
      BY <1>1, <1>2, <1>5, <2>1 DEF PostOK, Checks
    <3> QED
      BY <1>5, <1>8, <1>10, <2>1, <3>1, GoesOn
  <2>2. CASE p.pc \in {"done", "failed"}
    BY <1>2, <1>5, <1>8, <2>2 DEF PostOK, Checks, Runs, Steps
  <2> QED
    BY <1>3, <2>1, <2>2
<1>12. Appends(f)'
  BY <1>3, <1>5, <1>8 DEF Appends
<1>13. Downloads(f)'
  <2>1. ASSUME p.pc = "download" PROVE \E k \in Nat : Counted(f, k)' /\ q.file = MeantOf(meant', q.list, k)
    <3>1. PICK k \in Nat : Counted(f, k) /\ p.file = MeantOf(meant, p.list, k)
      BY <1>2, <2>1 DEF PostOK, Downloads
    <3>2. Counted(f, k)'
      BY <1>5, <1>8, <3>1 DEF Counted
    <3> QED
      BY <1>1, <1>5, <3>1, <3>2
  <2>2. q.pc \in {"download", "emit", "finish"} /\ ps # None => \A j \in 1..Len(ps) : ps[j] = None
    BY <1>2, <1>3, <1>5 DEF PostOK, Downloads
  <2> QED
    BY <1>1, <1>3, <1>5, <1>8, <2>1, <2>2 DEF Downloads
<1>14. Copies(f)'
  BY <1>1, <1>2, <1>3, <1>5, <1>8 DEF PostOK, Copies
<1>15. Announces(f)'
  <2>1. (Kept(f)' <=> Kept(f)) /\ Source(f)' = Source(f) /\ meant'[f] = meant[f]
    BY <1>1, <1>3 DEF Kept, Source
  <2> QED
    BY <1>2, <1>5, <1>8, <2>1 DEF PostOK, Announces
<1>16. PostOK(f)' /\ Lasting(f) /\ store' = store
  BY <1>1, <1>2, <1>10, <1>11, <1>12, <1>13, <1>14, <1>15 DEF PostOK
<1> QED
  BY <1>8, <1>9, <1>16, OneUpload

-----------------------------------------------------------------------------

LEMMA InvInit == Init => ConcatInv
<1> SUFFICES ASSUME Init PROVE ConcatInv
  OBVIOUS
<1>1. Types
  BY NoPostTyped DEF Init, Types
<1>2. ASSUME NEW u \in Uploads PROVE UploadOK(u)
  BY DEF Init, UploadOK
<1>3. ASSUME NEW f \in Finals PROVE PostOK(f)
  <2>1. f \in Uploads /\ post[f] = NoPost /\ meant[f] = None /\ announced[f] = 0
    BY DEF Init, Uploads
  <2>2. Len(NoPost.list) = 0
    BY NoPostTyped, EmptySeq
  <2>3. Checks(f)
    BY <2>1, <2>2, NoPostTyped DEF Checks
  <2>4. Runs(f) /\ Appends(f) /\ Downloads(f) /\ Copies(f) /\ Announces(f)
    BY <2>1, NoPostTyped DEF Runs, Appends, Downloads, Copies, Announces, Steps
  <2> QED
    BY <2>3, <2>4 DEF PostOK
<1> QED
  BY <1>1, <1>2, <1>3 DEF ConcatInv

LEMMA InvNext == ConcatInv /\ [Next]_vars => ConcatInv'
<1> SUFFICES ASSUME ConcatInv, [Next]_vars PROVE ConcatInv'
  OBVIOUS
<1>1. ASSUME NEW p \in Partials, PostPartial(p) PROVE ConcatInv'
  BY <1>1, PostPartialKeeps
<1>2. ASSUME NEW u \in Uploads,
             PatchFile(u) \/ WriteChunk(u) \/ FinishUpload(u) \/ DelFile(u) \/ Terminate(u) \/ RequestFails(u)
      PROVE  ConcatInv'
  BY <1>2, PatchFileKeeps, WriteChunkKeeps, FinishUploadKeeps, DelFileKeeps, TerminateKeeps
<1>3. ASSUME NEW f \in Finals, PostStep(f) PROVE ConcatInv'
  BY <1>3, ReadInfoKeeps, ListPartsKeeps, HeadIncompletePartKeeps, SizeOfUploadsKeeps,
     NewUploadKeeps, OpenFileKeeps, AppendToKeeps, FileClosedKeeps,
     DownloadNextKeeps, PutObjectKeeps, UploadPartCopyKeeps, FinishMultipartKeeps,
     EmitFinishEventsKeeps, FinishUploadIfCompleteKeeps DEF PostStep
<1>4. ASSUME NEW f \in Finals, PostFile(f) \/ AbortMultipartUpload(f) PROVE ConcatInv'
  BY <1>4, PostFileKeeps, AbortKeeps
<1>5. ASSUME NEW f \in Finals, PostFails(f) PROVE ConcatInv'
  <2>1. Fail(f) /\ UNCHANGED <<storeVars, todo, meant, deleted, announced>>
    BY <1>5 DEF PostFails
  <2> QED
    BY <2>1, FailKeeps
<1>6. CASE UNCHANGED vars
  <2>1. /\ store' = store /\ info' = info /\ pieces' = pieces /\ object' = object /\ todo' = todo
        /\ post' = post /\ meant' = meant /\ deleted' = deleted /\ announced' = announced
    BY <1>6 DEF vars, storeVars
  <2>2. Types' /\ \A u \in Uploads : UploadOK(u)' /\ Lasting(u)
    BY <2>1 DEF ConcatInv, Types, UploadOK, Lasting, Ready
  <2>3. ASSUME NEW f \in Finals PROVE PostOK(f)'
    <3>1. /\ Types /\ PostOK(f) /\ SamePost(f) /\ meant'[f] = meant[f] /\ pieces'[f] = pieces[f]
          /\ Kept(f)' => Kept(f) /\ pieces'[f] = pieces[f] /\ Source(f)' = Source(f)
      BY <2>1 DEF ConcatInv, SamePost, Kept, Source
    <3> QED
      BY <2>1, <2>2, <3>1, PostFrame
  <2> QED
    BY <2>2, <2>3 DEF ConcatInv
<1> QED
  BY <1>1, <1>2, <1>3, <1>4, <1>5, <1>6 DEF Next

(* The invariant says what the properties say. *)
LEMMA InvImplies == ConcatInv => TypeOK /\ ContentIsMeant /\ AnnouncedIsWhole /\ SizeIsSum
<1> SUFFICES ASSUME ConcatInv PROVE TypeOK /\ ContentIsMeant /\ AnnouncedIsWhole /\ SizeIsSum
  OBVIOUS
<1>1. Types /\ (\A u \in Uploads : UploadOK(u)) /\ \A f \in Finals : PostOK(f)
  BY DEF ConcatInv
<1>2. TypeOK
  <2>1. ASSUME NEW f \in Finals
        PROVE  /\ post[f].pc \in {"idle", "check", "open", "append", "download", "multipart",
                                  "emit", "finish", "emitAgain", "done", "failed"}
               /\ post[f].checked \in 0..Len(post[f].list)
               /\ post[f].copied \subseteq 1..Len(post[f].list)
               /\ announced[f] \in 0..2
    <3>1. /\ post[f].checked \in Nat /\ Len(post[f].list) \in Nat
          /\ post[f].pc \in {"idle", "check", "done", "failed"} \cup Steps
      BY <1>1, PostTyped
    <3>2. post[f].checked <= Len(post[f].list) /\ post[f].copied \subseteq 1..Len(post[f].list)
      BY <1>1 DEF PostOK, Checks
    <3>3. announced[f] \in 0..2
      BY <1>1 DEF Types
    <3> QED
      BY <3>1, <3>2, <3>3 DEF Steps
  <2> QED
    BY <1>1, <2>1 DEF TypeOK, Types
<1>3. ContentIsMeant
  <2>1. ASSUME NEW u \in Uploads, store = "file", pieces[u] # None PROVE IsPrefix(Data(pieces[u]), meant[u])
    <3>1. meant[u] # None /\ StartOf(Data(pieces[u]), meant[u])
      BY <1>1, <2>1 DEF UploadOK
    <3>2. Data(pieces[u]) \in Seq(Byte) /\ meant[u] \in Seq(Byte)
      BY <1>1, <2>1, <3>1, UploadTyped
    <3> QED
      BY <3>1, <3>2, StartWhole
  <2>2. ASSUME NEW u \in Uploads, object[u] # None PROVE object[u] = meant[u]
    BY <1>1, <2>2 DEF UploadOK
  <2> QED
    BY <2>1, <2>2 DEF ContentIsMeant
<1>4. AnnouncedIsWhole
  BY <1>1 DEF AnnouncedIsWhole, PostOK, Announces, Kept
<1>5. SizeIsSum
  <2> SUFFICES ASSUME NEW f \in Finals, info[f] # None PROVE info[f].size = Len(meant[f])
    BY DEF SizeIsSum
  <2>1. UploadOK(f) /\ f \notin Partials
    BY <1>1, NoFinalIsPartial DEF Uploads
  <2> QED
    BY <2>1 DEF UploadOK
<1> QED
  BY <1>2, <1>3, <1>4, <1>5

LEMMA AlwaysInv == Spec => []ConcatInv
BY InvInit, InvNext, PTL DEF Spec

(* The variables keep their types: no upload of the list is checked or     *)
(* copied twice (post.checked, post.copied), and the finish event of a     *)
(* final upload (emitFinishEvents) is sent at most twice.                  *)
THEOREM TypeCorrect == Spec => []TypeOK
<1>1. ConcatInv => TypeOK
  BY InvImplies
<1> QED
  BY <1>1, AlwaysInv, PTL

(* Whatever the requests for the listed uploads do while ConcatUploads     *)
(* runs without their locks, only content that is meant can be read under  *)
(* any ID, in the file store and in S3.                                    *)
THEOREM ContentIsMeantCorrect == Spec => []ContentIsMeant
<1>1. ConcatInv => ContentIsMeant
  BY InvImplies
<1> QED
  BY <1>1, AlwaysInv, PTL

(* emitFinishEvents announces a final upload only when all its data is     *)
(* there, and the data stays until a DELETE of that upload.                *)
THEOREM AnnouncedIsWholeCorrect == Spec => []AnnouncedIsWhole
<1>1. ConcatInv => AnnouncedIsWhole
  BY InvImplies
<1> QED
  BY <1>1, AlwaysInv, PTL

(* The size that sizeOfUploads adds up without a lock is the length of     *)
(* what the final upload is meant to contain.                              *)
THEOREM SizeIsSumCorrect == Spec => []SizeIsSum
<1>1. ConcatInv => SizeIsSum
  BY InvImplies
<1> QED
  BY <1>1, AlwaysInv, PTL
=============================================================================
