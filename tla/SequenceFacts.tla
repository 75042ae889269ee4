--------------------------- MODULE SequenceFacts ----------------------------
(***************************************************************************)
(* Induction and recursion over the natural numbers in a form that needs   *)
(* no operator as parameter: the predicate is a set and the step of the    *)
(* recursion a function.  Both follow from the well-foundedness of <.      *)
(* With them: what FlattenSeq computes.                                    *)
(***************************************************************************)
EXTENDS Integers, Sequences, SequencesExt, SequenceTheorems, WellFoundedInduction, TLAPS

(* A set of natural numbers that is not empty has a least element. *)
LEMMA LeastElement ==
  ASSUME NEW T, T \subseteq Nat, T # {}
  PROVE  \E m \in T : \A k \in T : m <= k
<1> DEFINE R == {ss \in Nat \X Nat : ss[1] < ss[2]}
<1>1. IsWellFoundedOn(R, Nat)
  BY NatLessThanWellFounded DEF OpToRel
<1> HIDE DEF R
<1>2. PICK m \in T : \A k \in T : ~ (<<k, m>> \in R)
  BY <1>1, WFMin
<1>3. \A k \in T : ~(k < m)
  BY <1>2 DEF R
<1> QED
  BY <1>3

(* Induction: a set that contains 0 and all successors contains Nat. *)
LEMMA SetInduction ==
  ASSUME NEW T, 0 \in T, \A n \in Nat : n \in T => n + 1 \in T
  PROVE  \A n \in Nat : n \in T
<1> DEFINE U == Nat \ T
<1>1. CASE U # {}
  <2>1. PICK m \in U : \A k \in U : m <= k
    BY <1>1, LeastElement
  <2>2. m # 0 /\ m - 1 \in Nat
    BY <2>1
  <2>3. m - 1 \in T
    BY <2>1, <2>2
  <2>4. (m - 1) + 1 = m
    BY <2>1
  <2> QED
    BY <2>1, <2>2, <2>3, <2>4
<1>2. CASE U = {}
  BY <1>2
<1> QED
  BY <1>1, <1>2

(* Recursion: there is a function that starts at x0 and makes the steps. *)
Recursion(S, x0, step) ==
  \E f \in [Nat -> S] : f[0] = x0 /\ \A n \in Nat : f[n + 1] = step[n + 1][f[n]]

LEMMA RecursionExists ==
  ASSUME NEW S, NEW x0 \in S, NEW step, step \in [Nat -> [S -> S]]
  PROVE  Recursion(S, x0, step)
<1> DEFINE Approx(n, g) == /\ g \in [0..n -> S] /\ g[0] = x0
                           /\ \A k \in 0..(n - 1) : g[k + 1] = step[k + 1][g[k]]
           T == {n \in Nat : \E g : Approx(n, g)}
<1>1. 0 \in T
  <2>1. Approx(0, [k \in 0..0 |-> x0])
    OBVIOUS
  <2> QED
    BY <2>1
<1>2. ASSUME NEW n \in Nat, n \in T PROVE n + 1 \in T
  <2>1. PICK g : Approx(n, g)
    BY <1>2
  <2> DEFINE h == [k \in 0..(n + 1) |-> IF k = n + 1 THEN step[n + 1][g[n]] ELSE g[k]]
  <2>2. h \in [0..(n + 1) -> S]
    <3>1. g[n] \in S /\ n + 1 \in Nat
      BY <2>1
    <3>2. step[n + 1] \in [S -> S]
      BY <3>1
    <3>3. step[n + 1][g[n]] \in S
      BY <3>1, <3>2
    <3>4. \A k \in 0..(n + 1) : k # n + 1 => g[k] \in S
      BY <2>1
    <3> QED
      BY <3>3, <3>4
  <2>3. h[0] = x0
    BY <2>1
  <2>4. ASSUME NEW k \in 0..n PROVE h[k + 1] = step[k + 1][h[k]]
    <3>1. CASE k = n
      BY <3>1
    <3>2. CASE k # n
      <4>1. k \in 0..(n - 1) /\ k + 1 # n + 1 /\ k # n + 1
        BY <3>2
      <4>2. h[k + 1] = g[k + 1] /\ h[k] = g[k]
        BY <4>1
      <4> QED
        BY <2>1, <4>1, <4>2
    <3> QED
      BY <3>1, <3>2
  <2>5. (n + 1) - 1 = n
    OBVIOUS
  <2>6. Approx(n + 1, h)
    BY <2>2, <2>3, <2>4, <2>5
  <2> HIDE DEF h, Approx
  <2> QED
    BY <2>6
<1>3. \A n \in Nat : n \in T
  BY <1>1, <1>2, SetInduction
<1>4. ASSUME NEW n \in Nat, NEW m \in Nat, n <= m, NEW g, NEW h, Approx(n, g), Approx(m, h)
      PROVE  \A k \in 0..n : g[k] = h[k]
  <2> DEFINE V == {k \in Nat : k \in 0..n => g[k] = h[k]}
  <2>1. 0 \in V
    BY <1>4
  <2>2. ASSUME NEW k \in Nat, k \in V PROVE k + 1 \in V
    <3>1. CASE k + 1 \in 0..n
      <4>1. k \in 0..(n - 1) /\ k \in 0..(m - 1) /\ k \in 0..n
        BY <1>4, <3>1
      <4> QED
        BY <1>4, <2>2, <4>1
    <3>2. CASE k + 1 \notin 0..n
      BY <3>2
    <3> QED
      BY <3>1, <3>2
  <2>3. \A k \in Nat : k \in V
    BY <2>1, <2>2, SetInduction
  <2> QED
    BY <2>3
<1> DEFINE G == [n \in Nat |-> CHOOSE g : Approx(n, g)]
           f == [n \in Nat |-> G[n][n]]
<1>5. \A n \in Nat : Approx(n, G[n])
  BY <1>3
<1> HIDE DEF G
<1>6. f \in [Nat -> S] /\ f[0] = x0
  BY <1>5
<1>7. ASSUME NEW n \in Nat PROVE f[n + 1] = step[n + 1][f[n]]
  <2>1. Approx(n, G[n]) /\ Approx(n + 1, G[n + 1]) /\ n <= n + 1 /\ n + 1 \in Nat
    BY <1>5
  <2> HIDE DEF Approx
  <2>2. \A k \in 0..n : G[n][k] = G[n + 1][k]
    BY <1>4, <2>1
  <2>3. n \in 0..n
    OBVIOUS
  <2>4. G[n][n] = G[n + 1][n]
    BY <2>2, <2>3
  <2>5. G[n + 1][n + 1] = step[n + 1][G[n + 1][n]]
    BY <2>1 DEF Approx
  <2> QED
    BY <2>4, <2>5
<1> QED
  BY <1>6, <1>7 DEF Recursion

-----------------------------------------------------------------------------

(* FlattenSeq is the last of the running concatenations. *)
LEMMA FlattenRuns ==
  ASSUME NEW A, NEW s \in Seq(Seq(A)),
         NEW F, F \in [0..Len(s) -> Seq(A)],
         F[0] = <<>>, \A i \in 1..Len(s) : F[i] = F[i - 1] \o s[i]
  PROVE  FlattenSeq(s) = F[Len(s)]
<1>0. Len(s) \in Nat
  OBVIOUS
<1>1. CASE Len(s) = 0
  <2>1. s = <<>> /\ F[Len(s)] = <<>>
    BY <1>1
  <2> QED
    BY <1>1, <2>1 DEF FlattenSeq
<1>2. CASE Len(s) # 0
  <2> DEFINE L == Len(s)
             Is(g) == g = [i \in 1..L |-> IF i = 1 THEN s[i] ELSE g[i - 1] \o s[i]]
             h == [i \in 1..L |-> F[i]]
  <2>1. Is(h)
    <3>1. ASSUME NEW i \in 1..L PROVE h[i] = IF i = 1 THEN s[i] ELSE h[i - 1] \o s[i]
      <4>1. s[i] \in Seq(A) /\ F[i] = F[i - 1] \o s[i]
        <5>1. s[i] \in Seq(A)
          BY <1>0, ElementOfSeq
        <5> QED
          BY <5>1
      <4>2. CASE i = 1
        <5>1. F[i] = <<>> \o s[i] /\ h[i] = F[i]
          <6>1. i - 1 = 0
            BY <4>2
          <6> QED
            BY <4>1, <6>1
        <5>2. <<>> \o s[i] = s[i]
          BY <4>1, ConcatEmptySeq
        <5> QED
          BY <4>2, <5>1, <5>2
      <4>3. CASE i # 1
        <5>1. i - 1 \in 1..L
          BY <1>0, <4>3
        <5> QED
          BY <4>1, <4>3, <5>1
      <4> QED
        BY <4>2, <4>3
    <3> HIDE DEF L
    <3> QED
      BY <3>1
  <2>2. ASSUME NEW g, Is(g) PROVE g[L] = h[L]
    <3> DEFINE V == {k \in Nat : k \in 1..L => g[k] = h[k]}
    <3>0. \A i \in 1..L : /\ g[i] = IF i = 1 THEN s[i] ELSE g[i - 1] \o s[i]
                          /\ h[i] = IF i = 1 THEN s[i] ELSE h[i - 1] \o s[i]
      <4> HIDE DEF L, h
      <4> QED
        BY <2>1, <2>2
    <3> HIDE DEF Is, h
    <3>1. 0 \in V
      OBVIOUS
    <3>2. ASSUME NEW k \in Nat, k \in V PROVE k + 1 \in V
      <4>1. CASE k + 1 \in 1..L /\ k # 0
        <5>1. k \in 1..L /\ k + 1 # 1 /\ (k + 1) - 1 = k
          BY <1>0, <4>1
        <5> QED
          BY <3>0, <3>2, <4>1, <5>1
      <4>2. CASE k = 0
        BY <3>0, <4>2
      <4>3. CASE k + 1 \notin 1..L
        BY <4>3
      <4> QED
        BY <4>1, <4>2, <4>3
    <3>3. \A k \in Nat : k \in V
      BY <3>1, <3>2, SetInduction
    <3>4. L \in 1..L
      BY <1>0, <1>2
    <3> QED
      BY <1>0, <3>3, <3>4
  <2>3. Is(CHOOSE g : Is(g))
    BY <2>1
  <2>4. FlattenSeq(s) = (CHOOSE g : Is(g))[L]
    BY <1>2 DEF FlattenSeq
  <2>5. h[L] = F[L]
    BY <1>0, <1>2
  <2> HIDE DEF Is, h, L
  <2>6. FlattenSeq(s) = h[L]
    BY <2>2, <2>3, <2>4
  <2> QED
    BY <2>5, <2>6 DEF L
<1> QED
  BY <1>1, <1>2

(* FlattenSeq of n more pieces: the pieces one after the other. *)
LEMMA FlattenAppend ==
  ASSUME NEW A
  PROVE  /\ FlattenSeq(<<>>) = <<>>
         /\ \A s \in Seq(Seq(A)) : FlattenSeq(s) \in Seq(A)
         /\ \A s \in Seq(Seq(A)), x \in Seq(A) : FlattenSeq(Append(s, x)) = FlattenSeq(s) \o x
<1>1. ASSUME NEW s \in Seq(Seq(A))
      PROVE  \E F \in [0..Len(s) -> Seq(A)] :
                F[0] = <<>> /\ \A i \in 1..Len(s) : F[i] = F[i - 1] \o s[i]
  <2> DEFINE step == [n \in Nat |-> [x \in Seq(A) |-> IF n \in 1..Len(s) THEN x \o s[n] ELSE x]]
  <2>1. step \in [Nat -> [Seq(A) -> Seq(A)]]
    <3>1. \A n \in 1..Len(s), x \in Seq(A) : x \o s[n] \in Seq(A)
      BY ElementOfSeq, ConcatProperties
    <3> QED
      BY <3>1
  <2> HIDE DEF step
  <2>2. PICK f \in [Nat -> Seq(A)] : f[0] = <<>> /\ \A n \in Nat : f[n + 1] = step[n + 1][f[n]]
    <3>1. <<>> \in Seq(A)
      BY EmptySeq
    <3>2. Recursion(Seq(A), <<>>, step)
      BY <2>1, <3>1, RecursionExists
    <3> QED
      BY <3>2 DEF Recursion
  <2> DEFINE F == [i \in 0..Len(s) |-> f[i]]
  <2>3. F \in [0..Len(s) -> Seq(A)] /\ F[0] = <<>>
    <3>1. Len(s) \in Nat /\ 0 \in 0..Len(s) /\ \A i \in 0..Len(s) : i \in Nat
      OBVIOUS
    <3> QED
      BY <2>2, <3>1
  <2>4. ASSUME NEW i \in 1..Len(s) PROVE F[i] = F[i - 1] \o s[i]
    <3>1. i - 1 \in Nat /\ i \in Nat /\ (i - 1) + 1 = i /\ i - 1 \in 0..Len(s) /\ i \in 0..Len(s)
      OBVIOUS
    <3>2. f[i] = step[i][f[i - 1]] /\ f[i - 1] \in Seq(A)
      BY <2>2, <3>1
    <3>3. step[i][f[i - 1]] = f[i - 1] \o s[i]
      BY <3>1, <3>2 DEF step
    <3> QED
      BY <3>1, <3>2, <3>3
  <2> HIDE DEF F
  <2> QED
    BY <2>3, <2>4
<1>2. ASSUME NEW s \in Seq(Seq(A)) PROVE FlattenSeq(s) \in Seq(A)
  <2>1. PICK F \in [0..Len(s) -> Seq(A)] :
                F[0] = <<>> /\ \A i \in 1..Len(s) : F[i] = F[i - 1] \o s[i]
    BY <1>1
  <2>2. FlattenSeq(s) = F[Len(s)]
    BY <2>1, FlattenRuns
  <2> QED
    BY <2>1, <2>2
<1>3. ASSUME NEW s \in Seq(Seq(A)), NEW x \in Seq(A)
      PROVE  FlattenSeq(Append(s, x)) = FlattenSeq(s) \o x
  <2> DEFINE t == Append(s, x)
             n == Len(s)
  <2>1. /\ t \in Seq(Seq(A)) /\ Len(t) = n + 1 /\ n \in Nat
        /\ t[n + 1] = x /\ \A i \in 1..n : t[i] = s[i]
    BY AppendProperties
  <2> HIDE DEF t
  <2>2. PICK F \in [0..Len(t) -> Seq(A)] :
                F[0] = <<>> /\ \A i \in 1..Len(t) : F[i] = F[i - 1] \o t[i]
    BY <1>1, <2>1
  <2> DEFINE G == [i \in 0..n |-> F[i]]
  <2>3. G \in [0..n -> Seq(A)] /\ G[0] = <<>>
    BY <2>1, <2>2
  <2>4. ASSUME NEW i \in 1..n PROVE G[i] = G[i - 1] \o s[i]
    <3>1. i \in 0..n /\ i - 1 \in 0..n /\ i \in 1..Len(t) /\ t[i] = s[i]
      BY <2>1
    <3>2. F[i] = F[i - 1] \o s[i]
      BY <2>2, <3>1
    <3> QED
      BY <3>1, <3>2
  <2>5. G[n] = F[n]
    BY <2>1
  <2> HIDE DEF G
  <2>6. FlattenSeq(s) = G[n]
    BY <2>3, <2>4, FlattenRuns
  <2>7. FlattenSeq(t) = F[n + 1]
    BY <2>1, <2>2, FlattenRuns
  <2>8. F[n + 1] = F[n] \o x
    <3>1. n + 1 \in 1..Len(t) /\ (n + 1) - 1 = n
      BY <2>1
    <3> QED
      BY <2>1, <2>2, <3>1
  <2> QED
    BY <2>5, <2>6, <2>7, <2>8 DEF t
<1>4. FlattenSeq(<<>>) = <<>>
  BY DEF FlattenSeq
<1> QED
  BY <1>2, <1>3, <1>4

(* Concatenation is associative. *)
LEMMA Associative ==
  ASSUME NEW A
  PROVE  \A a, b, c \in Seq(A) : (a \o b) \o c = a \o (b \o c)
BY ConcatAssociative

(* FlattenSeq of two sequences of pieces, one after the other. *)
LEMMA FlattenConcat ==
  ASSUME NEW A, NEW s \in Seq(Seq(A)), NEW t \in Seq(Seq(A))
  PROVE  FlattenSeq(s \o t) = FlattenSeq(s) \o FlattenSeq(t)
<1> DEFINE P(u) == FlattenSeq(s \o u) = FlattenSeq(s) \o FlattenSeq(u)
           T == {n \in Nat : \A u \in Seq(Seq(A)) : Len(u) = n => P(u)}
<1>0. FlattenSeq(s) \in Seq(A)
  BY FlattenAppend
<1>1. 0 \in T
  <2> SUFFICES ASSUME NEW u \in Seq(Seq(A)), Len(u) = 0 PROVE P(u)
    OBVIOUS
  <2>1. u = <<>>
    BY EmptySeq
  <2>2. s \o <<>> = s /\ FlattenSeq(<<>>) = <<>>
    BY FlattenAppend, ConcatEmptySeq
  <2>3. FlattenSeq(s) \o <<>> = FlattenSeq(s)
    BY <1>0, ConcatEmptySeq
  <2> QED
    BY <2>1, <2>2, <2>3
<1>2. ASSUME NEW n \in Nat, n \in T PROVE n + 1 \in T
  <2> SUFFICES ASSUME NEW u \in Seq(Seq(A)), Len(u) = n + 1 PROVE P(u)
    OBVIOUS
  <2>1. PICK v \in Seq(Seq(A)), x \in Seq(A) : u = Append(v, x)
    <3>1. u # <<>>
      BY EmptySeq
    <3> QED
      BY <3>1, SequenceEmptyOrAppend
  <2>2. Len(v) = n
    BY <2>1, AppendProperties
  <2>3. P(v)
    BY <1>2, <2>2
  <2>4. s \o u = Append(s \o v, x) /\ s \o v \in Seq(Seq(A))
    <3>1. u = v \o <<x>> /\ s \o v \in Seq(Seq(A)) /\ <<x>> \in Seq(Seq(A))
      BY <2>1, AppendIsConcat, ConcatProperties
    <3>2. s \o (v \o <<x>>) = (s \o v) \o <<x>>
      BY <3>1, ConcatAssociative
    <3>3. Append(s \o v, x) = (s \o v) \o <<x>>
      BY <3>1, AppendIsConcat
    <3> QED
      BY <3>1, <3>2, <3>3
  <2>5. FlattenSeq(s \o u) = FlattenSeq(s \o v) \o x /\ FlattenSeq(u) = FlattenSeq(v) \o x
    BY <2>1, <2>4, FlattenAppend
  <2>6. FlattenSeq(v) \in Seq(A)
    BY FlattenAppend
  <2>7. (FlattenSeq(s) \o FlattenSeq(v)) \o x = FlattenSeq(s) \o (FlattenSeq(v) \o x)
    <3> DEFINE a == FlattenSeq(s)
               b == FlattenSeq(v)
    <3>1. a \in Seq(A) /\ b \in Seq(A) /\ x \in Seq(A)
      BY <1>0, <2>6
    <3> HIDE DEF a, b, T
    <3>2. (a \o b) \o x = a \o (b \o x)
      BY <3>1, Associative, SMTT(60)
    <3> QED
      BY <3>2 DEF a, b
  <2> QED
    BY <2>3, <2>5, <2>7
<1>3. \A n \in Nat : n \in T
  <2> HIDE DEF T
  <2> QED
    BY <1>1, <1>2, SetInduction
<1> QED
  BY <1>3

(* FlattenSeq of one piece. *)
LEMMA FlattenOne ==
  ASSUME NEW A, NEW x \in Seq(A)
  PROVE  FlattenSeq(<<x>>) = x
<1>1. <<>> \in Seq(Seq(A)) /\ Append(<<>>, x) = <<x>>
  OBVIOUS
<1>2. FlattenSeq(Append(<<>>, x)) = <<>> \o x
  BY <1>1, FlattenAppend
<1> QED
  BY <1>1, <1>2, ConcatEmptySeq

(* Every beginning of the pieces is a beginning of the whole. *)
LEMMA FlattenStart ==
  ASSUME NEW A, NEW s \in Seq(Seq(A)), NEW k \in 0..Len(s)
  PROVE  /\ SubSeq(s, 1, k) \in Seq(Seq(A)) /\ SubSeq(s, k + 1, Len(s)) \in Seq(Seq(A))
         /\ FlattenSeq(s) = FlattenSeq(SubSeq(s, 1, k)) \o FlattenSeq(SubSeq(s, k + 1, Len(s)))
<1>1. SubSeq(s, 1, k) \in Seq(Seq(A)) /\ SubSeq(s, k + 1, Len(s)) \in Seq(Seq(A))
  BY SubSeqProperties, ElementOfSeq
<1>2. SubSeq(s, 1, k) \o SubSeq(s, k + 1, Len(s)) = SubSeq(s, 1, Len(s))
  <2>1. 1 \in 1..(Len(s) + 1) /\ k \in (1 - 1)..Len(s) /\ Len(s) \in k..Len(s)
    OBVIOUS
  <2> QED
    BY <2>1, ConcatAdjacentSubSeq
<1>3. SubSeq(s, 1, Len(s)) = s
  BY SubSeqFull
<1> QED
  BY <1>1, <1>2, <1>3, FlattenConcat

(* No piece is longer than the whole. *)
LEMMA FlattenPiece ==
  ASSUME NEW A, NEW s \in Seq(Seq(A)), NEW k \in 1..Len(s)
  PROVE  Len(s[k]) <= Len(FlattenSeq(s))
<1> DEFINE a == SubSeq(s, 1, k - 1)
           b == SubSeq(s, 1, k)
           c == SubSeq(s, k + 1, Len(s))
<1>1. b \in Seq(Seq(A)) /\ c \in Seq(Seq(A)) /\ FlattenSeq(s) = FlattenSeq(b) \o FlattenSeq(c)
  <2>1. k \in 0..Len(s)
    OBVIOUS
  <2> QED
    BY <2>1, FlattenStart
<1>2. a \in Seq(Seq(A)) /\ s[k] \in Seq(A)
  BY SubSeqProperties, ElementOfSeq
<1>3. b = Append(a, s[k])
  <2>1. b = a \o <<s[k]>>
    <3>1. 1 \in 1..Len(s) /\ k \in 1..Len(s)
      OBVIOUS
    <3> QED
      BY <3>1, SubSeqRecursiveSecond
  <2> HIDE DEF a, b
  <2> QED
    BY <1>2, <2>1, AppendIsConcat
<1> HIDE DEF a, b, c
<1>4. FlattenSeq(b) = FlattenSeq(a) \o s[k]
  BY <1>2, <1>3, FlattenAppend
<1>5. FlattenSeq(a) \in Seq(A) /\ FlattenSeq(b) \in Seq(A) /\ FlattenSeq(c) \in Seq(A)
  BY <1>1, <1>2, FlattenAppend
<1>6. Len(FlattenSeq(b)) = Len(FlattenSeq(a)) + Len(s[k])
  BY <1>2, <1>4, <1>5, ConcatProperties
<1>7. Len(FlattenSeq(s)) = Len(FlattenSeq(b)) + Len(FlattenSeq(c))
  BY <1>1, <1>5, ConcatProperties
<1>8. Len(FlattenSeq(a)) \in Nat /\ Len(FlattenSeq(c)) \in Nat /\ Len(s[k]) \in Nat
  BY <1>2, <1>5, LenProperties
<1> QED
  BY <1>6, <1>7, <1>8
=============================================================================
