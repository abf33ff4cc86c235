------------------------------ MODULE DataFacts ------------------------------
(***************************************************************************)
(* Facts about the recursive definitions of the models.  Induction is      *)
(* stated for a set of numbers, or of finite sets, in place of a           *)
(* predicate, and rests on well-foundedness: the set of counterexamples    *)
(* has no least element.                                                   *)
(***************************************************************************)
EXTENDS OwnedRows, Integers, FiniteSets, SequencesExt, WellFoundedInduction, SequenceTheorems,
        FiniteSetTheorems, TLAPS

LEMMA LeastNat ==
    ASSUME NEW S, S \subseteq Nat, S # {}
    PROVE  \E n \in S : \A m \in S : n <= m
<1> DEFINE R == OpToRel(<, Nat)
<1>1. IsWellFoundedOn(R, Nat)
  BY NatLessThanWellFounded
<1>2. PICK n \in S : \A m \in S : ~(<<m, n>> \in R)
  <2> HIDE DEF R
  <2> QED BY <1>1, WFMin
<1>3. ASSUME NEW m \in S PROVE n <= m
  <2>1. n \in Nat /\ m \in Nat
    OBVIOUS
  <2>2. m < n => <<m, n>> \in R
    BY <2>1 DEF OpToRel
  <2>3. ~(<<m, n>> \in R)
    BY <1>2
  <2> HIDE DEF R
  <2> QED BY <2>1, <2>2, <2>3
<1> QED BY <1>3

\* Induction up to N: Good has 0 and, with every number, the next.
LEMMA UpTo ==
    ASSUME NEW N \in Nat, NEW Good, 0 \in Good, \A n \in 1..N : n - 1 \in Good => n \in Good
    PROVE  \A n \in 0..N : n \in Good
<1> SUFFICES ASSUME (0..N) \ Good # {} PROVE FALSE
  OBVIOUS
<1>1. PICK n \in (0..N) \ Good : \A m \in (0..N) \ Good : n <= m
  <2> DEFINE Bad == (0..N) \ Good
  <2>1. Bad \subseteq Nat /\ Bad # {}
    OBVIOUS
  <2> HIDE DEF Bad
  <2>2. PICK n \in Bad : \A m \in Bad : n <= m
    BY <2>1, LeastNat
  <2> QED BY <2>2 DEF Bad
<1>2. n \in 1..N /\ n - 1 \in 0..N /\ ~(n <= n - 1)
  BY <1>1
<1> QED BY <1>1, <1>2

(***************************************************************************)
(* OwnedBy.                                                                *)
(***************************************************************************)

\* own is what OwnedBy makes of the first n rows, for every n up to N.
IsScan(own, rows, o, N) ==
    own = [n \in 0..N |-> IF n = 0 THEN <<>>
                          ELSE IF rows[n].owner = o THEN Append(own[n - 1], rows[n])
                          ELSE own[n - 1]]

LEMMA ScanStep ==
    ASSUME NEW own, NEW rows, NEW o, NEW N \in Nat, IsScan(own, rows, o, N)
    PROVE  /\ own[0] = <<>>
           /\ \A n \in 1..N :
                 own[n] = IF rows[n].owner = o THEN Append(own[n - 1], rows[n]) ELSE own[n - 1]
<1>1. 0 \in 0..N /\ \A n \in 1..N : n \in 0..N /\ n # 0
  OBVIOUS
<1> DEFINE step(n) == IF n = 0 THEN <<>>
                      ELSE IF rows[n].owner = o THEN Append(own[n - 1], rows[n])
                      ELSE own[n - 1]
<1>2. own = [n \in 0..N |-> step(n)]
  BY DEF IsScan
<1>3. \A n \in 0..N : own[n] = step(n)
  <2> HIDE DEF step
  <2> QED BY <1>2
<1> QED BY <1>1, <1>3

LEMMA ScanExists ==
    ASSUME NEW rows, NEW o, NEW N \in Nat
    PROVE  \E own : IsScan(own, rows, o, N)
<1> DEFINE Good == {n \in 0..N : \E own : IsScan(own, rows, o, n)}
<1>1. IsScan([m \in 0..0 |-> <<>>], rows, o, 0)
  BY DEF IsScan
<1>2. ASSUME NEW n \in 1..N, n - 1 \in Good PROVE n \in Good
  <2>1. PICK own : IsScan(own, rows, o, n - 1)
    BY <1>2
  <2>2. n - 1 \in Nat /\ \A m \in 0..n : m = n \/ m \in 0..(n - 1)
    OBVIOUS
  <2> DEFINE longer == [m \in 0..n |->
                          IF m = n THEN IF rows[n].owner = o THEN Append(own[n - 1], rows[n])
                                        ELSE own[n - 1]
                          ELSE own[m]]
             step(m) == IF m = 0 THEN <<>>
                        ELSE IF rows[m].owner = o THEN Append(longer[m - 1], rows[m])
                        ELSE longer[m - 1]
  <2>3. \A m \in 0..(n - 1) : longer[m] = own[m]
    BY <2>2
  <2>4. longer[n] = IF rows[n].owner = o THEN Append(own[n - 1], rows[n]) ELSE own[n - 1]
    OBVIOUS
  <2>5. longer = [m \in 0..n |-> longer[m]]
    OBVIOUS
  <2> HIDE DEF longer
  <2>6. ASSUME NEW m \in 0..n PROVE longer[m] = step(m)
    <3>1. CASE m = n
      <4>1. n - 1 \in 0..(n - 1) /\ n # 0
        BY <2>2
      <4> QED BY <2>3, <2>4, <3>1, <4>1
    <3>2. CASE m = 0 /\ m # n
      <4>1. 0 \in 0..(n - 1)
        BY <2>2, <3>2
      <4> QED BY <2>1, <2>2, <2>3, <3>2, <4>1, ScanStep
    <3>3. CASE m # 0 /\ m # n
      <4>1. m \in 1..(n - 1) /\ m \in 0..(n - 1) /\ m - 1 \in 0..(n - 1)
        BY <2>2, <3>3
      <4>2. own[m] = IF rows[m].owner = o THEN Append(own[m - 1], rows[m]) ELSE own[m - 1]
        BY <2>1, <2>2, <4>1, ScanStep
      <4> QED BY <2>3, <3>3, <4>1, <4>2
    <3> QED BY <3>1, <3>2, <3>3
  <2>7. longer = [m \in 0..n |-> step(m)]
    <3> HIDE DEF step
    <3> QED BY <2>5, <2>6
  <2>8. IsScan(longer, rows, o, n)
    BY <2>7 DEF IsScan
  <2> QED BY <2>8
<1>3. 0 \in Good
  BY <1>1
<1> HIDE DEF Good
<1>4. \A n \in 0..N : n \in Good
  BY <1>2, <1>3, UpTo
<1> QED BY <1>4 DEF Good

LEMMA OwnedByScan ==
    ASSUME NEW S, NEW rows \in Seq(S), NEW o
    PROVE  \E own : IsScan(own, rows, o, Len(rows)) /\ OwnedBy(rows, o) = own[Len(rows)]
<1> DEFINE own == CHOOSE own : IsScan(own, rows, o, Len(rows))
<1>1. IsScan(own, rows, o, Len(rows))
  BY ScanExists, LenProperties
<1>2. OwnedBy(rows, o) = own[Len(rows)]
  BY DEF OwnedBy, IsScan
<1> QED BY <1>1, <1>2

\* Scans of tables with the same first N rows.
LEMMA ScansAgree ==
    ASSUME NEW a, NEW b, NEW r, NEW s, NEW o, NEW N \in Nat, NEW M \in Nat, N <= M,
           IsScan(a, r, o, N), IsScan(b, s, o, M), \A i \in 1..N : r[i] = s[i]
    PROVE  \A n \in 0..N : a[n] = b[n]
<1> DEFINE Good == {n \in 0..N : a[n] = b[n]}
<1>1. 0 \in Good
  BY ScanStep
<1>2. ASSUME NEW n \in 1..N, n - 1 \in Good PROVE n \in Good
  <2>1. n \in 1..M /\ a[n - 1] = b[n - 1] /\ r[n] = s[n]
    BY <1>2
  <2>2. a[n] = IF r[n].owner = o THEN Append(a[n - 1], r[n]) ELSE a[n - 1]
    BY ScanStep
  <2>3. b[n] = IF s[n].owner = o THEN Append(b[n - 1], s[n]) ELSE b[n - 1]
    BY <2>1, ScanStep
  <2> QED BY <2>1, <2>2, <2>3
<1> HIDE DEF Good
<1>3. \A n \in 0..N : n \in Good
  BY <1>1, <1>2, UpTo
<1> QED BY <1>3 DEF Good

LEMMA ScanType ==
    ASSUME NEW S, NEW rows \in Seq(S), NEW o, NEW own, IsScan(own, rows, o, Len(rows))
    PROVE  \A n \in 0..Len(rows) : own[n] \in Seq({x \in S : x.owner = o})
<1> DEFINE N == Len(rows)
           T == {x \in S : x.owner = o}
           Good == {n \in 0..N : own[n] \in Seq(T)}
<1>1. N \in Nat /\ IsScan(own, rows, o, N) /\ \A n \in 1..N : rows[n] \in S
  BY LenProperties, ElementOfSeq
<1> HIDE DEF N
<1>2. 0 \in Good
  <2>1. own[0] = <<>> /\ 0 \in 0..N
    BY <1>1, ScanStep
  <2>2. <<>> \in Seq(T)
    BY EmptySeq
  <2> HIDE DEF T
  <2> QED BY <2>1, <2>2
<1>3. ASSUME NEW n \in 1..N, n - 1 \in Good PROVE n \in Good
  <2>1. own[n - 1] \in Seq(T) /\ rows[n] \in S /\ n \in 0..N
    BY <1>1, <1>3
  <2>2. own[n] = IF rows[n].owner = o THEN Append(own[n - 1], rows[n]) ELSE own[n - 1]
    BY <1>1, ScanStep
  <2>3. CASE rows[n].owner = o
    <3>1. rows[n] \in T
      BY <2>1, <2>3
    <3> HIDE DEF T
    <3>2. Append(own[n - 1], rows[n]) \in Seq(T)
      BY <2>1, <3>1, AppendProperties
    <3> QED BY <2>1, <2>2, <2>3, <3>2
  <2> QED BY <2>1, <2>2, <2>3
<1> HIDE DEF Good
<1>4. \A n \in 0..N : n \in Good
  BY <1>1, <1>2, <1>3, UpTo
<1> QED BY <1>4 DEF Good, N

\* A WHERE clause leaves rows of the table, and only those it names.
LEMMA OwnedType ==
    ASSUME NEW S, NEW rows \in Seq(S), NEW o
    PROVE  OwnedBy(rows, o) \in Seq({x \in S : x.owner = o})
<1>1. PICK own : IsScan(own, rows, o, Len(rows)) /\ OwnedBy(rows, o) = own[Len(rows)]
  BY OwnedByScan
<1> QED BY <1>1, ScanType, LenProperties

LEMMA OwnedEmpty == \A o : OwnedBy(<<>>, o) = <<>>
<1> TAKE o
<1>1. <<>> \in Seq({}) /\ Len(<<>>) = 0
  BY EmptySeq
<1>2. PICK own : IsScan(own, <<>>, o, 0) /\ OwnedBy(<<>>, o) = own[0]
  BY <1>1, OwnedByScan
<1> QED BY <1>2, ScanStep

\* A row that is appended to the table is the last one of its owner's.
LEMMA OwnedAppend ==
    ASSUME NEW S, NEW rows \in Seq(S), NEW row \in S, NEW o
    PROVE  OwnedBy(Append(rows, row), o) = IF row.owner = o THEN Append(OwnedBy(rows, o), row)
                                           ELSE OwnedBy(rows, o)
<1> DEFINE N == Len(rows)
           more == Append(rows, row)
<1>1. /\ N \in Nat /\ more \in Seq(S) /\ Len(more) = N + 1 /\ more[N + 1] = row
      /\ \A i \in 1..N : rows[i] = more[i]
  BY LenProperties, AppendProperties
<1>2. PICK a : IsScan(a, rows, o, N) /\ OwnedBy(rows, o) = a[N]
  BY OwnedByScan
<1>3. PICK b : IsScan(b, more, o, N + 1) /\ OwnedBy(more, o) = b[N + 1]
  BY <1>1, OwnedByScan
<1> HIDE DEF N, more
<1>4. a[N] = b[N]
  BY <1>1, <1>2, <1>3, ScansAgree
<1>5. b[N + 1] = IF more[N + 1].owner = o THEN Append(b[(N + 1) - 1], more[N + 1])
                 ELSE b[(N + 1) - 1]
  BY <1>1, <1>3, ScanStep
<1>6. (N + 1) - 1 = N
  BY <1>1
<1> QED BY <1>1, <1>2, <1>3, <1>4, <1>5, <1>6 DEF more

LEMMA ConcatAppend ==
    ASSUME NEW S, NEW s \in Seq(S), NEW t \in Seq(S), NEW x \in S
    PROVE  s \o Append(t, x) = Append(s \o t, x)
<1>1. Append(t, x) = t \o <<x>> /\ <<x>> \in Seq(S) /\ s \o t \in Seq(S)
  BY AppendIsConcat, ConcatProperties
<1>2. Append(s \o t, x) = (s \o t) \o <<x>>
  BY <1>1, AppendIsConcat
<1> QED BY <1>1, <1>2, ConcatAssociative

\* The rows of two parts of the table.
LEMMA OwnedConcat ==
    ASSUME NEW S, NEW s \in Seq(S), NEW t \in Seq(S), NEW o
    PROVE  OwnedBy(s \o t, o) = OwnedBy(s, o) \o OwnedBy(t, o)
<1> DEFINE N == Len(s)
           M == Len(t)
           all == s \o t
           T == {x \in S : x.owner = o}
<1>1. /\ N \in Nat /\ M \in Nat /\ all \in Seq(S) /\ Len(all) = N + M
      /\ \A i \in 1..N : s[i] = all[i]
      /\ \A i \in 1..M : all[N + i] = t[i] /\ t[i] \in S
  BY LenProperties, ConcatProperties, ElementOfSeq
<1>2. PICK a : IsScan(a, s, o, N) /\ OwnedBy(s, o) = a[N]
  BY OwnedByScan
<1>3. PICK b : IsScan(b, t, o, M) /\ OwnedBy(t, o) = b[M]
  BY OwnedByScan
<1>4. PICK c : IsScan(c, all, o, N + M) /\ OwnedBy(all, o) = c[N + M]
  BY <1>1, OwnedByScan
<1>5. a[N] \in Seq(T)
  BY <1>1, <1>2, OwnedType
<1>6. \A n \in 0..M : b[n] \in Seq(T)
  BY <1>3, ScanType
<1> HIDE DEF N, M, all
<1>7. a[N] = c[N]
  BY <1>1, <1>2, <1>4, ScansAgree
<1> DEFINE Good == {n \in 0..M : c[N + n] = a[N] \o b[n]}
<1>8. 0 \in Good
  <2>1. b[0] = <<>> /\ a[N] \o <<>> = a[N] /\ N + 0 = N /\ 0 \in 0..M
    BY <1>1, <1>3, <1>5, ScanStep, ConcatEmptySeq
  <2> QED BY <1>7, <2>1
<1>9. ASSUME NEW n \in 1..M, n - 1 \in Good PROVE n \in Good
  <2>1. n \in 0..M /\ n - 1 \in 0..M /\ N + n \in 1..(N + M) /\ N + M \in Nat
        /\ (N + n) - 1 = N + (n - 1)
    BY <1>1
  <2>2. c[N + (n - 1)] = a[N] \o b[n - 1] /\ all[N + n] = t[n] /\ b[n - 1] \in Seq(T) /\ t[n] \in S
    BY <1>1, <1>6, <1>9, <2>1
  <2>3. b[n] = IF t[n].owner = o THEN Append(b[n - 1], t[n]) ELSE b[n - 1]
    BY <1>1, <1>3, ScanStep
  <2>4. c[N + n] = IF all[N + n].owner = o THEN Append(c[(N + n) - 1], all[N + n])
                   ELSE c[(N + n) - 1]
    BY <1>4, <2>1, ScanStep
  <2>5. CASE t[n].owner = o
    <3>1. t[n] \in T
      BY <2>2, <2>5
    <3> HIDE DEF T
    <3>2. b[n - 1] \in Seq(T)
      BY <2>2
    <3> DEFINE x == t[n]
               u == b[n - 1]
               v == a[N]
    <3>3. v \o Append(u, x) = Append(v \o u, x)
      <4>1. u \in Seq(T) /\ v \in Seq(T) /\ x \in T
        BY <1>5, <3>1, <3>2
      <4> HIDE DEF x, u, v
      <4> QED BY <4>1, ConcatAppend
    <3> QED BY <2>1, <2>2, <2>3, <2>4, <2>5, <3>3
  <2> QED BY <2>1, <2>2, <2>3, <2>4, <2>5
<1>10. \A n \in 0..M : n \in Good
  <2> HIDE DEF Good
  <2> QED BY <1>1, <1>8, <1>9, UpTo
<1>11. M \in 0..M
  BY <1>1
<1> QED BY <1>2, <1>3, <1>4, <1>10, <1>11 DEF all

\* A row in the middle of the table, and its neighbours.
LEMMA OwnedAround ==
    ASSUME NEW S, NEW s \in Seq(S), NEW t \in Seq(S), NEW row \in S, NEW o
    PROVE  OwnedBy(Append(s, row) \o t, o) =
               IF row.owner = o THEN Append(OwnedBy(s, o), row) \o OwnedBy(t, o)
               ELSE OwnedBy(s, o) \o OwnedBy(t, o)
<1> DEFINE u == Append(s, row)
<1>1. u \in Seq(S)
  BY AppendProperties
<1>2. OwnedBy(u, o) = IF row.owner = o THEN Append(OwnedBy(s, o), row) ELSE OwnedBy(s, o)
  BY OwnedAppend
<1> HIDE DEF u
<1>3. OwnedBy(u \o t, o) = OwnedBy(u, o) \o OwnedBy(t, o)
  BY <1>1, OwnedConcat
<1>4. OwnedBy(u \o t, o) = IF row.owner = o THEN Append(OwnedBy(s, o), row) \o OwnedBy(t, o)
                           ELSE OwnedBy(s, o) \o OwnedBy(t, o)
  BY <1>2, <1>3
<1> QED BY <1>4 DEF u

\* rows, parted after row k.
LEMMA Parted ==
    ASSUME NEW S, NEW rows \in Seq(S), NEW k \in 0..Len(rows)
    PROVE  /\ SubSeq(rows, 1, k) \in Seq(S) /\ SubSeq(rows, k + 1, Len(rows)) \in Seq(S)
           /\ rows = SubSeq(rows, 1, k) \o SubSeq(rows, k + 1, Len(rows))
<1>0. Len(rows) \in Nat /\ \A i \in 1..Len(rows) : rows[i] \in S
  BY LenProperties, ElementOfSeq
<1>1. SubSeq(rows, 1, k) \in Seq(S)
  BY <1>0, SubSeqProperties
<1>2. SubSeq(rows, k + 1, Len(rows)) \in Seq(S)
  BY <1>0, SubSeqProperties
<1>3. 1 \in 1..(Len(rows) + 1) /\ k \in (1 - 1)..Len(rows) /\ Len(rows) \in k..Len(rows)
  BY <1>0
<1>4. SubSeq(rows, 1, k) \o SubSeq(rows, k + 1, Len(rows)) = SubSeq(rows, 1, Len(rows))
  BY <1>3, ConcatAdjacentSubSeq
<1> QED BY <1>1, <1>2, <1>4, SubSeqFull

LEMMA PartedAround ==
    ASSUME NEW S, NEW rows \in Seq(S), NEW k \in 1..Len(rows)
    PROVE  /\ SubSeq(rows, 1, k - 1) \in Seq(S) /\ SubSeq(rows, k + 1, Len(rows)) \in Seq(S)
           /\ rows[k] \in S
           /\ rows = Append(SubSeq(rows, 1, k - 1), rows[k]) \o SubSeq(rows, k + 1, Len(rows))
<1>0. /\ Len(rows) \in Nat /\ rows[k] \in S /\ k \in 0..Len(rows) /\ k - 1 \in 0..Len(rows)
      /\ 1 \in 1..Len(rows) /\ k \in 1..Len(rows)
  BY LenProperties, ElementOfSeq
<1>1. SubSeq(rows, 1, k - 1) \in Seq(S)
  BY <1>0, Parted
<1>2. /\ SubSeq(rows, k + 1, Len(rows)) \in Seq(S)
      /\ rows = SubSeq(rows, 1, k) \o SubSeq(rows, k + 1, Len(rows))
  BY <1>0, Parted
<1>3. SubSeq(rows, 1, k) = SubSeq(rows, 1, k - 1) \o <<rows[k]>>
  BY <1>0, SubSeqRecursiveSecond
<1>4. SubSeq(rows, 1, k - 1) \o <<rows[k]>> = Append(SubSeq(rows, 1, k - 1), rows[k])
  BY <1>0, <1>1, AppendIsConcat
<1> QED BY <1>0, <1>1, <1>2, <1>3, <1>4

\* Every row of o is in what is left.
LEMMA OwnedKeeps ==
    ASSUME NEW S, NEW rows \in Seq(S), NEW o, NEW k \in 1..Len(rows), rows[k].owner = o
    PROVE  \E j \in 1..Len(OwnedBy(rows, o)) : OwnedBy(rows, o)[j] = rows[k]
<1> DEFINE front == SubSeq(rows, 1, k - 1)
           back == SubSeq(rows, k + 1, Len(rows))
           x == rows[k]
           T == {y \in S : y.owner = o}
<1>1. front \in Seq(S) /\ back \in Seq(S) /\ x \in S /\ x.owner = o /\ x \in T
      /\ rows = Append(front, x) \o back
  BY PartedAround
<1> HIDE DEF front, back, x
<1> DEFINE a == OwnedBy(front, o)
           b == OwnedBy(back, o)
<1>2. a \in Seq(T) /\ b \in Seq(T)
  BY <1>1, OwnedType
<1>3. OwnedBy(rows, o) = Append(a, x) \o b
  BY <1>1, OwnedAround
<1> HIDE DEF a, b, T
<1>4. /\ Len(Append(a, x) \o b) = Len(a) + 1 + Len(b) /\ (Append(a, x) \o b)[Len(a) + 1] = x
      /\ Len(a) \in Nat /\ Len(b) \in Nat
  BY <1>1, <1>2
<1>5. Len(a) + 1 \in 1..Len(Append(a, x) \o b)
  BY <1>4
<1> QED BY <1>3, <1>4, <1>5 DEF x


(***************************************************************************)
(* Finite sets.                                                            *)
(***************************************************************************)

Picked(s) == CHOOSE x \in s : TRUE

LEMMA PickedIn == \A s : s # {} => Picked(s) \in s
BY DEF Picked

\* A set of subsets of U that has T whenever it has T without the element that
\* is picked first has them all.
LEMMA Picking ==
    ASSUME NEW U, IsFiniteSet(U), NEW Good, {} \in Good,
           \A T \in SUBSET U : T # {} /\ T \ {Picked(T)} \in Good => T \in Good
    PROVE  \A T \in SUBSET U : T \in Good
<1> DEFINE N == Cardinality(U)
           Done == {n \in 0..N : \A T \in SUBSET U : Cardinality(T) = n => T \in Good}
<1>1. N \in Nat
  BY FS_CardinalityType
<1>2. \A T \in SUBSET U : IsFiniteSet(T) /\ Cardinality(T) \in 0..N
  BY <1>1, FS_Subset, FS_CardinalityType
<1> HIDE DEF N
<1>3. 0 \in Done
  BY <1>1, <1>2, FS_EmptySet
<1>4. ASSUME NEW n \in 1..N, n - 1 \in Done PROVE n \in Done
  <2>1. ASSUME NEW T \in SUBSET U, Cardinality(T) = n PROVE T \in Good
    <3>0. n # 0
      BY <1>1
    <3>1. T # {}
      BY <2>1, <3>0, FS_EmptySet
    <3>2. Cardinality(T \ {Picked(T)}) = n - 1 /\ T \ {Picked(T)} \in SUBSET U
      BY <1>2, <2>1, <3>1, PickedIn, FS_RemoveElement
    <3> QED BY <1>4, <3>1, <3>2
  <2> QED BY <1>1, <2>1
<1>5. \A n \in 0..N : n \in Done
  <2> HIDE DEF Done
  <2> QED BY <1>1, <1>3, <1>4, UpTo
<1> QED BY <1>2, <1>5

\* Induction over the subsets of a finite set, one element more at a time.
LEMMA Subsets ==
    ASSUME NEW U, IsFiniteSet(U), NEW Good, {} \in Good,
           \A T \in SUBSET U : \A x \in U \ T : T \in Good => T \cup {x} \in Good
    PROVE  \A T \in SUBSET U : T \in Good
<1>1. ASSUME NEW T \in SUBSET U, T # {}, T \ {Picked(T)} \in Good PROVE T \in Good
  <2>1. Picked(T) \in T /\ T = (T \ {Picked(T)}) \cup {Picked(T)}
    BY <1>1, PickedIn
  <2> QED BY <1>1, <2>1
<1> QED BY <1>1, Picking

(***************************************************************************)
(* Sums over finite sets.                                                  *)
(***************************************************************************)

\* sum is what SumFunctionOnSet makes of the sets of the family D.
IsSum(sum, f, D) ==
    sum = [s \in D |-> IF s = {} THEN 0 ELSE f[Picked(s)] + sum[s \ {Picked(s)}]]

LEMMA SumStep ==
    ASSUME NEW sum, NEW f, NEW D, IsSum(sum, f, D), NEW s \in D
    PROVE  sum[s] = IF s = {} THEN 0 ELSE f[Picked(s)] + sum[s \ {Picked(s)}]
<1> DEFINE step(x) == IF x = {} THEN 0 ELSE f[Picked(x)] + sum[x \ {Picked(x)}]
<1>1. sum = [x \in D |-> step(x)]
  BY DEF IsSum
<1>2. sum[s] = step(s)
  <2> HIDE DEF step
  <2> QED BY <1>1
<1> QED BY <1>2

Small(U, n) == {s \in SUBSET U : Cardinality(s) <= n}

LEMMA SmallFacts ==
    ASSUME NEW U, IsFiniteSet(U), NEW n \in Nat
    PROVE  /\ \A s \in Small(U, n) : IsFiniteSet(s) /\ Cardinality(s) \in Nat /\ Cardinality(s) <= n
           /\ \A s \in Small(U, n) : s # {} => n > 0 /\ s \ {Picked(s)} \in Small(U, n - 1)
                                               /\ s \ {Picked(s)} \in Small(U, n)
           /\ Cardinality(U) <= n => Small(U, n) = SUBSET U
<1>1. \A s \in SUBSET U : IsFiniteSet(s) /\ Cardinality(s) \in Nat /\ Cardinality(s) <= Cardinality(U)
                          /\ Cardinality(U) \in Nat
  BY FS_Subset, FS_CardinalityType
<1>2. ASSUME NEW s \in Small(U, n), s # {}
      PROVE  n > 0 /\ s \ {Picked(s)} \in Small(U, n - 1) /\ s \ {Picked(s)} \in Small(U, n)
  <2>1. s \in SUBSET U /\ Cardinality(s) <= n /\ Picked(s) \in s
    BY <1>2, PickedIn DEF Small
  <2>2. Cardinality(s \ {Picked(s)}) = Cardinality(s) - 1 /\ Cardinality(s \ {Picked(s)}) \in Nat
    BY <1>1, <2>1, FS_RemoveElement
  <2>3. s \ {Picked(s)} \in SUBSET U
    BY <2>1
  <2> QED BY <1>1, <2>1, <2>2, <2>3 DEF Small
<1> QED BY <1>1, <1>2 DEF Small

LEMMA SumExists ==
    ASSUME NEW U, IsFiniteSet(U), NEW f
    PROVE  \E sum : IsSum(sum, f, SUBSET U)
<1> DEFINE N == Cardinality(U)
           Good == {n \in 0..N : \E sum : IsSum(sum, f, Small(U, n))}
<1>1. N \in Nat /\ Small(U, N) = SUBSET U
  <2>1. N \in Nat
    BY FS_CardinalityType
  <2> QED BY <2>1, SmallFacts
<1> HIDE DEF N
<1>2. 0 \in Good
  <2>1. \A s \in Small(U, 0) : s = {}
    <3>1. 0 \in Nat /\ ~(0 > 0)
      OBVIOUS
    <3> QED BY <3>1, SmallFacts
  <2>2. IsSum([s \in Small(U, 0) |-> 0], f, Small(U, 0))
    BY <2>1 DEF IsSum
  <2> QED BY <1>1, <2>2
<1>3. ASSUME NEW n \in 1..N, n - 1 \in Good PROVE n \in Good
  <2>1. PICK sum : IsSum(sum, f, Small(U, n - 1))
    BY <1>3
  <2> DEFINE value(s) == IF s = {} THEN 0 ELSE f[Picked(s)] + sum[s \ {Picked(s)}]
             more == [s \in Small(U, n) |-> value(s)]
             step(s) == IF s = {} THEN 0 ELSE f[Picked(s)] + more[s \ {Picked(s)}]
  <2>2. \A s \in Small(U, n) : more[s] = value(s)
    OBVIOUS
  <2>3. more = [s \in Small(U, n) |-> more[s]]
    OBVIOUS
  <2> HIDE DEF more
  <2>4. \A s \in Small(U, n - 1) : sum[s] = value(s)
    BY <2>1, SumStep
  <2>5. ASSUME NEW s \in Small(U, n) PROVE more[s] = step(s)
    <3>1. s # {} => s \ {Picked(s)} \in Small(U, n - 1) /\ s \ {Picked(s)} \in Small(U, n)
      <4>1. n \in Nat
        BY <1>1
      <4> HIDE DEF value, step
      <4> QED BY <4>1, SmallFacts
    <3>2. s # {} => more[s \ {Picked(s)}] = sum[s \ {Picked(s)}]
      <4> HIDE DEF value
      <4> QED BY <2>2, <2>4, <3>1
    <3> QED BY <2>2, <3>2
  <2>6. more = [s \in Small(U, n) |-> step(s)]
    <3> HIDE DEF step
    <3> QED BY <2>3, <2>5
  <2>7. IsSum(more, f, Small(U, n))
    BY <2>6 DEF IsSum
  <2> QED BY <2>7
<1>4. \A n \in 0..N : n \in Good
  <2> HIDE DEF Good
  <2> QED BY <1>1, <1>2, <1>3, UpTo
<1>5. N \in Good
  BY <1>1, <1>4
<1> QED BY <1>1, <1>5

Sum(f, S) == SumFunctionOnSet(f, S)

LEMMA SumOfScan ==
    ASSUME NEW U, IsFiniteSet(U), NEW f
    PROVE  \E sum : IsSum(sum, f, SUBSET U) /\ Sum(f, U) = sum[U]
<1> DEFINE sum == CHOOSE sum : IsSum(sum, f, SUBSET U)
<1>1. IsSum(sum, f, SUBSET U)
  BY SumExists
<1>2. Sum(f, U) = sum[U]
  BY DEF Sum, SumFunctionOnSet, FoldFunctionOnSet, MapThenFoldSet, IsSum, Picked
<1> QED BY <1>1, <1>2

LEMMA SumEmpty == \A f : Sum(f, {}) = 0
<1> TAKE f
<1>1. PICK sum : IsSum(sum, f, SUBSET {}) /\ Sum(f, {}) = sum[{}]
  BY SumOfScan, FS_EmptySet
<1>2. {} \in SUBSET {}
  OBVIOUS
<1> QED BY <1>1, <1>2, SumStep

\* Sums of the same values over the same set agree, whatever set they are part of.
LEMMA SumsAgree ==
    ASSUME NEW U, NEW V, IsFiniteSet(U), IsFiniteSet(V), NEW T \in SUBSET U, T \in SUBSET V,
           NEW f, NEW g, \A x \in T : f[x] = g[x],
           NEW a, NEW b, IsSum(a, f, SUBSET U), IsSum(b, g, SUBSET V)
    PROVE  a[T] = b[T]
<1> DEFINE N == Cardinality(T)
           Good == {n \in 0..N : \A s \in SUBSET T : Cardinality(s) = n => a[s] = b[s]}
<1>1. \A s \in SUBSET T : /\ s \in SUBSET U /\ s \in SUBSET V
                          /\ IsFiniteSet(s) /\ Cardinality(s) \in 0..N
  BY FS_Subset, FS_CardinalityType
<1>2. N \in Nat /\ T \in SUBSET T
  BY <1>1, FS_CardinalityType
<1> HIDE DEF N
<1>3. 0 \in Good
  <2>1. {} \in SUBSET U /\ {} \in SUBSET V
    OBVIOUS
  <2>2. a[{}] = 0 /\ b[{}] = 0
    BY <2>1, SumStep
  <2>3. \A s \in SUBSET T : Cardinality(s) = 0 => s = {}
    BY <1>1, FS_EmptySet
  <2> HIDE DEF Good
  <2>4. \A s \in SUBSET T : Cardinality(s) = 0 => a[s] = b[s]
    BY <2>2, <2>3
  <2> QED BY <1>2, <2>4 DEF Good
<1>4. ASSUME NEW n \in 1..N, n - 1 \in Good PROVE n \in Good
  <2>1. ASSUME NEW s \in SUBSET T, Cardinality(s) = n PROVE a[s] = b[s]
    <3> DEFINE p == Picked(s)
    <3>0. n # 0
      BY <1>2
    <3>1. s # {}
      BY <2>1, <3>0, FS_EmptySet
    <3>2. p \in s /\ p \in T
      BY <3>1, PickedIn
    <3>3. Cardinality(s \ {p}) = n - 1 /\ s \ {p} \in SUBSET T
      BY <1>1, <2>1, <3>2, FS_RemoveElement
    <3>4. a[s \ {p}] = b[s \ {p}]
      BY <1>4, <3>3
    <3>5. a[s] = f[p] + a[s \ {p}]
      BY <1>1, <3>1, SumStep
    <3>6. b[s] = g[p] + b[s \ {p}]
      BY <1>1, <3>1, SumStep
    <3> HIDE DEF p
    <3> QED BY <3>2, <3>4, <3>5, <3>6
  <2> QED BY <1>2, <2>1
<1>5. \A n \in 0..N : n \in Good
  <2> HIDE DEF Good
  <2> QED BY <1>2, <1>3, <1>4, UpTo
<1> QED BY <1>1, <1>2, <1>5

LEMMA SumCong ==
    ASSUME NEW T, IsFiniteSet(T), NEW f, NEW g, \A x \in T : f[x] = g[x]
    PROVE  Sum(f, T) = Sum(g, T)
<1>1. PICK a : IsSum(a, f, SUBSET T) /\ Sum(f, T) = a[T]
  BY SumOfScan
<1>2. PICK b : IsSum(b, g, SUBSET T) /\ Sum(g, T) = b[T]
  BY SumOfScan
<1>3. T \in SUBSET T
  OBVIOUS
<1> QED BY <1>1, <1>2, <1>3, SumsAgree

LEMMA SumPicked ==
    ASSUME NEW T, IsFiniteSet(T), T # {}, NEW f
    PROVE  Sum(f, T) = f[Picked(T)] + Sum(f, T \ {Picked(T)})
<1> DEFINE S == T \ {Picked(T)}
<1>1. S \in SUBSET T /\ S \in SUBSET S /\ T \in SUBSET T /\ IsFiniteSet(S)
  BY FS_RemoveElement
<1>2. PICK a : IsSum(a, f, SUBSET T) /\ Sum(f, T) = a[T]
  BY SumOfScan
<1>3. PICK b : IsSum(b, f, SUBSET S) /\ Sum(f, S) = b[S]
  BY <1>1, SumOfScan
<1>4. a[S] = b[S]
  <2> HIDE DEF S
  <2> QED BY <1>1, <1>2, <1>3, SumsAgree
<1>5. a[T] = f[Picked(T)] + a[S]
  BY <1>1, <1>2, SumStep
<1> QED BY <1>2, <1>3, <1>4, <1>5

LEMMA SumType ==
    ASSUME NEW U, IsFiniteSet(U), NEW f, \A x \in U : f[x] \in Nat
    PROVE  \A T \in SUBSET U : Sum(f, T) \in Nat
<1> DEFINE Good == {T \in SUBSET U : Sum(f, T) \in Nat}
<1>1. {} \in Good
  BY SumEmpty
<1>2. ASSUME NEW T \in SUBSET U, T # {}, T \ {Picked(T)} \in Good PROVE T \in Good
  <2>1. Sum(f, T) = f[Picked(T)] + Sum(f, T \ {Picked(T)})
    BY <1>2, FS_Subset, SumPicked
  <2>2. f[Picked(T)] \in Nat
    BY <1>2, PickedIn
  <2> QED BY <1>2, <2>1, <2>2
<1>3. \A T \in SUBSET U : T \in Good
  <2> HIDE DEF Good
  <2> QED BY <1>1, <1>2, Picking
<1> QED BY <1>3

\* It does not matter which value is added last.
LEMMA SumRemove ==
    ASSUME NEW U, IsFiniteSet(U), NEW f, \A x \in U : f[x] \in Nat
    PROVE  \A T \in SUBSET U : \A x \in T : Sum(f, T) = f[x] + Sum(f, T \ {x})
<1> DEFINE N == Cardinality(U)
           Fine(T) == \A x \in T : Sum(f, T) = f[x] + Sum(f, T \ {x})
           Good == {n \in 0..N : \A T \in SUBSET U : Cardinality(T) = n => Fine(T)}
<1>1. N \in Nat
  BY FS_CardinalityType
<1>2. \A T \in SUBSET U : IsFiniteSet(T) /\ Cardinality(T) \in 0..N
  BY <1>1, FS_Subset, FS_CardinalityType
<1> HIDE DEF N
<1>0. \A T \in SUBSET U : Sum(f, T) \in Nat
  BY SumType
<1>3. 0 \in Good
  BY <1>1, <1>2, FS_EmptySet
<1>4. ASSUME NEW n \in 1..N, n - 1 \in Good PROVE n \in Good
  <2>1. ASSUME NEW T \in SUBSET U, Cardinality(T) = n, NEW x \in T
        PROVE  Sum(f, T) = f[x] + Sum(f, T \ {x})
    <3> DEFINE p == Picked(T)
    <3>1. p \in T /\ f[p] \in Nat /\ f[x] \in Nat
      BY PickedIn
    <3>2. Sum(f, T) = f[p] + Sum(f, T \ {p})
      BY <1>2, SumPicked
    <3> HIDE DEF p
    <3>3. /\ T \ {x} \in SUBSET U /\ Cardinality(T \ {x}) = n - 1
          /\ T \ {p} \in SUBSET U /\ Cardinality(T \ {p}) = n - 1
          /\ (T \ {p}) \ {x} \in SUBSET U
      BY <1>2, <2>1, <3>1, FS_RemoveElement
    <3>4. CASE x = p
      BY <3>2, <3>4
    <3>5. CASE x # p
      <4>1. Sum(f, T \ {p}) = f[x] + Sum(f, (T \ {p}) \ {x})
        BY <1>4, <3>3, <3>5
      <4>2. Sum(f, T \ {x}) = f[p] + Sum(f, (T \ {x}) \ {p})
        BY <1>4, <3>1, <3>3, <3>5
      <4>3. (T \ {p}) \ {x} = (T \ {x}) \ {p}
        OBVIOUS
      <4> DEFINE R == Sum(f, (T \ {x}) \ {p})
                 S == Sum(f, T \ {x})
      <4>4. R \in Nat /\ S \in Nat
        BY <1>0, <3>3, <4>3
      <4>5. Sum(f, T) = f[p] + (f[x] + R) /\ S = f[p] + R
        BY <3>2, <4>1, <4>2, <4>3
      <4> HIDE DEF R, S
      <4>6. Sum(f, T) = f[x] + S
        BY <3>1, <4>4, <4>5
      <4> QED BY <4>6 DEF S
    <3> QED BY <3>4, <3>5
  <2> QED BY <1>1, <2>1
<1>5. \A n \in 0..N : n \in Good
  <2> HIDE DEF Good
  <2> QED BY <1>1, <1>3, <1>4, UpTo
<1> QED BY <1>2, <1>5

LEMMA SumUnion ==
    ASSUME NEW U, IsFiniteSet(U), NEW f, \A x \in U : f[x] \in Nat,
           NEW A \in SUBSET U, NEW B \in SUBSET U, A \cap B = {}
    PROVE  Sum(f, A \cup B) = Sum(f, A) + Sum(f, B)
<1> DEFINE Good == {T \in SUBSET B : Sum(f, A \cup T) = Sum(f, A) + Sum(f, T)}
<1>1. IsFiniteSet(B) /\ \A T \in SUBSET U : Sum(f, T) \in Nat
  BY FS_Subset, SumType
<1>2. {} \in Good
  <2>1. A \cup {} = A /\ Sum(f, A) \in Nat
    BY <1>1
  <2> QED BY <2>1, SumEmpty
<1>3. ASSUME NEW T \in SUBSET B, NEW x \in B \ T, T \in Good PROVE T \cup {x} \in Good
  <2> DEFINE S == T \cup {x}
  <2>1. /\ S \in SUBSET U /\ S \in SUBSET B /\ A \cup S \in SUBSET U /\ A \cup T \in SUBSET U
        /\ T \in SUBSET U /\ f[x] \in Nat /\ x \in S /\ x \in A \cup S
        /\ (A \cup S) \ {x} = A \cup T /\ S \ {x} = T
    OBVIOUS
  <2> HIDE DEF S
  <2>2. Sum(f, S) = f[x] + Sum(f, T) /\ Sum(f, A \cup S) = f[x] + Sum(f, A \cup T)
    BY <2>1, SumRemove
  <2>3. Sum(f, A \cup T) = Sum(f, A) + Sum(f, T)
    BY <1>3
  <2>4. Sum(f, A) \in Nat /\ Sum(f, T) \in Nat /\ f[x] \in Nat
    BY <1>1, <2>1
  <2>5. Sum(f, A \cup S) = Sum(f, A) + Sum(f, S)
    BY <2>2, <2>3, <2>4
  <2> QED BY <2>1, <2>5 DEF S
<1>4. \A T \in SUBSET B : T \in Good
  <2> HIDE DEF Good
  <2> QED BY <1>1, <1>2, <1>3, Subsets
<1> QED BY <1>4

LEMMA SumGrows ==
    ASSUME NEW U, IsFiniteSet(U), NEW f, \A x \in U : f[x] \in Nat,
           NEW B \in SUBSET U, NEW A \in SUBSET B
    PROVE  Sum(f, A) <= Sum(f, B)
<1>1. A \cup (B \ A) = B /\ A \cap (B \ A) = {} /\ A \in SUBSET U /\ B \ A \in SUBSET U
  OBVIOUS
<1>2. Sum(f, B) = Sum(f, A) + Sum(f, B \ A)
  BY <1>1, SumUnion
<1>3. Sum(f, A) \in Nat /\ Sum(f, B \ A) \in Nat
  BY <1>1, SumType
<1> QED BY <1>2, <1>3

LEMMA SumOfZeros ==
    ASSUME NEW U, IsFiniteSet(U), NEW f, \A x \in U : f[x] = 0
    PROVE  Sum(f, U) = 0
<1> DEFINE Good == {T \in SUBSET U : Sum(f, T) = 0}
<1>1. {} \in Good
  BY SumEmpty
<1>2. ASSUME NEW T \in SUBSET U, T # {}, T \ {Picked(T)} \in Good PROVE T \in Good
  <2>1. Sum(f, T) = f[Picked(T)] + Sum(f, T \ {Picked(T)})
    BY <1>2, FS_Subset, SumPicked
  <2>2. f[Picked(T)] = 0
    BY <1>2, PickedIn
  <2> QED BY <1>2, <2>1, <2>2
<1>3. \A T \in SUBSET U : T \in Good
  <2> HIDE DEF Good
  <2> QED BY <1>1, <1>2, Picking
<1> QED BY <1>3

Class(T, h, c) == {i \in T : h[i] = c}

\* GROUP BY: the totals of the groups add up to the total.
LEMMA SumOfClasses ==
    ASSUME NEW U, IsFiniteSet(U), NEW f, \A x \in U : f[x] \in Nat, NEW h, NEW C, IsFiniteSet(C),
           \A x \in U : h[x] \in C
    PROVE  Sum([c \in C |-> Sum(f, Class(U, h, c))], C) = Sum(f, U)
<1> DEFINE totals(T) == [c \in C |-> Sum(f, Class(T, h, c))]
           Good == {T \in SUBSET U : Sum(totals(T), C) = Sum(f, T)}
<1>1. \A T \in SUBSET U : /\ Sum(f, T) \in Nat
                          /\ \A c \in C : totals(T)[c] = Sum(f, Class(T, h, c)) /\ totals(T)[c] \in Nat
  BY SumType DEF Class
<1>2. {} \in Good
  <2>1. \A c \in C : totals({})[c] = 0
    BY SumEmpty DEF Class
  <2> HIDE DEF totals
  <2>2. Sum(totals({}), C) = 0 /\ Sum(f, {}) = 0
    BY <2>1, SumOfZeros, SumEmpty
  <2> QED BY <2>2
<1> HIDE DEF totals
<1>3. ASSUME NEW T \in SUBSET U, NEW x \in U \ T, T \in Good PROVE T \cup {x} \in Good
  <2> DEFINE S == T \cup {x}
             k == h[x]
  <2>1. S \in SUBSET U /\ x \in S /\ S \ {x} = T /\ k \in C /\ f[x] \in Nat
    OBVIOUS
  <2>2. \A c \in C \ {k} : Class(S, h, c) = Class(T, h, c)
    BY DEF Class
  <2>3. x \in Class(S, h, k) /\ Class(S, h, k) \ {x} = Class(T, h, k) /\ Class(S, h, k) \in SUBSET U
    BY DEF Class
  <2> HIDE DEF S, k
  <2>4. totals(S)[k] = f[x] + totals(T)[k]
    <3>1. totals(S)[k] = Sum(f, Class(S, h, k)) /\ totals(T)[k] = Sum(f, Class(T, h, k))
      BY <1>1, <2>1
    <3>2. Sum(f, Class(S, h, k)) = f[x] + Sum(f, Class(S, h, k) \ {x})
      BY <2>3, SumRemove
    <3> QED BY <2>3, <3>1, <3>2
  <2>5. Sum(totals(S), C \ {k}) = Sum(totals(T), C \ {k})
    <3>1. IsFiniteSet(C \ {k}) /\ \A c \in C \ {k} : totals(S)[c] = totals(T)[c]
      BY <1>1, <2>1, <2>2, FS_RemoveElement
    <3> QED BY <3>1, SumCong
  <2>6. /\ Sum(totals(S), C) = totals(S)[k] + Sum(totals(S), C \ {k})
        /\ Sum(totals(T), C) = totals(T)[k] + Sum(totals(T), C \ {k})
        /\ Sum(totals(T), C \ {k}) \in Nat
    <3>1. C \in SUBSET C /\ C \ {k} \in SUBSET C
      OBVIOUS
    <3>2. \A c \in C : totals(S)[c] \in Nat /\ totals(T)[c] \in Nat
      BY <1>1, <2>1
    <3>3. Sum(totals(S), C) = totals(S)[k] + Sum(totals(S), C \ {k})
      BY <2>1, <3>1, <3>2, SumRemove
    <3>4. Sum(totals(T), C) = totals(T)[k] + Sum(totals(T), C \ {k})
      BY <2>1, <3>1, <3>2, SumRemove
    <3>5. Sum(totals(T), C \ {k}) \in Nat
      BY <3>1, <3>2, SumType
    <3> QED BY <3>3, <3>4, <3>5
  <2>7. Sum(f, S) = f[x] + Sum(f, T)
    BY <2>1, SumRemove
  <2>8. Sum(totals(T), C) = Sum(f, T) /\ totals(T)[k] \in Nat
    BY <1>1, <1>3, <2>1
  <2>9. Sum(totals(S), C) = Sum(f, S)
    BY <2>1, <2>4, <2>5, <2>6, <2>7, <2>8
  <2> QED BY <2>1, <2>9 DEF S
<1>4. \A T \in SUBSET U : T \in Good
  <2> HIDE DEF Good
  <2> QED BY <1>2, <1>3, Subsets
<1> QED BY <1>4 DEF totals
=============================================================================
