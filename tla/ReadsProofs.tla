----------------------------- MODULE ReadsProofs -----------------------------
(***************************************************************************)
(* PagedList and Summaries for any number of rows and tenants, any sizes   *)
(* of pages, and any amounts, dates and lengths of a month.                *)
(***************************************************************************)
EXTENDS PagedList, Summaries, DataFacts

(***************************************************************************)
(* Sequences and their pages.                                              *)
(***************************************************************************)

\* The elements that are not among the first n.
Beyond(s, n) == {s[j] : j \in (n + 1)..Len(s)}

LEMMA ToSetOf ==
    ASSUME NEW T, NEW s \in Seq(T)
    PROVE  ToSet(s) = {s[j] : j \in 1..Len(s)} /\ ToSet(s) \subseteq T /\ ToSet(s) = Beyond(s, 0)
BY LenProperties, ElementOfSeq DEF ToSet, Beyond

LEMMA ToSetConcat ==
    ASSUME NEW T, NEW s \in Seq(T), NEW t \in Seq(T)
    PROVE  /\ s \o t \in Seq(T)
           /\ ToSet(s \o t) = ToSet(s) \cup ToSet(t)
           /\ IsInjective(s) /\ IsInjective(t) /\ ToSet(s) \cap ToSet(t) = {} => IsInjective(s \o t)
<1> DEFINE st == s \o t
<1>1. /\ st \in Seq(T) /\ Len(s) \in Nat /\ Len(t) \in Nat /\ Len(st) = Len(s) + Len(t)
      /\ DOMAIN st = 1..(Len(s) + Len(t)) /\ DOMAIN s = 1..Len(s) /\ DOMAIN t = 1..Len(t)
      /\ \A i \in 1..Len(s) : st[i] = s[i]
      /\ \A i \in 1..Len(t) : st[Len(s) + i] = t[i]
  BY LenProperties, ConcatProperties
<1> HIDE DEF st
<1>2. \A i \in 1..(Len(s) + Len(t)) : i \in 1..Len(s) \/ \E j \in 1..Len(t) : i = Len(s) + j
  <2> TAKE i \in 1..(Len(s) + Len(t))
  <2>1. CASE i > Len(s)
    <3>1. i - Len(s) \in 1..Len(t) /\ i = Len(s) + (i - Len(s))
      BY <1>1, <2>1
    <3> QED BY <3>1
  <2> QED BY <1>1, <2>1
<1>3. \A i \in 1..Len(s) : i \in 1..(Len(s) + Len(t))
  BY <1>1
<1>4. \A i \in 1..Len(t) : Len(s) + i \in 1..(Len(s) + Len(t))
  BY <1>1
<1>5. ToSet(st) = ToSet(s) \cup ToSet(t)
  <2>1. ASSUME NEW i \in DOMAIN st PROVE st[i] \in ToSet(s) \cup ToSet(t)
    <3>1. i \in 1..(Len(s) + Len(t))
      BY <1>1
    <3>2. CASE i \in 1..Len(s)
      BY <1>1, <3>2 DEF ToSet
    <3>3. CASE i \notin 1..Len(s)
      BY <1>1, <1>2, <3>1, <3>3 DEF ToSet
    <3> QED BY <3>2, <3>3
  <2>2. ToSet(s) \subseteq ToSet(st)
    BY <1>1, <1>3 DEF ToSet
  <2>3. ToSet(t) \subseteq ToSet(st)
    BY <1>1, <1>4 DEF ToSet
  <2>4. ToSet(st) \subseteq ToSet(s) \cup ToSet(t)
    BY <2>1 DEF ToSet
  <2> QED BY <2>2, <2>3, <2>4
<1>6. ASSUME IsInjective(s), IsInjective(t), ToSet(s) \cap ToSet(t) = {} PROVE IsInjective(st)
  <2>1. ASSUME NEW i \in DOMAIN st, NEW j \in DOMAIN st, st[i] = st[j] PROVE i = j
    <3>1. \A k \in 1..Len(s), l \in 1..Len(t) : s[k] # t[l]
      BY <1>1, <1>6 DEF ToSet
    <3>2. CASE i \in 1..Len(s) /\ j \in 1..Len(s)
      BY <1>1, <1>6, <2>1, <3>2 DEF IsInjective
    <3>3. CASE i \in 1..Len(s) /\ j \notin 1..Len(s)
      BY <1>1, <1>2, <2>1, <3>1, <3>3
    <3>4. CASE i \notin 1..Len(s) /\ j \in 1..Len(s)
      BY <1>1, <1>2, <2>1, <3>1, <3>4
    <3>5. CASE i \notin 1..Len(s) /\ j \notin 1..Len(s)
      <4>1. PICK k \in 1..Len(t) : i = Len(s) + k
        BY <1>1, <1>2, <2>1, <3>5
      <4>2. PICK l \in 1..Len(t) : j = Len(s) + l
        BY <1>1, <1>2, <2>1, <3>5
      <4>3. t[k] = t[l]
        BY <1>1, <2>1, <4>1, <4>2
      <4> QED BY <1>1, <1>6, <4>1, <4>2, <4>3 DEF IsInjective
    <3> QED BY <3>2, <3>3, <3>4, <3>5
  <2> QED BY <2>1 DEF IsInjective
<1> QED BY <1>1, <1>5, <1>6 DEF st

\* many is few with x in between: where the others are.
IsBetween(few, many, x) ==
    \E moved \in [1..Len(few) -> 1..Len(many)], new \in 1..Len(many) :
       /\ many[new] = x
       /\ \A i \in 1..Len(few) : /\ many[moved[i]] = few[i] /\ moved[i] # new /\ moved[i] >= i
       /\ \A i, j \in 1..Len(few) : moved[i] = moved[j] => i = j
       /\ \A k \in 1..Len(many) : k # new => \E i \in 1..Len(few) : k = moved[i]

LEMMA Between ==
    ASSUME NEW T, NEW a \in Seq(T), NEW b \in Seq(T), NEW x \in T
    PROVE  /\ a \o b \in Seq(T) /\ Append(a, x) \o b \in Seq(T)
           /\ IsBetween(a \o b, Append(a, x) \o b, x)
<1> DEFINE few == a \o b
           many == Append(a, x) \o b
           new == Len(a) + 1
           to(i) == IF i <= Len(a) THEN i ELSE i + 1
<1>1. /\ Len(a) \in Nat /\ Len(b) \in Nat
      /\ Len(few) = Len(a) + Len(b) /\ Len(many) = Len(a) + Len(b) + 1
      /\ DOMAIN few = 1..Len(few) /\ DOMAIN many = 1..Len(many)
      /\ many[new] = x
      /\ \A i \in 1..Len(few) : many[to(i)] = few[i]
  OBVIOUS
<1>0. few \in Seq(T) /\ many \in Seq(T)
  BY AppendProperties, ConcatProperties
<1> HIDE DEF few, many
<1> DEFINE moved == [i \in 1..Len(few) |-> to(i)]
<1>2. new \in 1..Len(many) /\ moved \in [1..Len(few) -> 1..Len(many)]
  BY <1>1
<1>3. \A i \in 1..Len(few) : moved[i] = to(i) /\ many[moved[i]] = few[i] /\ moved[i] # new /\ moved[i] >= i
  BY <1>1
<1>4. \A i, j \in 1..Len(few) : moved[i] = moved[j] => i = j
  BY <1>1
<1>5. \A k \in 1..Len(many) : k # new => \E i \in 1..Len(few) : k = moved[i]
  <2> TAKE k \in 1..Len(many)
  <2>1. CASE k <= Len(a)
    <3>1. k \in 1..Len(few) /\ k = to(k)
      BY <1>1, <2>1
    <3> QED BY <1>3, <3>1
  <2>2. CASE k > Len(a) + 1
    <3>1. k - 1 \in 1..Len(few) /\ k = to(k - 1)
      BY <1>1, <2>2
    <3> QED BY <1>3, <3>1
  <2> QED BY <1>1, <2>1, <2>2
<1> HIDE DEF moved, new, to
<1>6. IsBetween(few, many, x)
  BY <1>1, <1>2, <1>3, <1>4, <1>5 DEF IsBetween
<1> QED BY <1>0, <1>6 DEF few, many

\* No two rows have the same key.
Distinct(s, key) == \A i, j \in DOMAIN s : key[s[i]] = key[s[j]] => i = j

\* One more row in between pushes those behind it further back.
LEMMA OneMore ==
    ASSUME NEW T, NEW a \in Seq(T), NEW b \in Seq(T), NEW x \in T
    PROVE  /\ \A n \in Nat : Beyond(a \o b, n) \subseteq Beyond(Append(a, x) \o b, n)
           /\ \A key : Distinct(Append(a, x) \o b, key) => Distinct(a \o b, key)
           /\ \A key : Distinct(a \o b, key) /\ (\A i \in DOMAIN (a \o b) : key[(a \o b)[i]] # key[x])
                       => Distinct(Append(a, x) \o b, key)
<1> DEFINE few == a \o b
           many == Append(a, x) \o b
<1>0. few \in Seq(T) /\ many \in Seq(T) /\ IsBetween(few, many, x)
  BY Between
<1> HIDE DEF few, many
<1>1. DOMAIN few = 1..Len(few) /\ DOMAIN many = 1..Len(many) /\ Len(few) \in Nat /\ Len(many) \in Nat
  BY <1>0, LenProperties
<1>2. PICK moved \in [1..Len(few) -> 1..Len(many)], new \in 1..Len(many) :
          /\ many[new] = x
          /\ \A i \in 1..Len(few) : /\ many[moved[i]] = few[i] /\ moved[i] # new /\ moved[i] >= i
          /\ \A i, j \in 1..Len(few) : moved[i] = moved[j] => i = j
          /\ \A k \in 1..Len(many) : k # new => \E i \in 1..Len(few) : k = moved[i]
  BY <1>0 DEF IsBetween
<1>5. ASSUME NEW n \in Nat PROVE Beyond(few, n) \subseteq Beyond(many, n)
  <2>1. ASSUME NEW i \in (n + 1)..Len(few) PROVE moved[i] \in (n + 1)..Len(many) /\ many[moved[i]] = few[i]
    <3>1. i \in 1..Len(few) /\ moved[i] \in 1..Len(many) /\ moved[i] >= i
      BY <1>1, <1>2
    <3> QED BY <1>1, <1>2, <3>1
  <2> QED BY <2>1 DEF Beyond
<1>6. ASSUME NEW key, Distinct(many, key) PROVE Distinct(few, key)
  <2>1. ASSUME NEW i \in 1..Len(few), NEW j \in 1..Len(few), key[few[i]] = key[few[j]] PROVE i = j
    <3>1. moved[i] \in DOMAIN many /\ moved[j] \in DOMAIN many
      BY <1>1, <1>2
    <3>2. moved[i] = moved[j]
      BY <1>2, <1>6, <2>1, <3>1 DEF Distinct
    <3> QED BY <1>2, <3>2
  <2> QED BY <1>1, <2>1 DEF Distinct
<1>7. ASSUME NEW key, Distinct(few, key), \A i \in DOMAIN few : key[few[i]] # key[x]
      PROVE  Distinct(many, key)
  <2>2. /\ \A i, j \in 1..Len(few) : key[few[i]] = key[few[j]] => i = j
        /\ \A i \in 1..Len(few) : key[few[i]] # key[x]
    BY <1>1, <1>7 DEF Distinct
  <2>1. ASSUME NEW k \in 1..Len(many), NEW l \in 1..Len(many), key[many[k]] = key[many[l]] PROVE k = l
    <3>1. CASE k # new /\ l # new
      <4>1. PICK i \in 1..Len(few) : k = moved[i]
        BY <1>2, <3>1
      <4>2. PICK j \in 1..Len(few) : l = moved[j]
        BY <1>2, <3>1
      <4>3. i = j
        BY <1>2, <2>1, <2>2, <4>1, <4>2
      <4> QED BY <4>1, <4>2, <4>3
    <3>2. CASE k # new /\ l = new
      <4>1. PICK i \in 1..Len(few) : k = moved[i]
        BY <1>2, <3>2
      <4> QED BY <1>2, <2>1, <2>2, <3>2, <4>1
    <3>3. CASE k = new /\ l # new
      <4>1. PICK i \in 1..Len(few) : l = moved[i]
        BY <1>2, <3>3
      <4> QED BY <1>2, <2>1, <2>2, <3>3, <4>1
    <3> QED BY <3>1, <3>2, <3>3
  <2> QED BY <1>1, <2>1 DEF Distinct
<1> QED BY <1>5, <1>6, <1>7 DEF few, many

LEMMA DistinctItself ==
    ASSUME NEW T, NEW s \in Seq(T)
    PROVE  Distinct(s, [r \in T |-> r]) <=> IsInjective(s)
BY ElementOfSeq, LenProperties DEF Distinct, IsInjective

\* A page of k rows after the first n.
LEMMA PageOf ==
    ASSUME NEW T, NEW v \in Seq(T), NEW n \in Nat, NEW k \in Nat, NEW m \in Nat,
           m <= n + k, m <= Len(v), m = n + k \/ m = Len(v)
    PROVE  LET p == SubSeq(v, n + 1, m)
           IN  /\ p \in Seq(T)
               /\ Beyond(v, n) \subseteq ToSet(p) \cup Beyond(v, n + k)
               /\ ToSet(p) \subseteq Beyond(v, n)
               /\ Beyond(v, n + k) \subseteq Beyond(v, n)
               /\ IsInjective(v) => IsInjective(p) /\ ToSet(p) \cap Beyond(v, n + k) = {}
               /\ n <= Len(v) => SubSeq(v, 1, n) \o p = SubSeq(v, 1, m)
               /\ Len(v) <= n + k => Beyond(v, n + k) = {}
<1> DEFINE p == SubSeq(v, n + 1, m)
<1>0. Len(v) \in Nat /\ DOMAIN v = 1..Len(v) /\ \A j \in (n + 1)..m : v[j] \in T
  BY LenProperties, ElementOfSeq
<1>1. Len(v) \in Nat
  BY <1>0
<1>2. /\ p \in Seq(T)
      /\ Len(p) = IF n + 1 <= m THEN m - (n + 1) + 1 ELSE 0
      /\ \A i \in 1..(m - (n + 1) + 1) : p[i] = v[(n + 1) + i - 1]
  <2> DEFINE l == n + 1
  <2>1. l \in Int /\ m \in Int
    OBVIOUS
  <2>2. \A j \in l..m : v[j] \in T
    BY <1>0
  <2> HIDE DEF l
  <2>3. /\ SubSeq(v, l, m) \in Seq(T)
        /\ Len(SubSeq(v, l, m)) = IF l <= m THEN m - l + 1 ELSE 0
        /\ \A i \in 1..(m - l + 1) : SubSeq(v, l, m)[i] = v[l + i - 1]
    BY <2>1, <2>2, SubSeqProperties
  <2> QED BY <2>3 DEF l
<1>5. n <= Len(v) => SubSeq(v, 1, n) \o p = SubSeq(v, 1, m)
  <2>1. n <= Len(v) => 1 \in 1..(Len(v) + 1) /\ n \in (1 - 1)..Len(v) /\ m \in n..Len(v)
    BY <1>1
  <2> QED BY <2>1, ConcatAdjacentSubSeq
<1> HIDE DEF p
<1>3. /\ DOMAIN p = 1..Len(p) /\ Len(p) \in Nat
      /\ \A i \in 1..Len(p) : p[i] = v[n + i] /\ n + i \in (n + 1)..m /\ n + i \in (n + 1)..Len(v)
                              /\ n + i \in 1..Len(v) /\ n + i \notin (n + k + 1)..Len(v)
  <2>1. \A i \in 1..Len(p) : i \in 1..(m - (n + 1) + 1) /\ (n + 1) + i - 1 = n + i
    BY <1>1, <1>2
  <2>2. \A i \in 1..Len(p) : n + i \in (n + 1)..m /\ n + i \in (n + 1)..Len(v)
                             /\ n + i \in 1..Len(v) /\ n + i \notin (n + k + 1)..Len(v)
    BY <1>1, <1>2
  <2>3. DOMAIN p = 1..Len(p) /\ Len(p) \in Nat
    BY <1>2, LenProperties
  <2> HIDE DEF p
  <2> QED BY <1>2, <2>1, <2>2, <2>3
<1>4. \A j \in (n + 1)..Len(v) : j \in (n + k + 1)..Len(v) \/ \E i \in 1..Len(p) : j = n + i
  <2> TAKE j \in (n + 1)..Len(v)
  <2>1. CASE j <= n + k
    <3>1. j - n \in 1..Len(p) /\ j = n + (j - n)
      BY <1>1, <1>2, <2>1
    <3> QED BY <3>1
  <2> QED BY <1>1, <2>1
<1>6. Beyond(v, n) \subseteq ToSet(p) \cup Beyond(v, n + k)
  <2>1. ASSUME NEW j \in (n + 1)..Len(v) PROVE v[j] \in ToSet(p) \cup Beyond(v, n + k)
    <3>1. CASE j \in (n + k + 1)..Len(v)
      BY <3>1 DEF Beyond
    <3>2. CASE \E i \in 1..Len(p) : j = n + i
      BY <1>3, <3>2 DEF ToSet
    <3> QED BY <1>4, <3>1, <3>2
  <2> QED BY <2>1 DEF Beyond
<1>7. ToSet(p) \subseteq Beyond(v, n)
  BY <1>3 DEF Beyond, ToSet
<1>8. Beyond(v, n + k) \subseteq Beyond(v, n) /\ (Len(v) <= n + k => Beyond(v, n + k) = {})
  <2>1. \A j \in (n + k + 1)..Len(v) : j \in (n + 1)..Len(v)
    BY <1>1
  <2> QED BY <1>1, <2>1 DEF Beyond
<1>9. ASSUME IsInjective(v) PROVE IsInjective(p) /\ ToSet(p) \cap Beyond(v, n + k) = {}
  <2>1. \A i, j \in 1..Len(v) : v[i] = v[j] => i = j
    BY <1>0, <1>9 DEF IsInjective
  <2>2. IsInjective(p)
    <3>1. ASSUME NEW i \in 1..Len(p), NEW j \in 1..Len(p), p[i] = p[j] PROVE i = j
      <4>1. n + i = n + j
        BY <1>3, <2>1, <3>1
      <4> QED BY <4>1
    <3> QED BY <1>3, <3>1 DEF IsInjective
  <2>3. \A i \in 1..Len(p), j \in (n + k + 1)..Len(v) : p[i] # v[j]
    <3>1. \A j \in (n + k + 1)..Len(v) : j \in 1..Len(v)
      BY <1>1
    <3> QED BY <1>3, <2>1, <3>1
  <2> QED BY <1>3, <2>2, <2>3 DEF ToSet, Beyond
<1> QED BY <1>2, <1>5, <1>6, <1>7, <1>8, <1>9 DEF p

(***************************************************************************)
(* PagedList.                                                              *)
(***************************************************************************)

Row == [id: Id, owner: Owner]

Mine == VisibleTo(Caller)

\* The rows before the page that the client is at, and those up to its end.
Before == (page - 1) * limit
UpToHere == page * limit

ListShape ==
    /\ table \in Seq(Row)
    /\ at \in {"idle", "page", "count", "next", "done"}
    /\ limit \in 1..MaxLimit /\ page \in Nat \ {0}
    /\ items \in Seq(Row) /\ seen \in Seq(Row)
    /\ inserted \in BOOLEAN /\ removed \in BOOLEAN
    /\ IsInjective(Mine)

\* Every row that was there is on a page the client has, or is still ahead.
NoneLost ==
    /\ at \in {"page", "count"} => start \subseteq ToSet(seen) \cup Beyond(Mine, Before)
    /\ at = "count" => start \subseteq ToSet(seen) \cup ToSet(items) \cup Beyond(Mine, UpToHere)
    /\ at = "next" => start \subseteq ToSet(seen) \cup Beyond(Mine, UpToHere)
    /\ at = "done" => start \subseteq ToSet(seen)

\* What the client has is not ahead of it.
NoneAgain ==
    /\ IsInjective(seen)
    /\ at \in {"page", "count"} => ToSet(seen) \cap Beyond(Mine, Before) = {}
    /\ at = "count" =>
          /\ IsInjective(items) /\ ToSet(items) \cap ToSet(seen) = {}
          /\ (ToSet(items) \cup ToSet(seen)) \cap Beyond(Mine, UpToHere) = {}
    /\ at = "next" => ToSet(seen) \cap Beyond(Mine, UpToHere) = {}

\* What the client has is the beginning of the table.
InStep ==
    /\ at \in {"page", "count"} => Before <= Len(Mine) /\ seen = SubSeq(Mine, 1, Before)
    /\ at = "count" => items = SubSeq(Mine, Before + 1, IF UpToHere <= Len(Mine) THEN UpToHere ELSE Len(Mine))
    /\ at = "next" => UpToHere <= Len(Mine) /\ seen = SubSeq(Mine, 1, UpToHere)
    /\ at = "done" => seen = Mine /\ total = Len(seen)

ListInv ==
    /\ ListShape
    /\ ~removed => NoneLost
    /\ ~inserted => NoneAgain
    /\ ~inserted /\ ~removed => InStep

LEMMA MineType ==
    ASSUME table \in Seq(Row)
    PROVE  /\ Mine \in Seq(Row) /\ Len(Mine) \in Nat
           /\ \A S : table \in Seq(S) => ToSet(Mine) \subseteq S
<1>1. ASSUME NEW S, table \in Seq(S) PROVE Mine \in Seq(S) /\ ToSet(Mine) \subseteq S
  <2> DEFINE T == {x \in S : x.owner = Caller}
  <2>1. Mine \in Seq(T)
    BY <1>1, OwnedType DEF Mine, VisibleTo
  <2>2. T \subseteq S
    OBVIOUS
  <2> HIDE DEF T
  <2>3. Mine \in Seq(S)
    BY <2>1, <2>2, SeqMonotonic
  <2> QED BY <2>3, ToSetOf
<1> QED BY <1>1, LenProperties

LEMMA MinOfTwo ==
    ASSUME NEW x \in Int, NEW y \in Int
    PROVE  Min({x, y}) = IF x <= y THEN x ELSE y
<1> DEFINE z == IF x <= y THEN x ELSE y
<1>1. z \in {x, y} /\ \A w \in {x, y} : z <= w
  OBVIOUS
<1>2. \A u \in {x, y} : (\A w \in {x, y} : u <= w) => u = z
  OBVIOUS
<1> QED BY <1>1, <1>2 DEF Min

LEMMA MaxOfTwo ==
    ASSUME NEW x \in Int, NEW y \in Int
    PROVE  Max({x, y}) = IF x >= y THEN x ELSE y
<1> DEFINE z == IF x >= y THEN x ELSE y
<1>1. z \in {x, y} /\ \A w \in {x, y} : z >= w
  OBVIOUS
<1>2. \A u \in {x, y} : (\A w \in {x, y} : u >= w) => u = z
  OBVIOUS
<1> QED BY <1>1, <1>2 DEF Max

\* The clamps leave a query as the schema has let it through.
LEMMA Clamps ==
    ASSUME limit \in 1..MaxLimit, page \in Nat \ {0}
    PROVE  /\ SafeLimit = limit /\ SafePage = page /\ Offset = Before
           /\ Before \in Nat /\ UpToHere \in Nat /\ Before + limit = UpToHere
           /\ (page = 1 => Before = 0)
<1>1. MaxLimit \in Nat /\ limit \in Int /\ page \in Int /\ limit >= 1 /\ limit <= MaxLimit /\ page >= 1
  BY ListAssumption
<1>2. Max({limit, 1}) = limit /\ Max({page, 1}) = page
  BY <1>1, MaxOfTwo
<1>3. Min({limit, MaxLimit}) = limit
  BY <1>1, MinOfTwo
<1>4. SafeLimit = limit /\ SafePage = page
  BY <1>2, <1>3 DEF SafeLimit, SafePage
<1>5. Before \in Nat /\ UpToHere \in Nat /\ Before + limit = UpToHere /\ (page = 1 => Before = 0)
  BY <1>1 DEF Before, UpToHere
<1> QED BY <1>4, <1>5 DEF Offset, Before

\* A row that is put between others, and what a WHERE makes of it.
LEMMA RowBetween ==
    ASSUME NEW a \in Seq(Row), NEW b \in Seq(Row), NEW x \in Row
    PROVE  LET few == a \o b
               many == Append(a, x) \o b
               seesFew == OwnedBy(few, Caller)
               seesMany == OwnedBy(many, Caller)
           IN  /\ few \in Seq(Row) /\ many \in Seq(Row)
               /\ IF x.owner = Caller
                  THEN /\ \A n \in Nat : Beyond(seesFew, n) \subseteq Beyond(seesMany, n)
                       /\ IsInjective(seesMany) => IsInjective(seesFew)
                       /\ IsInjective(seesFew) /\ (\A i \in DOMAIN few : few[i] # x) => IsInjective(seesMany)
                  ELSE seesMany = seesFew
<1> DEFINE few == a \o b
           many == Append(a, x) \o b
           A == OwnedBy(a, Caller)
           B == OwnedBy(b, Caller)
           T == {r \in Row : r.owner = Caller}
           same == [r \in Row |-> r]
<1>1. few \in Seq(Row) /\ many \in Seq(Row)
  BY AppendProperties, ConcatProperties
<1>2. A \in Seq(T) /\ B \in Seq(T) /\ T \subseteq Row
  BY OwnedType
<1>3. OwnedBy(few, Caller) = A \o B
  BY OwnedConcat
<1>4. OwnedBy(many, Caller) = IF x.owner = Caller THEN Append(A, x) \o B ELSE A \o B
  BY OwnedAround
<1>7. \A i \in DOMAIN OwnedBy(few, Caller) : \E j \in DOMAIN few : OwnedBy(few, Caller)[i] = few[j]
  <2> DEFINE S == {few[j] : j \in DOMAIN few}
  <2> HIDE DEF few
  <2>1. few \in Seq(S)
    BY <1>1, LenProperties
  <2>2. OwnedBy(few, Caller) \in Seq({r \in S : r.owner = Caller})
    <3> HIDE DEF S
    <3> QED BY <2>1, OwnedType
  <2>3. \A i \in DOMAIN OwnedBy(few, Caller) : OwnedBy(few, Caller)[i] \in {r \in S : r.owner = Caller}
    <3> HIDE DEF S
    <3> QED BY <2>2, ElementOfSeq, LenProperties
  <2> QED BY <2>3
<1> HIDE DEF T, few, many, A, B
<1>8. A \in Seq(Row) /\ B \in Seq(Row)
  BY <1>2, SeqMonotonic
<1>9. A \o B \in Seq(Row) /\ Append(A, x) \o B \in Seq(Row)
  BY <1>8, AppendProperties, ConcatProperties
<1>10. \A n \in Nat : Beyond(A \o B, n) \subseteq Beyond(Append(A, x) \o B, n)
  BY <1>8, OneMore
<1>11. IsInjective(Append(A, x) \o B) => IsInjective(A \o B)
  <2>1. Distinct(Append(A, x) \o B, same) => Distinct(A \o B, same)
    <3> HIDE DEF same
    <3> QED BY <1>8, OneMore
  <2> QED BY <1>9, <2>1, DistinctItself
<1>12. IsInjective(A \o B) /\ (\A i \in DOMAIN (A \o B) : (A \o B)[i] # x) => IsInjective(Append(A, x) \o B)
  <2>1. same[x] = x /\ \A i \in DOMAIN (A \o B) : same[(A \o B)[i]] = (A \o B)[i]
    BY <1>9, ElementOfSeq, LenProperties
  <2>2. Distinct(A \o B, same) /\ (\A i \in DOMAIN (A \o B) : same[(A \o B)[i]] # same[x])
        => Distinct(Append(A, x) \o B, same)
    <3> HIDE DEF same
    <3> QED BY <1>8, OneMore
  <2>3. Distinct(A \o B, same) <=> IsInjective(A \o B)
    BY <1>9, DistinctItself
  <2>4. Distinct(Append(A, x) \o B, same) <=> IsInjective(Append(A, x) \o B)
    BY <1>9, DistinctItself
  <2> HIDE DEF same
  <2> QED BY <2>1, <2>2, <2>3, <2>4
<1> DEFINE seesFew == OwnedBy(few, Caller)
           seesMany == OwnedBy(many, Caller)
<1>15. CASE x.owner = Caller
  <2>1. seesMany = Append(A, x) \o B /\ seesFew = A \o B
    BY <1>3, <1>4, <1>15
  <2>2. (\A i \in DOMAIN few : few[i] # x) => \A i \in DOMAIN seesFew : seesFew[i] # x
    BY <1>7
  <2> HIDE DEF seesFew, seesMany
  <2>3. /\ \A n \in Nat : Beyond(seesFew, n) \subseteq Beyond(seesMany, n)
        /\ IsInjective(seesMany) => IsInjective(seesFew)
        /\ IsInjective(seesFew) /\ (\A i \in DOMAIN few : few[i] # x) => IsInjective(seesMany)
    BY <1>10, <1>11, <1>12, <2>1, <2>2
  <2> QED BY <1>1, <1>15, <2>3 DEF few, many, seesFew, seesMany
<1>16. CASE x.owner # Caller
  <2>1. seesMany = seesFew
    BY <1>3, <1>4, <1>16
  <2> QED BY <1>1, <1>16, <2>1 DEF few, many, seesFew, seesMany
<1> QED BY <1>15, <1>16

\* An INSERT is not seen at all, or pushes the rows behind it back.
LEMMA AfterInsert ==
    ASSUME ListShape, InsertRow
    PROVE  /\ table' \in Seq(Row) /\ IsInjective(Mine')
           /\ \/ Mine' = Mine /\ inserted' = inserted
              \/ inserted' /\ \A n \in Nat : Beyond(Mine, n) \subseteq Beyond(Mine', n)
<1>1. PICK i \in Id, owner \in Owner, k \in 1..(Min({Overtaken, Len(table)}) + 1) :
          /\ \A j \in DOMAIN table : table[j].id # i
          /\ table' = InsertAt(table, k, [id |-> i, owner |-> owner])
          /\ inserted' = (inserted \/ owner = Caller)
  BY DEF InsertRow
<1> DEFINE x == [id |-> i, owner |-> owner]
           a == SubSeq(table, 1, k - 1)
           b == SubSeq(table, k, Len(table))
<1>2. table \in Seq(Row) /\ Len(table) \in Nat /\ x \in Row /\ x.owner = owner
      /\ \A j \in DOMAIN table : table[j] # x
  BY <1>1, LenProperties DEF ListShape, Row
<1>3. k - 1 \in 0..Len(table) /\ (k - 1) + 1 = k
  <2>1. Len(table) \in Nat /\ Overtaken \in Nat
    BY <1>2, ListAssumption
  <2>2. k \in 1..(Min({Overtaken, Len(table)}) + 1)
    OBVIOUS
  <2>3. Min({Overtaken, Len(table)}) \in Nat /\ Min({Overtaken, Len(table)}) <= Len(table)
    BY <2>1, MinOfTwo
  <2> QED BY <2>1, <2>2, <2>3
<1>4. a \in Seq(Row) /\ b \in Seq(Row) /\ table = a \o b
  BY <1>2, <1>3, Parted
<1>5. table' = (a \o <<x>>) \o b
  BY <1>1 DEF InsertAt
<1> HIDE DEF a, b, x
<1>6. table' = Append(a, x) \o b
  <2>1. a \o <<x>> = Append(a, x)
    BY <1>2, <1>4, AppendIsConcat
  <2> QED BY <1>5, <2>1
<1>7. Mine = OwnedBy(a \o b, Caller) /\ Mine' = OwnedBy(Append(a, x) \o b, Caller)
  BY <1>4, <1>6 DEF Mine, VisibleTo
<1>8. /\ Append(a, x) \o b \in Seq(Row)
      /\ IF x.owner = Caller
         THEN /\ \A n \in Nat : Beyond(Mine, n) \subseteq Beyond(Mine', n)
              /\ IsInjective(Mine) /\ (\A j \in DOMAIN table : table[j] # x) => IsInjective(Mine')
         ELSE Mine' = Mine
  BY <1>2, <1>4, <1>7, RowBetween
<1>9. IsInjective(Mine) /\ inserted \in BOOLEAN
  BY DEF ListShape
<1>10. CASE owner = Caller
  BY <1>1, <1>2, <1>6, <1>8, <1>9, <1>10
<1>11. CASE owner # Caller
  <2>1. inserted' = inserted
    BY <1>1, <1>9, <1>11
  <2> QED BY <1>2, <1>6, <1>8, <1>9, <1>11, <2>1
<1> QED BY <1>10, <1>11

\* A DELETE is not seen at all, or pulls the rows behind it forward.
LEMMA AfterRemove ==
    ASSUME ListShape, RemoveRow
    PROVE  /\ table' \in Seq(Row) /\ IsInjective(Mine')
           /\ \/ Mine' = Mine /\ removed' = removed
              \/ removed' /\ \A n \in Nat : Beyond(Mine', n) \subseteq Beyond(Mine, n)
<1>1. PICK k \in DOMAIN table : /\ table' = RemoveAt(table, k)
                                /\ removed' = (removed \/ table[k].owner = Caller)
  BY DEF RemoveRow
<1> DEFINE x == table[k]
           a == SubSeq(table, 1, k - 1)
           b == SubSeq(table, k + 1, Len(table))
<1>2. table \in Seq(Row) /\ k \in 1..Len(table)
  BY LenProperties DEF ListShape
<1>3. a \in Seq(Row) /\ b \in Seq(Row) /\ x \in Row /\ table = Append(a, x) \o b
  BY <1>2, PartedAround
<1>4. table' = a \o b
  BY <1>1 DEF RemoveAt
<1>5. removed' = (removed \/ x.owner = Caller)
  BY <1>1
<1> HIDE DEF a, b, x
<1>7. Mine' = OwnedBy(a \o b, Caller) /\ Mine = OwnedBy(Append(a, x) \o b, Caller)
  BY <1>3, <1>4 DEF Mine, VisibleTo
<1>8. /\ a \o b \in Seq(Row)
      /\ IF x.owner = Caller
         THEN /\ \A n \in Nat : Beyond(Mine', n) \subseteq Beyond(Mine, n)
              /\ IsInjective(Mine) => IsInjective(Mine')
         ELSE Mine = Mine'
  BY <1>3, <1>7, RowBetween
<1>9. IsInjective(Mine) /\ removed \in BOOLEAN
  BY DEF ListShape
<1>10. CASE x.owner = Caller
  BY <1>4, <1>5, <1>8, <1>9, <1>10
<1>11. CASE x.owner # Caller
  <2>1. removed' = removed
    BY <1>5, <1>9, <1>11
  <2> QED BY <1>4, <1>8, <1>9, <1>11, <2>1
<1> QED BY <1>10, <1>11

LEMMA ListInitially ==
    ASSUME ListInit
    PROVE  ListInv
<1>1. Mine = <<>>
  BY OwnedEmpty DEF ListInit, Mine, VisibleTo
<1>2. ListShape
  <2>1. IsInjective(Mine)
    BY <1>1 DEF IsInjective
  <2>2. <<>> \in Seq(Row)
    BY EmptySeq
  <2>3. limit \in 1..MaxLimit /\ page \in Nat \ {0}
    BY ListAssumption DEF ListInit
  <2> QED BY <2>1, <2>2, <2>3 DEF ListInit, ListShape
<1>3. NoneLost /\ NoneAgain /\ InStep
  BY DEF ListInit, NoneLost, NoneAgain, InStep, IsInjective
<1> QED BY <1>2, <1>3 DEF ListInv

\* The first page is asked for: all the caller's rows are ahead.
LEMMA AfterFirstPage ==
    ASSUME ListInv, FirstPage
    PROVE  ListInv'
<1>1. /\ ListShape /\ Mine' = Mine /\ at' = "page" /\ limit' \in 1..MaxLimit /\ page' = 1
      /\ items' = <<>> /\ seen' = <<>> /\ table' = table /\ start' = ToSet(Mine)
      /\ inserted' = FALSE /\ removed' = FALSE
  BY ListAssumption DEF ListInv, FirstPage, Mine, VisibleTo
<1>2. Mine \in Seq(Row) /\ Len(Mine) \in Nat /\ IsInjective(Mine)
  BY <1>1, MineType DEF ListShape
<1>3. Before' = 0
  <2>1. limit' \in Int /\ Before' = (page' - 1) * limit'
    BY <1>1, ListAssumption DEF Before
  <2>2. \A l \in Int : 0 * l = 0
    OBVIOUS
  <2>3. page' - 1 = 0
    BY <1>1
  <2> QED BY <2>1, <2>2, <2>3
<1>4. ListShape'
  <2>1. IsInjective(Mine')
    BY <1>1, <1>2
  <2>2. <<>> \in Seq(Row)
    BY EmptySeq
  <2>3. table' \in Seq(Row)
    BY <1>1 DEF ListShape
  <2>4. items' \in Seq(Row) /\ seen' \in Seq(Row)
    BY <1>1, <2>2
  <2>5. at' \in {"idle", "page", "count", "next", "done"} /\ limit' \in 1..MaxLimit
    BY <1>1
  <2>6. page' \in Nat \ {0}
    BY <1>1
  <2>7. inserted' \in BOOLEAN /\ removed' \in BOOLEAN
    BY <1>1
  <2> QED BY <2>1, <2>3, <2>4, <2>5, <2>6, <2>7 DEF ListShape
<1>5. ToSet(Mine) = Beyond(Mine, 0) /\ ToSet(<<>>) = {}
  BY <1>2, ToSetOf DEF ToSet
<1>6. NoneLost'
  BY <1>1, <1>3, <1>5 DEF NoneLost
<1>7. NoneAgain'
  BY <1>1, <1>5 DEF NoneAgain, IsInjective
<1>8. InStep'
  <2>1. SubSeq(Mine, 1, 0) = <<>>
    BY <1>2, SubSeqEmpty
  <2> QED BY <1>1, <1>2, <1>3, <2>1 DEF InStep
<1> QED BY <1>4, <1>6, <1>7, <1>8 DEF ListInv
\* The other steps of the client leave the rows and the query alone.
LEMMA ClientShape ==
    ASSUME ListShape, table' = table, limit' = limit, page' \in Nat \ {0},
           at' \in {"idle", "page", "count", "next", "done"}, items' \in Seq(Row), seen' \in Seq(Row),
           inserted' = inserted, removed' = removed
    PROVE  ListShape' /\ Mine' = Mine
<1>1. Mine' = Mine
  BY DEF Mine, VisibleTo
<1>2. IsInjective(Mine')
  BY <1>1 DEF ListShape
<1>3. table' \in Seq(Row) /\ limit' \in 1..MaxLimit /\ inserted' \in BOOLEAN /\ removed' \in BOOLEAN
  BY DEF ListShape
<1> QED BY <1>1, <1>2, <1>3 DEF ListShape

LEMMA Shapes ==
    ASSUME ListInv
    PROVE  /\ Mine \in Seq(Row) /\ Len(Mine) \in Nat /\ IsInjective(Mine)
           /\ limit \in 1..MaxLimit /\ limit \in Nat /\ page \in Nat \ {0}
           /\ SafeLimit = limit /\ SafePage = page /\ Offset = Before
           /\ Before \in Nat /\ UpToHere \in Nat /\ Before + limit = UpToHere
           /\ seen \in Seq(Row) /\ items \in Seq(Row)
<1>1. limit \in 1..MaxLimit /\ page \in Nat \ {0} /\ MaxLimit \in Nat /\ table \in Seq(Row)
      /\ IsInjective(Mine) /\ seen \in Seq(Row) /\ items \in Seq(Row)
  BY ListAssumption DEF ListInv, ListShape
<1>2. limit \in Nat
  BY <1>1
<1> QED BY <1>1, <1>2, Clamps, MineType

LEMMA AfterSelectPage ==
    ASSUME ListInv, SelectPage
    PROVE  ListInv'
<1> DEFINE m == Min({Before + limit, Len(Mine)})
           p == SubSeq(Mine, Before + 1, m)
<1>1. /\ at = "page" /\ at' = "count" /\ items' = p /\ table' = table /\ limit' = limit /\ page' = page
      /\ seen' = seen /\ start' = start /\ inserted' = inserted /\ removed' = removed
  BY Shapes DEF SelectPage, query, Mine
<1>2. m = (IF Before + limit <= Len(Mine) THEN Before + limit ELSE Len(Mine)) /\ m \in Nat
  <2>1. Before + limit \in Int /\ Len(Mine) \in Int
    BY Shapes
  <2>2. m = IF Before + limit <= Len(Mine) THEN Before + limit ELSE Len(Mine)
    BY <2>1, MinOfTwo
  <2> QED BY <2>2, Shapes
<1> HIDE DEF m
<1>3. /\ p \in Seq(Row)
      /\ Beyond(Mine, Before) \subseteq ToSet(p) \cup Beyond(Mine, Before + limit)
      /\ ToSet(p) \subseteq Beyond(Mine, Before)
      /\ Beyond(Mine, Before + limit) \subseteq Beyond(Mine, Before)
      /\ IsInjective(p) /\ ToSet(p) \cap Beyond(Mine, Before + limit) = {}
  <2> DEFINE v == Mine
             n == Before
             k == limit
  <2>1. v \in Seq(Row) /\ n \in Nat /\ k \in Nat /\ m \in Nat /\ Len(v) \in Nat /\ IsInjective(v)
    BY <1>2, Shapes
  <2>2. m <= n + k /\ m <= Len(v) /\ (m = n + k \/ m = Len(v))
    BY <1>2, <2>1
  <2> HIDE DEF v, n, k
  <2>3. LET q == SubSeq(v, n + 1, m)
        IN  /\ q \in Seq(Row)
            /\ Beyond(v, n) \subseteq ToSet(q) \cup Beyond(v, n + k)
            /\ ToSet(q) \subseteq Beyond(v, n)
            /\ Beyond(v, n + k) \subseteq Beyond(v, n)
            /\ IsInjective(v) => IsInjective(q) /\ ToSet(q) \cap Beyond(v, n + k) = {}
    BY <2>1, <2>2, PageOf
  <2> QED BY <2>1, <2>3 DEF v, n, k
<1>4. m = IF UpToHere <= Len(Mine) THEN UpToHere ELSE Len(Mine)
  BY <1>2, Shapes
<1>5. Before + limit = UpToHere
  BY Shapes
<1> DEFINE here == UpToHere
           before == Before
           rest == Beyond(Mine, here)
           ahead == Beyond(Mine, before)
<1>6. /\ p \in Seq(Row) /\ ahead \subseteq ToSet(p) \cup rest /\ ToSet(p) \subseteq ahead
      /\ rest \subseteq ahead /\ IsInjective(p) /\ ToSet(p) \cap rest = {}
  BY <1>3, <1>5
<1>7. ListShape' /\ Mine' = Mine
  <2>1. ListShape /\ seen' \in Seq(Row) /\ page' \in Nat \ {0}
    BY <1>1, Shapes DEF ListInv
  <2> HIDE DEF p
  <2> QED BY <1>1, <1>3, <2>1, ClientShape
<1>8. Before' = Before /\ UpToHere' = UpToHere
  BY <1>1 DEF Before, UpToHere
<1>9. Beyond(Mine, Before)' = ahead /\ Beyond(Mine, UpToHere)' = rest
  BY <1>7, <1>8
<1> HIDE DEF p
<1>10. ~removed => NoneLost'
  <2>1. ~removed => start \subseteq ToSet(seen) \cup ahead
    BY <1>1 DEF ListInv, NoneLost
  <2> HIDE DEF rest, ahead
  <2>2. ~removed => /\ start' \subseteq ToSet(seen') \cup Beyond(Mine, Before)'
                    /\ start' \subseteq ToSet(seen') \cup ToSet(items') \cup Beyond(Mine, UpToHere)'
    BY <1>1, <1>6, <1>9, <2>1
  <2> QED BY <1>1, <2>2 DEF NoneLost
<1>11. ~inserted => NoneAgain'
  <2>1. ~inserted => IsInjective(seen) /\ ToSet(seen) \cap ahead = {}
    BY <1>1 DEF ListInv, NoneAgain
  <2> HIDE DEF rest, ahead
  <2>2. ~inserted => /\ IsInjective(seen') /\ ToSet(seen') \cap Beyond(Mine, Before)' = {}
                     /\ IsInjective(items') /\ ToSet(items') \cap ToSet(seen') = {}
                     /\ (ToSet(items') \cup ToSet(seen')) \cap Beyond(Mine, UpToHere)' = {}
    BY <1>1, <1>6, <1>9, <2>1
  <2> QED BY <1>1, <2>2 DEF NoneAgain
<1>12. ~inserted /\ ~removed => InStep'
  <2>1. ~inserted /\ ~removed => Before <= Len(Mine) /\ seen = SubSeq(Mine, 1, Before)
    BY <1>1 DEF ListInv, InStep
  <2>2. items' = SubSeq(Mine, Before + 1, IF UpToHere <= Len(Mine) THEN UpToHere ELSE Len(Mine))
    BY <1>1, <1>4 DEF p
  <2> QED BY <1>1, <1>7, <1>8, <2>1, <2>2 DEF InStep
<1> QED BY <1>1, <1>7, <1>10, <1>11, <1>12 DEF ListInv

LEMMA AfterListFails ==
    ASSUME ListInv, ListFails
    PROVE  ListInv'
<1>1. /\ at \in {"page", "count"} /\ at' = "page" /\ items' = <<>>
      /\ table' = table /\ limit' = limit /\ page' = page
      /\ seen' = seen /\ start' = start /\ inserted' = inserted /\ removed' = removed
  BY DEF ListFails, query
<1>2. ListShape' /\ Mine' = Mine
  <2>1. ListShape /\ seen' \in Seq(Row) /\ page' \in Nat \ {0} /\ items' \in Seq(Row)
    BY <1>1, Shapes, EmptySeq DEF ListInv
  <2> QED BY <1>1, <2>1, ClientShape
<1>3. Before' = Before
  BY <1>1 DEF Before
<1>4. ~removed => NoneLost'
  BY <1>1, <1>2, <1>3 DEF ListInv, NoneLost
<1>5. ~inserted => NoneAgain'
  BY <1>1, <1>2, <1>3 DEF ListInv, NoneAgain
<1>6. ~inserted /\ ~removed => InStep'
  BY <1>1, <1>2, <1>3 DEF ListInv, InStep
<1> QED BY <1>1, <1>2, <1>4, <1>5, <1>6 DEF ListInv

LEMMA AfterNextPage ==
    ASSUME ListInv, NextPage
    PROVE  ListInv'
<1>1. /\ at = "next" /\ at' = "page" /\ items' = items
      /\ table' = table /\ limit' = limit /\ page' = page + 1
      /\ seen' = seen /\ start' = start /\ inserted' = inserted /\ removed' = removed
  BY DEF NextPage
<1>2. ListShape' /\ Mine' = Mine
  <2>1. ListShape /\ seen' \in Seq(Row) /\ page' \in Nat \ {0} /\ items' \in Seq(Row)
    BY <1>1, Shapes DEF ListInv
  <2> QED BY <1>1, <2>1, ClientShape
<1>3. Before' = UpToHere
  <2>1. Before' = ((page + 1) - 1) * limit /\ page \in Nat
    BY <1>1, Shapes DEF Before
  <2>2. (page + 1) - 1 = page
    BY <2>1
  <2> QED BY <2>1, <2>2 DEF UpToHere
<1>4. ~removed => NoneLost'
  BY <1>1, <1>2, <1>3 DEF ListInv, NoneLost
<1>5. ~inserted => NoneAgain'
  BY <1>1, <1>2, <1>3 DEF ListInv, NoneAgain
<1>6. ~inserted /\ ~removed => InStep'
  BY <1>1, <1>2, <1>3 DEF ListInv, InStep
<1> QED BY <1>1, <1>2, <1>4, <1>5, <1>6 DEF ListInv
LEMMA AfterSelectCount ==
    ASSUME ListInv, SelectCount
    PROVE  ListInv'
<1>1. /\ at = "count" /\ at' = (IF UpToHere < Len(Mine) THEN "next" ELSE "done")
      /\ items' = items /\ table' = table /\ limit' = limit /\ page' = page /\ total' = Len(Mine)
      /\ seen' = seen \o items /\ start' = start /\ inserted' = inserted /\ removed' = removed
  BY Shapes DEF SelectCount, query, Mine, Count, UpToHere
<1>2. /\ seen \o items \in Seq(Row) /\ ToSet(seen \o items) = ToSet(seen) \cup ToSet(items)
      /\ IsInjective(seen) /\ IsInjective(items) /\ ToSet(seen) \cap ToSet(items) = {}
         => IsInjective(seen \o items)
  BY Shapes, ToSetConcat
<1>3. ListShape' /\ Mine' = Mine
  <2>1. ListShape /\ seen' \in Seq(Row) /\ page' \in Nat \ {0} /\ items' \in Seq(Row)
    BY <1>1, <1>2, Shapes DEF ListInv
  <2> QED BY <1>1, <2>1, ClientShape
<1>4. UpToHere' = UpToHere
  BY <1>1 DEF UpToHere
<1> DEFINE rest == Beyond(Mine, UpToHere)
<1>5. at' = "done" => rest = {}
  <2>1. UpToHere \in Nat /\ Len(Mine) \in Nat
    BY Shapes
  <2>2. at' = "done" => ~(UpToHere < Len(Mine))
    BY <1>1
  <2>3. ~(UpToHere < Len(Mine)) => (UpToHere + 1)..Len(Mine) = {}
    BY <2>1
  <2> QED BY <2>2, <2>3 DEF Beyond
<1>6. Beyond(Mine, UpToHere)' = rest
  BY <1>3, <1>4
<1> HIDE DEF rest
<1>7. ~removed => NoneLost'
  <2>1. ~removed => start \subseteq ToSet(seen) \cup ToSet(items) \cup rest
    BY <1>1 DEF ListInv, NoneLost, rest
  <2> QED BY <1>1, <1>2, <1>5, <1>6, <2>1 DEF NoneLost
<1>8. ~inserted => NoneAgain'
  <2>1. ~inserted => /\ IsInjective(seen) /\ IsInjective(items) /\ ToSet(items) \cap ToSet(seen) = {}
                     /\ (ToSet(items) \cup ToSet(seen)) \cap rest = {}
    BY <1>1 DEF ListInv, NoneAgain, rest
  <2>2. ~inserted => IsInjective(seen') /\ ToSet(seen') \cap rest = {}
    BY <1>1, <1>2, <2>1
  <2> QED BY <1>1, <1>6, <2>2 DEF NoneAgain
<1>9. ASSUME ~inserted, ~removed PROVE InStep'
  <2> DEFINE m == IF UpToHere <= Len(Mine) THEN UpToHere ELSE Len(Mine)
  <2>1. /\ Before <= Len(Mine) /\ seen = SubSeq(Mine, 1, Before)
        /\ items = SubSeq(Mine, Before + 1, m)
    BY <1>1, <1>9 DEF ListInv, InStep
  <2>2. seen \o items = SubSeq(Mine, 1, m)
    <3> DEFINE v == Mine
               n == Before
               k == limit
    <3>1. v \in Seq(Row) /\ n \in Nat /\ k \in Nat /\ m \in Nat /\ Len(v) \in Nat
      BY Shapes
    <3>2. m <= n + k /\ m <= Len(v) /\ (m = n + k \/ m = Len(v)) /\ n <= Len(v)
      BY <2>1, <3>1, Shapes
    <3>3. seen = SubSeq(v, 1, n) /\ items = SubSeq(v, n + 1, m)
      BY <2>1
    <3> HIDE DEF v, n, k, m
    <3>4. SubSeq(v, 1, n) \o SubSeq(v, n + 1, m) = SubSeq(v, 1, m)
      BY <3>1, <3>2, PageOf
    <3> QED BY <3>3, <3>4 DEF v
  <2>3. UpToHere \in Nat /\ Len(Mine) \in Nat
    BY Shapes
  <2>4. CASE UpToHere < Len(Mine)
    <3>1. m = UpToHere /\ at' = "next" /\ UpToHere' <= Len(Mine')
      BY <1>1, <1>3, <1>4, <2>3, <2>4
    <3> QED BY <1>1, <1>3, <1>4, <2>2, <3>1 DEF InStep
  <2>5. CASE ~(UpToHere < Len(Mine))
    <3>1. m = Len(Mine) /\ at' = "done"
      BY <1>1, <2>3, <2>5
    <3>2. SubSeq(Mine, 1, Len(Mine)) = Mine
      BY Shapes, SubSeqFull
    <3>3. seen' = Mine' /\ total' = Len(seen')
      BY <1>1, <1>3, <2>2, <3>1, <3>2
    <3> QED BY <3>1, <3>3 DEF InStep
  <2> QED BY <2>4, <2>5
<1> QED BY <1>1, <1>3, <1>7, <1>8, <1>9 DEF ListInv

\* What the client has had and where it is do not change.
LEMMA OthersShape ==
    ASSUME ListInv, UNCHANGED client, start' = start, table' \in Seq(Row), IsInjective(Mine'),
           inserted' \in BOOLEAN, removed' \in BOOLEAN
    PROVE  /\ ListShape' /\ Before' = Before /\ UpToHere' = UpToHere /\ Before \in Nat /\ UpToHere \in Nat
           /\ at' = at /\ seen' = seen /\ items' = items /\ total' = total
<1>1. /\ at' = at /\ limit' = limit /\ page' = page /\ seen' = seen /\ items' = items /\ total' = total
  BY DEF client
<1>2. /\ at \in {"idle", "page", "count", "next", "done"} /\ limit \in 1..MaxLimit /\ page \in Nat \ {0}
      /\ items \in Seq(Row) /\ seen \in Seq(Row)
  BY DEF ListInv, ListShape
<1>3. ListShape'
  BY <1>1, <1>2 DEF ListShape
<1> QED BY <1>1, <1>3, Shapes DEF Before, UpToHere

LEMMA AfterInsertRow ==
    ASSUME ListInv, InsertRow
    PROVE  ListInv'
<1>1. ListShape /\ UNCHANGED client /\ start' = start /\ removed' = removed
  BY DEF ListInv, InsertRow
<1>2. /\ table' \in Seq(Row) /\ IsInjective(Mine')
      /\ \/ Mine' = Mine /\ inserted' = inserted
         \/ inserted' /\ \A n \in Nat : Beyond(Mine, n) \subseteq Beyond(Mine', n)
  BY <1>1, AfterInsert
<1>3. inserted' \in BOOLEAN /\ removed' \in BOOLEAN
  BY <1>1 DEF ListShape, InsertRow
<1>4. /\ ListShape' /\ Before' = Before /\ UpToHere' = UpToHere /\ Before \in Nat /\ UpToHere \in Nat
      /\ at' = at /\ seen' = seen /\ items' = items /\ total' = total
  BY <1>1, <1>2, <1>3, OthersShape
<1>5. CASE Mine' = Mine /\ inserted' = inserted
  <2>1. ~removed => NoneLost'
    BY <1>1, <1>4, <1>5 DEF ListInv, NoneLost
  <2>2. ~inserted => NoneAgain'
    BY <1>1, <1>4, <1>5 DEF ListInv, NoneAgain
  <2>3. ~inserted /\ ~removed => InStep'
    BY <1>1, <1>4, <1>5 DEF ListInv, InStep
  <2> QED BY <1>1, <1>4, <1>5, <2>1, <2>2, <2>3 DEF ListInv
<1>6. CASE inserted' /\ \A n \in Nat : Beyond(Mine, n) \subseteq Beyond(Mine', n)
  <2>1. Beyond(Mine, Before) \subseteq Beyond(Mine', Before) /\ Beyond(Mine, UpToHere) \subseteq Beyond(Mine', UpToHere)
    BY <1>4, <1>6
  <2>2. ~removed => NoneLost'
    BY <1>1, <1>4, <2>1 DEF ListInv, NoneLost
  <2> QED BY <1>1, <1>4, <1>6, <2>2 DEF ListInv
<1> QED BY <1>2, <1>5, <1>6

LEMMA AfterRemoveRow ==
    ASSUME ListInv, RemoveRow
    PROVE  ListInv'
<1>1. ListShape /\ UNCHANGED client /\ start' = start /\ inserted' = inserted
  BY DEF ListInv, RemoveRow
<1>2. /\ table' \in Seq(Row) /\ IsInjective(Mine')
      /\ \/ Mine' = Mine /\ removed' = removed
         \/ removed' /\ \A n \in Nat : Beyond(Mine', n) \subseteq Beyond(Mine, n)
  BY <1>1, AfterRemove
<1>3. inserted' \in BOOLEAN /\ removed' \in BOOLEAN
  BY <1>1 DEF ListShape, RemoveRow
<1>4. /\ ListShape' /\ Before' = Before /\ UpToHere' = UpToHere /\ Before \in Nat /\ UpToHere \in Nat
      /\ at' = at /\ seen' = seen /\ items' = items /\ total' = total
  BY <1>1, <1>2, <1>3, OthersShape
<1>5. CASE Mine' = Mine /\ removed' = removed
  <2>1. ~removed => NoneLost'
    BY <1>1, <1>4, <1>5 DEF ListInv, NoneLost
  <2>2. ~inserted => NoneAgain'
    BY <1>1, <1>4, <1>5 DEF ListInv, NoneAgain
  <2>3. ~inserted /\ ~removed => InStep'
    BY <1>1, <1>4, <1>5 DEF ListInv, InStep
  <2> QED BY <1>1, <1>4, <1>5, <2>1, <2>2, <2>3 DEF ListInv
<1>6. CASE removed' /\ \A n \in Nat : Beyond(Mine', n) \subseteq Beyond(Mine, n)
  <2>1. Beyond(Mine', Before) \subseteq Beyond(Mine, Before) /\ Beyond(Mine', UpToHere) \subseteq Beyond(Mine, UpToHere)
    BY <1>4, <1>6
  <2>2. ~inserted => NoneAgain'
    BY <1>1, <1>4, <2>1 DEF ListInv, NoneAgain
  <2> QED BY <1>1, <1>4, <1>6, <2>2 DEF ListInv
<1> QED BY <1>2, <1>5, <1>6

\* list: what the client has and what is still ahead of it add up, after every
\* step: ListInv is inductive.
THEOREM ListInvariant == ListSpec => []ListInv
<1>1. ListInit => ListInv
  BY ListInitially
<1>2. ListInv /\ [ListNext]_listVars => ListInv'
  <2> SUFFICES ASSUME ListInv, [ListNext]_listVars PROVE ListInv'
    OBVIOUS
  <2>1. CASE UNCHANGED listVars
    <3>1. UNCHANGED client /\ start' = start /\ table' = table /\ inserted' = inserted /\ removed' = removed
      BY <2>1 DEF listVars, client
    <3>2. Mine' = Mine
      BY <3>1 DEF Mine, VisibleTo
    <3>3. /\ table' \in Seq(Row) /\ IsInjective(Mine') /\ inserted' \in BOOLEAN /\ removed' \in BOOLEAN
      BY <3>1, <3>2 DEF ListInv, ListShape
    <3>4. /\ ListShape' /\ Before' = Before /\ UpToHere' = UpToHere
          /\ at' = at /\ seen' = seen /\ items' = items /\ total' = total
      BY <3>1, <3>3, OthersShape
    <3>5. ~removed => NoneLost'
      BY <3>1, <3>2, <3>4 DEF ListInv, NoneLost
    <3>6. ~inserted => NoneAgain'
      BY <3>1, <3>2, <3>4 DEF ListInv, NoneAgain
    <3>7. ~inserted /\ ~removed => InStep'
      BY <3>1, <3>2, <3>4 DEF ListInv, InStep
    <3> QED BY <3>1, <3>4, <3>5, <3>6, <3>7 DEF ListInv
  <2> QED BY <2>1, AfterFirstPage, AfterSelectPage, AfterSelectCount, AfterListFails, AfterNextPage,
             AfterInsertRow, AfterRemoveRow DEF ListNext
<1> QED BY <1>1, <1>2, PTL DEF ListSpec

\* list: a client that has been through all pages has had every row of its
\* tenant that was there when it began and still is, for any number of rows,
\* pages and tenants, unless one of the tenant's was removed meanwhile.
THEOREM AllPagesMissNothing == ListSpec => []NothingMissed
<1>1. ListInv => NothingMissed
  BY DEF ListInv, NoneLost, NothingMissed
<1> QED BY <1>1, ListInvariant, PTL

\* list: it has no row twice unless one of its tenant's was inserted meanwhile.
THEOREM AllPagesRepeatNothing == ListSpec => []NothingTwice
<1>1. ListInv => NothingTwice
  BY DEF ListInv, NoneAgain, NothingTwice
<1> QED BY <1>1, ListInvariant, PTL

\* list: if only other tenants write, the pages are the tenant's table, in its
\* order, and total is their length.
THEOREM PagesAreTheTable == ListSpec => []PagesAddUp
<1>1. ListInv => PagesAddUp
  BY DEF ListInv, InStep, PagesAddUp, Mine
<1> QED BY <1>1, ListInvariant, PTL

(***************************************************************************)
(* Summaries.                                                              *)
(***************************************************************************)

Kind == {"sale", "purchase", "expense", "farmer", "item"}

Mark == Status \cup Category \cup {"healthy", "low", "none"}

AnyRow == [kind : Kind, tenant : Company, at : Nat, mark : Mark, amount : Nat]

\* The reader's rows of a kind.
Book(kind) == [i \in Of(kind) |-> rows[i]]
Sales == Book("sale")
Expenses == Book("expense")
Farmers == Book("farmer")

IsBook(b) == IsFiniteSet(DOMAIN b) /\ \A i \in DOMAIN b : b[i].at \in Nat /\ b[i].amount \in Nat

Amounts(b) == [i \in DOMAIN b |-> b[i].amount]
OfDay(b, d) == {i \in DOMAIN b : Day(b[i].at) = d}
OfMonth(b, m) == {i \in DOMAIN b : Month(Day(b[i].at)) = m}
DayTotal(b, d) == Sum(Amounts(b), OfDay(b, d))
MonthTotal(b, m) == Sum(Amounts(b), OfMonth(b, m))

Extends(b, c) == DOMAIN b \subseteq DOMAIN c /\ \A i \in DOMAIN b : c[i] = b[i]

LEMMA BookTotals ==
    ASSUME NEW b, IsBook(b)
    PROVE  \A S \in SUBSET DOMAIN b : IsFiniteSet(S) /\ Sum(Amounts(b), S) \in Nat
<1>1. IsFiniteSet(DOMAIN b) /\ \A i \in DOMAIN b : Amounts(b)[i] \in Nat
  BY DEF IsBook, Amounts
<1> QED BY <1>1, SumType, FS_Subset

LEMMA BooksGrow ==
    ASSUME NEW b, NEW c, IsBook(b), IsBook(c), Extends(b, c)
    PROVE  /\ \A d : DayTotal(b, d) <= DayTotal(c, d)
           /\ \A m : MonthTotal(b, m) <= MonthTotal(c, m)
<1>1. ASSUME NEW S \in SUBSET DOMAIN b, NEW T \in SUBSET DOMAIN c, S \subseteq T
      PROVE  Sum(Amounts(b), S) <= Sum(Amounts(c), T)
  <2>1. \A i \in S : Amounts(b)[i] = Amounts(c)[i]
    BY DEF Amounts, Extends
  <2>2. IsFiniteSet(S)
    BY BookTotals
  <2>3. Sum(Amounts(b), S) = Sum(Amounts(c), S)
    BY <2>1, <2>2, SumCong
  <2>4. IsFiniteSet(DOMAIN c) /\ \A i \in DOMAIN c : Amounts(c)[i] \in Nat
    BY DEF IsBook, Amounts
  <2>5. T \in SUBSET DOMAIN c /\ S \in SUBSET T
    BY <1>1
  <2>6. Sum(Amounts(c), S) <= Sum(Amounts(c), T)
    BY <2>4, <2>5, SumGrows
  <2> QED BY <2>3, <2>6
<1>2. ASSUME NEW d PROVE DayTotal(b, d) <= DayTotal(c, d)
  <2>1. OfDay(b, d) \in SUBSET DOMAIN b /\ OfDay(c, d) \in SUBSET DOMAIN c /\ OfDay(b, d) \subseteq OfDay(c, d)
    BY DEF OfDay, Extends
  <2> QED BY <1>1, <2>1 DEF DayTotal
<1>3. ASSUME NEW m PROVE MonthTotal(b, m) <= MonthTotal(c, m)
  <2>1. OfMonth(b, m) \in SUBSET DOMAIN b /\ OfMonth(c, m) \in SUBSET DOMAIN c /\ OfMonth(b, m) \subseteq OfMonth(c, m)
    BY DEF OfMonth, Extends
  <2> QED BY <1>1, <2>1 DEF MonthTotal
<1> QED BY <1>2, <1>3

\* The model's totals are those of the book.
LEMMA TotalIs ==
    ASSUME NEW kind, IsBook(Book(kind)), NEW ids \in SUBSET Of(kind)
    PROVE  Total(ids) = Sum(Amounts(Book(kind)), ids)
<1> DEFINE f == [i \in ids |-> rows[i].amount]
           g == Amounts(Book(kind))
<1>1. \A i \in ids : f[i] = g[i]
  BY DEF Amounts, Book
<1>2. IsFiniteSet(ids)
  BY BookTotals DEF Book
<1>3. DOMAIN f = ids /\ Total(ids) = SumFunction(f)
  BY DEF Total
<1> HIDE DEF f, g
<1>4. Total(ids) = Sum(f, ids)
  BY <1>3 DEF Sum, SumFunction
<1> QED BY <1>1, <1>2, <1>4, SumCong DEF g

LEMMA RangeFinite ==
    ASSUME NEW f, NEW S, IsFiniteSet(S)
    PROVE  IsFiniteSet({f[x] : x \in S})
<1> DEFINE T == {f[x] : x \in S}
           g == [x \in S |-> f[x]]
<1>1. g \in Surjection(S, T)
  BY DEF Surjection
<1> HIDE DEF g, T
<1>2. IsFiniteSet(T)
  BY <1>1, FS_Surjection
<1> QED BY <1>2 DEF T

LEMMA SumOfOne ==
    ASSUME NEW U, IsFiniteSet(U), NEW f, \A x \in U : f[x] \in Nat, NEW x \in U
    PROVE  f[x] <= Sum(f, U)
<1>1. Sum(f, U) = f[x] + Sum(f, U \ {x})
  BY SumRemove
<1>2. Sum(f, U \ {x}) \in Nat
  BY SumType
<1>3. f[x] \in Nat
  OBVIOUS
<1> QED BY <1>1, <1>2, <1>3

LEMMA Division ==
    ASSUME NEW n \in Nat, NEW D \in Nat \ {0}
    PROVE  n \div D \in Nat /\ D * (n \div D) <= n /\ n < D * (n \div D) + D
OBVIOUS

LEMMA DaysAreNat ==
    ASSUME NEW t \in Nat
    PROVE  Day(t) \in Nat /\ Month(Day(t)) \in Nat
BY SummariesAssumption, Division DEF Day, Month

LEMMA Later ==
    ASSUME NEW n \in Nat, NEW m \in Nat, n <= m, NEW D \in Nat \ {0}
    PROVE  n \div D <= m \div D
<1> DEFINE p == n \div D
           q == m \div D
<1>1. p \in Nat /\ q \in Nat /\ D * p <= n /\ m < D * q + D
  BY Division
<1> HIDE DEF p, q
<1>2. D * p < D * (q + 1)
  BY <1>1
<1>3. p < q + 1
  BY <1>1, <1>2
<1> QED BY <1>1, <1>3 DEF p, q

\* The rows of this month and the last one are not older than the trend.
LEMMA InTheTrend ==
    ASSUME NEW d \in Nat, NEW e \in Nat, Month(d) \in {Month(e), Month(e) - 1}
    PROVE  d >= e - TrendMonths * DaysPerMonth
<1> DEFINE p == Month(d)
           q == Month(e)
           D == DaysPerMonth
<1>1. D \in Nat \ {0} /\ TrendMonths \in Nat /\ TrendMonths >= 2
  BY SummariesAssumption
<1>2. p \in Nat /\ q \in Nat /\ D * p <= d /\ e < D * q + D /\ p >= q - 1
  BY <1>1, Division DEF Month
<1> HIDE DEF p, q, D
<1>3. D * p >= D * (q - 1)
  BY <1>1, <1>2
<1>4. TrendMonths * D >= 2 * D
  BY <1>1
<1>5. D * (q - 1) = D * q - D
  BY <1>1, <1>2
<1>6. d >= D * q - D /\ e < D * q + D /\ D * q \in Nat /\ TrendMonths * D \in Nat /\ D \in Nat
  BY <1>1, <1>2, <1>3, <1>5
<1>7. d >= e - TrendMonths * D
  BY <1>4, <1>6
<1> QED BY <1>7 DEF D

RowsInv ==
    /\ rows \in [Record -> AnyRow \cup {None}]
    /\ IsFiniteSet({i \in Record : rows[i] # None})
    /\ \A i \in Of("expense") : rows[i].mark \in Category
    /\ now \in Nat

LEMMA Books ==
    ASSUME RowsInv
    PROVE  /\ \A kind : IsBook(Book(kind)) /\ DOMAIN Book(kind) = Of(kind)
                        /\ \A i \in Of(kind) : Book(kind)[i] = rows[i] /\ rows[i].at \in Nat
                                               /\ rows[i].amount \in Nat
           /\ Today \in Nat /\ Month(Today) \in Nat
<1>1. ASSUME NEW kind
      PROVE  /\ IsBook(Book(kind)) /\ DOMAIN Book(kind) = Of(kind)
             /\ \A i \in Of(kind) : Book(kind)[i] = rows[i] /\ rows[i].at \in Nat /\ rows[i].amount \in Nat
  <2>1. Of(kind) \in SUBSET {i \in Record : rows[i] # None}
    BY DEF Of
  <2>2. IsFiniteSet(Of(kind))
    BY <2>1, FS_Subset DEF RowsInv
  <2>3. DOMAIN Book(kind) = Of(kind) /\ \A i \in Of(kind) : Book(kind)[i] = rows[i]
    BY DEF Book
  <2>4. ASSUME NEW i \in Of(kind) PROVE rows[i].at \in Nat /\ rows[i].amount \in Nat
    <3>1. rows[i] \in AnyRow
      BY DEF Of, RowsInv
    <3> QED BY <3>1 DEF AnyRow
  <2> QED BY <2>2, <2>3, <2>4 DEF IsBook
<1>2. Today \in Nat /\ Month(Today) \in Nat
  BY DaysAreNat DEF RowsInv, Today
<1> QED BY <1>1, <1>2

\* SUM over the rows of a day, or of a month.
LEMMA PlainTotals ==
    ASSUME RowsInv, NEW kind
    PROVE  /\ \A d : Total(OnDay(Of(kind), d)) = DayTotal(Book(kind), d) /\ DayTotal(Book(kind), d) \in Nat
           /\ \A m : Total(InMonth(Of(kind), m)) = MonthTotal(Book(kind), m)
                     /\ MonthTotal(Book(kind), m) \in Nat
<1> DEFINE b == Book(kind)
<1>1. IsBook(b) /\ DOMAIN b = Of(kind) /\ \A i \in Of(kind) : b[i] = rows[i]
  BY Books
<1>2. \A d : OnDay(Of(kind), d) = OfDay(b, d) /\ OfDay(b, d) \in SUBSET DOMAIN b
  BY <1>1 DEF OnDay, OfDay
<1>3. \A m : InMonth(Of(kind), m) = OfMonth(b, m) /\ OfMonth(b, m) \in SUBSET DOMAIN b
  BY <1>1 DEF InMonth, OfMonth
<1>4. \A S \in SUBSET Of(kind) : Total(S) = Sum(Amounts(b), S) /\ Sum(Amounts(b), S) \in Nat
  BY <1>1, TotalIs, BookTotals
<1> QED BY <1>1, <1>2, <1>3, <1>4 DEF DayTotal, MonthTotal

\* GROUP BY day: a day of the period that is not in the answer has no rows.
LEMMA SeriesIs ==
    ASSUME RowsInv, NEW d \in Int, d >= Today - SeriesDays
    PROVE  LET s == Series(Of("sale"))
           IN  EntryOr0(s, d) = DayTotal(Sales, d) /\ DayTotal(Sales, d) <= SumFunction(s) /\ SumFunction(s) \in Nat
<1> DEFINE ids == Of("sale")
           s == Series(ids)
           old == {Day(rows[i].at) : i \in Since(ids, SeriesStart)}
<1>1. IsBook(Sales) /\ DOMAIN Sales = ids /\ \A i \in ids : Sales[i] = rows[i] /\ rows[i].at \in Nat
  BY Books DEF Sales
<1>2. DOMAIN s = old /\ \A e \in old : s[e] = Total(OnDay(ids, e))
  BY DEF Series
<1>3. \A e : Total(OnDay(ids, e)) = DayTotal(Sales, e) /\ DayTotal(Sales, e) \in Nat
  BY PlainTotals DEF Sales
<1>4. d \notin old => DayTotal(Sales, d) = 0
  <2>1. d \notin old => OfDay(Sales, d) = {}
    BY <1>1 DEF OfDay, Since, SeriesStart
  <2> QED BY <2>1, SumEmpty DEF DayTotal
<1>5. IsFiniteSet(old)
  <2> DEFINE g == [i \in ids |-> Day(rows[i].at)]
             T == Since(ids, SeriesStart)
  <2>1. T \in SUBSET ids /\ \A i \in T : g[i] = Day(rows[i].at)
    BY DEF Since
  <2>2. IsFiniteSet(T)
    BY <1>1, <2>1, BookTotals
  <2> HIDE DEF T, g
  <2>3. IsFiniteSet({g[i] : i \in T})
    BY <2>2, RangeFinite
  <2>4. {g[i] : i \in T} = {Day(rows[i].at) : i \in T}
    BY <2>1
  <2> QED BY <2>3, <2>4 DEF T
<1> HIDE DEF s, old
<1>6. EntryOr0(s, d) = DayTotal(Sales, d)
  BY <1>2, <1>3, <1>4 DEF EntryOr0
<1>7. DayTotal(Sales, d) <= SumFunction(s) /\ SumFunction(s) \in Nat
  <2>1. SumFunction(s) = Sum(s, old)
    BY <1>2 DEF Sum, SumFunction
  <2>2. \A e \in old : s[e] \in Nat
    BY <1>2, <1>3
  <2>5. Sum(s, old) \in Nat
    BY <1>5, <2>2, SumType
  <2>3. CASE d \in old
    <3>1. s[d] <= Sum(s, old)
      BY <1>5, <2>2, <2>3, SumOfOne
    <3> QED BY <1>2, <1>3, <2>1, <2>3, <2>5, <3>1
  <2>4. CASE d \notin old
    BY <1>4, <2>1, <2>4, <2>5
  <2> QED BY <2>3, <2>4
<1> QED BY <1>6, <1>7 DEF s

RevenueIn(trend, m) == IF m \in DOMAIN trend THEN trend[m].revenue ELSE 0

\* GROUP BY month of the last months, of which the period has every day.
LEMMA TrendIs ==
    ASSUME RowsInv, NEW m \in {Month(Today), Month(Today) - 1}
    PROVE  RevenueIn(Trend, m) = MonthTotal(Sales, m)
<1> DEFINE earliest == Today - TrendMonths * DaysPerMonth
           recent(kind) == Since(Of(kind), earliest)
           months == {Month(Day(rows[i].at)) : i \in recent("sale") \cup recent("purchase")}
<1>1. IsBook(Sales) /\ DOMAIN Sales = Of("sale") /\ \A i \in Of("sale") : Sales[i] = rows[i]
      /\ Today \in Nat
  BY Books DEF Sales
<1>2. \A i \in Of("sale") : rows[i].at \in Nat
  BY Books
<1>3. /\ DOMAIN Trend = months
      /\ \A e \in months : Trend[e].revenue = Total(InMonth(recent("sale"), e))
  BY DEF Trend
<1>4. InMonth(recent("sale"), m) = InMonth(Of("sale"), m)
  <2>1. ASSUME NEW i \in InMonth(Of("sale"), m) PROVE i \in InMonth(recent("sale"), m)
    <3>1. i \in Of("sale") /\ Month(Day(rows[i].at)) = m /\ Day(rows[i].at) \in Nat
      BY <1>2, DaysAreNat DEF InMonth
    <3>2. Day(rows[i].at) >= earliest
      BY <1>1, <3>1, InTheTrend
    <3> QED BY <3>1, <3>2 DEF InMonth, Since
  <2> QED BY <2>1 DEF InMonth, Since
<1>5. Total(InMonth(Of("sale"), m)) = MonthTotal(Sales, m)
  BY PlainTotals DEF Sales
<1>6. m \notin months => MonthTotal(Sales, m) = 0
  <2>1. m \notin months => InMonth(recent("sale"), m) = {}
    BY DEF InMonth
  <2>2. InMonth(Of("sale"), m) = OfMonth(Sales, m)
    BY <1>1 DEF InMonth, OfMonth
  <2> QED BY <1>4, <2>1, <2>2, SumEmpty DEF MonthTotal
<1> HIDE DEF months, recent
<1> QED BY <1>3, <1>4, <1>5, <1>6 DEF RevenueIn

\* GROUP BY category, rows without one included.
LEMMA BreakdownIs ==
    ASSUME RowsInv
    PROVE  SumFunction(Breakdown) = MonthTotal(Expenses, Month(Today))
<1> DEFINE U == InMonth(Of("expense"), Month(Today))
           C == {rows[i].mark : i \in U}
           f == Amounts(Expenses)
           h == [i \in U |-> rows[i].mark]
           totals == [c \in C |-> Sum(f, Class(U, h, c))]
<1>1. /\ IsBook(Expenses) /\ DOMAIN Expenses = Of("expense")
      /\ \A i \in Of("expense") : Expenses[i] = rows[i]
  BY Books DEF Expenses
<1>2. U = OfMonth(Expenses, Month(Today)) /\ U \in SUBSET Of("expense")
  BY <1>1 DEF InMonth, OfMonth
<1>3. Categorized(U) = U
  BY <1>2 DEF Categorized, Marked, RowsInv
<1>4. IsFiniteSet(U) /\ \A i \in U : f[i] \in Nat
  <2>1. \A i \in U : f[i] = Expenses[i].amount
    BY <1>1, <1>2 DEF Amounts
  <2> QED BY <1>1, <1>2, <2>1, BookTotals DEF IsBook
<1>5. \A i \in U : h[i] = rows[i].mark /\ h[i] \in C
  OBVIOUS
<1>6. IsFiniteSet(C)
  <2> HIDE DEF U, h
  <2>1. IsFiniteSet({h[i] : i \in U})
    BY <1>4, RangeFinite
  <2>2. {h[i] : i \in U} = C
    BY <1>5
  <2> QED BY <2>1, <2>2
<1>7. \A c \in C : Total(Marked(U, {c})) = totals[c]
  <2> TAKE c \in C
  <2>1. Marked(U, {c}) = Class(U, h, c) /\ Class(U, h, c) \in SUBSET Of("expense")
    BY <1>2, <1>5 DEF Marked, Class
  <2>2. Total(Class(U, h, c)) = Sum(f, Class(U, h, c))
    <3> DEFINE S == Class(U, h, c)
    <3>1. S \in SUBSET Of("expense") /\ IsBook(Book("expense"))
      BY <1>1, <2>1 DEF Expenses
    <3> HIDE DEF S
    <3> QED BY <3>1, TotalIs DEF Expenses, S
  <2> QED BY <2>1, <2>2
<1>8. Breakdown = [c \in C |-> Total(Marked(U, {c}))]
  <2>1. Breakdown = [c \in {rows[i].mark : i \in Categorized(U)} |-> Total(Marked(Categorized(U), {c}))]
    BY DEF Breakdown
  <2> QED BY <1>3, <2>1
<1>9. Breakdown = totals /\ DOMAIN totals = C
  <2> DEFINE t(c) == Total(Marked(U, {c}))
             u(c) == Sum(f, Class(U, h, c))
  <2>1. \A c \in C : t(c) = u(c)
    BY <1>7
  <2>2. Breakdown = [c \in C |-> t(c)] /\ totals = [c \in C |-> u(c)]
    BY <1>8
  <2> HIDE DEF t, u, C, totals
  <2>3. Breakdown = totals
    BY <2>1, <2>2
  <2> QED BY <2>2, <2>3
<1>10. Sum(totals, C) = Sum(f, U)
  <2> HIDE DEF U, C, f, h
  <2> QED BY <1>4, <1>5, <1>6, SumOfClasses
<1> HIDE DEF U, C, f, h, totals
<1>11. SumFunction(Breakdown) = Sum(totals, C)
  BY <1>9 DEF SumFunction, Sum
<1> QED BY <1>2, <1>10, <1>11 DEF MonthTotal, f

\* What a SELECT tells of the reader's rows now.
Tells(f, v) ==
    /\ f = "todayRevenue" => v = DayTotal(Sales, Today)
    /\ f = "yesterdayRevenue" => v = DayTotal(Sales, Today - 1)
    /\ f = "revenueSeries" => \A d \in {Today, Today - 1} : EntryOr0(v, d) = DayTotal(Sales, d)
    /\ f = "activeFarmers" => v = Cardinality(DOMAIN Farmers)
    /\ f = "newFarmers" => v <= Cardinality(DOMAIN Farmers)
    /\ f = "incomeMtd" => v = MonthTotal(Sales, Month(Today))
    /\ f = "incomeLastMonth" => v = MonthTotal(Sales, Month(Today) - 1)
    /\ f = "monthlyTrend" => \A m \in {Month(Today), Month(Today) - 1} : RevenueIn(v, m) = MonthTotal(Sales, m)
    /\ f = "expensesMtd" => v = MonthTotal(Expenses, Month(Today))
    /\ f = "expenseBreakdown" => SumFunction(v) = MonthTotal(Expenses, Month(Today))

LEMMA SelectTells ==
    ASSUME RowsInv
    PROVE  \A f : Tells(f, Select[f])
<1>0. Today \in Nat /\ SeriesDays \in Nat /\ SeriesDays >= 1
  BY Books, SummariesAssumption
<1>1. /\ Select.todayRevenue = DayTotal(Sales, Today)
      /\ Select.yesterdayRevenue = DayTotal(Sales, Today - 1)
  BY PlainTotals DEF Select, Sales
<1>2. /\ Select.incomeMtd = MonthTotal(Sales, Month(Today))
      /\ Select.incomeLastMonth = MonthTotal(Sales, Month(Today) - 1)
      /\ Select.expensesMtd = MonthTotal(Expenses, Month(Today))
  BY PlainTotals DEF Select, Sales, Expenses
<1>3. \A d \in {Today, Today - 1} : EntryOr0(Select.revenueSeries, d) = DayTotal(Sales, d)
  <2>1. \A d \in {Today, Today - 1} : d \in Int /\ d >= Today - SeriesDays
    BY <1>0
  <2>2. Select.revenueSeries = Series(Of("sale"))
    BY DEF Select
  <2> QED BY <2>1, <2>2, SeriesIs
<1>4. \A m \in {Month(Today), Month(Today) - 1} : RevenueIn(Select.monthlyTrend, m) = MonthTotal(Sales, m)
  <2>1. Select.monthlyTrend = Trend
    BY DEF Select
  <2> QED BY <2>1, TrendIs
<1>5. SumFunction(Select.expenseBreakdown) = MonthTotal(Expenses, Month(Today))
  <2>1. Select.expenseBreakdown = Breakdown
    BY DEF Select
  <2> QED BY <2>1, BreakdownIs
<1>6. /\ Select.activeFarmers = Cardinality(DOMAIN Farmers)
      /\ Select.newFarmers <= Cardinality(DOMAIN Farmers)
  <2>1. DOMAIN Farmers = Of("farmer") /\ IsFiniteSet(Of("farmer"))
    BY Books DEF Farmers, IsBook
  <2>2. Since(Of("farmer"), Today - WeekDays) \in SUBSET Of("farmer")
    BY DEF Since
  <2>3. Cardinality(Since(Of("farmer"), Today - WeekDays)) <= Cardinality(Of("farmer"))
    BY <2>1, <2>2, FS_Subset
  <2>4. /\ Select.activeFarmers = Cardinality(Of("farmer"))
        /\ Select.newFarmers = Cardinality(Since(Of("farmer"), Today - WeekDays))
    BY DEF Select
  <2> QED BY <2>1, <2>3, <2>4
<1> QED BY <1>1, <1>2, <1>3, <1>4, <1>5, <1>6 DEF Tells

\* What an earlier SELECT's answer does not exceed, whatever was added since.
AtMost(f, v) ==
    /\ f = "todayRevenue" => v \in Nat /\ \E d \in began..ended : v <= DayTotal(Sales, d)
    /\ f = "yesterdayRevenue" => v \in Nat /\ \E d \in began..ended : v <= DayTotal(Sales, d - 1)
    /\ f = "incomeMtd" => v \in Nat /\ \E d \in began..ended : v <= MonthTotal(Sales, Month(d))
    /\ f = "expensesMtd" => v \in Nat /\ \E d \in began..ended : v <= MonthTotal(Expenses, Month(d))

Figure ==
    {"todayRevenue", "yesterdayRevenue", "activeOrders", "newOrdersSinceNoon", "lowStock",
     "activeFarmers", "newFarmers", "revenueSeries", "purchaseSeries",
     "incomeMtd", "incomeLastMonth", "expensesMtd", "expensesLastMonth", "outstanding",
     "monthlyTrend", "expenseBreakdown"}

\* A request is somewhere in its list of SELECTs.
Order ==
    /\ reading \in Seq(Figure)
    /\ reading # <<>> =>
          \E selects \in {DashboardSelects, FinanceSelects} : \E k \in 0..Len(selects) :
             /\ Len(reading) = Len(selects) - k
             /\ \A j \in 1..Len(reading) : reading[j] = selects[k + j]
             /\ DOMAIN figures = {selects[j] : j \in 1..k}

Covered ==
    /\ ~changed /\ "revenueSeries" \in DOMAIN figures /\ ended - began < SeriesDays =>
          \A f \in DOMAIN figures \cap {"todayRevenue", "yesterdayRevenue"} :
             figures[f] <= SumFunction(figures.revenueSeries)
    /\ ~changed /\ {"incomeMtd", "monthlyTrend"} \subseteq DOMAIN figures /\ Month(began) = Month(ended) =>
          figures.incomeMtd <= RevenueIn(figures.monthlyTrend, Month(ended))
    /\ ~changed /\ {"expensesMtd", "expenseBreakdown"} \subseteq DOMAIN figures /\ Month(began) = Month(ended) =>
          figures.expensesMtd <= SumFunction(figures.expenseBreakdown)

Days == began \in Nat /\ ended \in Nat /\ began <= ended /\ ended <= Today

SummaryInv ==
    /\ RowsInv /\ Order /\ Days
    /\ added \in BOOLEAN /\ changed \in BOOLEAN
    /\ reading # <<>> /\ Quiet /\ ended = Today => \A f \in DOMAIN figures : Tells(f, figures[f])
    /\ reading # <<>> /\ ~changed => \A f \in DOMAIN figures : AtMost(f, figures[f])
    /\ Covered
    /\ QuietDashboard /\ QuietFinance

LEMMA SummaryInitially ==
    ASSUME SummaryInit
    PROVE  SummaryInv
<1>1. RowsInv
  <2>1. \A i \in Record : rows[i] = None
    BY DEF SummaryInit
  <2>2. {i \in Record : rows[i] # None} = {} /\ Of("expense") = {}
    BY <2>1 DEF Of
  <2>3. rows \in [Record -> AnyRow \cup {None}] /\ now \in Nat
    BY SummariesAssumption DEF SummaryInit
  <2> QED BY <2>2, <2>3, FS_EmptySet DEF RowsInv
<1>2. reading = <<>> /\ figures = <<>> /\ began = 0 /\ ended = 0 /\ added = FALSE /\ changed = FALSE
  BY DEF SummaryInit
<1>3. Days
  BY <1>1, <1>2, Books DEF Days
<1>4. Order
  BY <1>2, EmptySeq DEF Order
<1>5. DOMAIN figures = {}
  BY <1>2
<1>6. Covered
  BY <1>5 DEF Covered
<1>7. "todayRevenue" \in ToSet(DashboardSelects) /\ "incomeMtd" \in ToSet(FinanceSelects)
  BY DEF DashboardSelects, FinanceSelects, ToSet
<1>8. QuietDashboard /\ QuietFinance
  BY <1>5, <1>7 DEF QuietDashboard, QuietFinance, Answered
<1> QED BY <1>1, <1>2, <1>3, <1>4, <1>6, <1>8 DEF SummaryInv

\* Which SELECTs are still to come.
LEMMA InOrder ==
    ASSUME Order, reading # <<>>
    PROVE  /\ Head(reading) \in {"todayRevenue", "yesterdayRevenue"} => "revenueSeries" \notin DOMAIN figures
           /\ Head(reading) = "incomeMtd" => "monthlyTrend" \notin DOMAIN figures
           /\ Head(reading) = "expensesMtd" => "expenseBreakdown" \notin DOMAIN figures
           /\ Tail(reading) \in Seq(Figure)
           /\ Tail(reading) # <<>> =>
                 \E selects \in {DashboardSelects, FinanceSelects} : \E k \in 0..Len(selects) :
                    /\ Len(Tail(reading)) = Len(selects) - k
                    /\ \A j \in 1..Len(Tail(reading)) : Tail(reading)[j] = selects[k + j]
                    /\ DOMAIN figures \cup {Head(reading)} = {selects[j] : j \in 1..k}
<1>1. PICK selects \in {DashboardSelects, FinanceSelects} : \E k \in 0..Len(selects) :
             /\ Len(reading) = Len(selects) - k
             /\ \A j \in 1..Len(reading) : reading[j] = selects[k + j]
             /\ DOMAIN figures = {selects[j] : j \in 1..k}
  BY DEF Order
<1>2. PICK k \in 0..Len(selects) :
             /\ Len(reading) = Len(selects) - k
             /\ \A j \in 1..Len(reading) : reading[j] = selects[k + j]
             /\ DOMAIN figures = {selects[j] : j \in 1..k}
  BY <1>1
<1>3. reading \in Seq(Figure) /\ Len(selects) \in {7, 9}
  BY <1>1 DEF Order, DashboardSelects, FinanceSelects
<1>4. Len(reading) \in Nat \ {0} /\ Head(reading) = reading[1]
  BY <1>3, EmptySeq
<1>5. k \in Nat /\ k + 1 \in 1..Len(selects) /\ Head(reading) = selects[k + 1]
  BY <1>2, <1>3, <1>4
<1>6. /\ Tail(reading) \in Seq(Figure) /\ Len(Tail(reading)) = Len(reading) - 1
      /\ \A j \in 1..Len(Tail(reading)) : Tail(reading)[j] = reading[j + 1]
  BY <1>3, HeadTailProperties
<1>7. /\ Len(Tail(reading)) = Len(selects) - (k + 1)
      /\ \A j \in 1..Len(Tail(reading)) : Tail(reading)[j] = selects[(k + 1) + j]
  <2>1. ASSUME NEW j \in 1..Len(Tail(reading)) PROVE Tail(reading)[j] = selects[(k + 1) + j]
    <3>1. j + 1 \in 1..Len(reading) /\ k + (j + 1) = (k + 1) + j
      BY <1>4, <1>5, <1>6
    <3> QED BY <1>2, <1>6, <3>1
  <2>2. Len(Tail(reading)) = Len(selects) - (k + 1)
    BY <1>2, <1>3, <1>5, <1>6
  <2> QED BY <2>1, <2>2
<1>8. DOMAIN figures \cup {Head(reading)} = {selects[j] : j \in 1..(k + 1)}
  <2>1. \A j : j \in 1..(k + 1) <=> j \in 1..k \/ j = k + 1
    BY <1>5
  <2> QED BY <1>2, <1>5, <2>1
<1>9. k + 1 \in 0..Len(selects)
  BY <1>3, <1>5
<1>10. /\ Head(reading) \in {"todayRevenue", "yesterdayRevenue"} => "revenueSeries" \notin DOMAIN figures
       /\ Head(reading) = "incomeMtd" => "monthlyTrend" \notin DOMAIN figures
       /\ Head(reading) = "expensesMtd" => "expenseBreakdown" \notin DOMAIN figures
  <2>1. CASE selects = DashboardSelects
    <3>1. /\ Len(selects) = 9 /\ selects[1] = "todayRevenue" /\ selects[2] = "yesterdayRevenue"
          /\ selects[3] = "activeOrders" /\ selects[4] = "newOrdersSinceNoon" /\ selects[5] = "lowStock"
          /\ selects[6] = "activeFarmers" /\ selects[7] = "newFarmers" /\ selects[8] = "revenueSeries"
          /\ selects[9] = "purchaseSeries"
      BY <2>1 DEF DashboardSelects
    <3>2. \A j \in 1..9 : selects[j] \in {"todayRevenue", "yesterdayRevenue"} => j <= 2
      BY <3>1
    <3>3. \A j \in 1..9 : selects[j] = "revenueSeries" => j = 8
      BY <3>1
    <3>4. \A j \in 1..9 : selects[j] # "incomeMtd" /\ selects[j] # "expensesMtd"
      BY <3>1
    <3> QED BY <1>2, <1>5, <3>1, <3>2, <3>3, <3>4
  <2>2. CASE selects = FinanceSelects
    <3>1. /\ Len(selects) = 7 /\ selects[1] = "incomeMtd" /\ selects[2] = "incomeLastMonth"
          /\ selects[3] = "expensesMtd" /\ selects[4] = "expensesLastMonth" /\ selects[5] = "outstanding"
          /\ selects[6] = "monthlyTrend" /\ selects[7] = "expenseBreakdown"
      BY <2>2 DEF FinanceSelects
    <3>2. \A j \in 1..7 : selects[j] \notin {"todayRevenue", "yesterdayRevenue"}
      BY <3>1
    <3>3. \A j \in 1..7 : /\ selects[j] = "incomeMtd" => j = 1
                          /\ selects[j] = "expensesMtd" => j = 3
      BY <3>1
    <3>4. \A j \in 1..7 : /\ selects[j] = "monthlyTrend" => j = 6
                          /\ selects[j] = "expenseBreakdown" => j = 7
      BY <3>1
    <3> QED BY <1>2, <1>5, <3>1, <3>2, <3>3, <3>4
  <2> QED BY <1>1, <2>1, <2>2
<1> QED BY <1>1, <1>6, <1>7, <1>8, <1>9, <1>10

\* The books as they were, on the day it was.
LEMMA SameTells ==
    ASSUME Sales' = Sales, Expenses' = Expenses, Farmers' = Farmers, Today' = Today
    PROVE  \A f, v : Tells(f, v) => Tells(f, v)'
BY DEF Tells

LEMMA GrownAtMost ==
    ASSUME IsBook(Sales), IsBook(Expenses), IsBook(Sales)', IsBook(Expenses)',
           Extends(Sales, Sales'), Extends(Expenses, Expenses'),
           began' = began, began \in Nat, ended \in Nat, ended' \in Nat, ended <= ended',
           \A d : DayTotal(Sales, d) \in Nat /\ DayTotal(Sales, d)' \in Nat,
           \A m : /\ MonthTotal(Sales, m) \in Nat /\ MonthTotal(Sales, m)' \in Nat
                  /\ MonthTotal(Expenses, m) \in Nat /\ MonthTotal(Expenses, m)' \in Nat
    PROVE  \A f, v : AtMost(f, v) => AtMost(f, v)'
<1>1. \A d \in began..ended : d \in began'..ended'
  OBVIOUS
<1>2. \A d : DayTotal(Sales, d) <= DayTotal(Sales', d)
  BY BooksGrow
<1>3. \A m : /\ MonthTotal(Sales, m) <= MonthTotal(Sales', m)
             /\ MonthTotal(Expenses, m) <= MonthTotal(Expenses', m)
  BY BooksGrow
<1> TAKE f, v
<1> SUFFICES ASSUME AtMost(f, v) PROVE AtMost(f, v)'
  OBVIOUS
<1>4. f = "todayRevenue" => v \in Nat /\ \E d \in began'..ended' : v <= DayTotal(Sales', d)
  BY <1>1, <1>2 DEF AtMost
<1>5. f = "yesterdayRevenue" => v \in Nat /\ \E d \in began'..ended' : v <= DayTotal(Sales', d - 1)
  BY <1>1, <1>2 DEF AtMost
<1>6. f = "incomeMtd" => v \in Nat /\ \E d \in began'..ended' : v <= MonthTotal(Sales', Month(d))
  BY <1>1, <1>3 DEF AtMost
<1>7. f = "expensesMtd" => v \in Nat /\ \E d \in began'..ended' : v <= MonthTotal(Expenses', Month(d))
  BY <1>1, <1>3 DEF AtMost
<1> QED BY <1>4, <1>5, <1>6, <1>7 DEF AtMost

\* What is told today does not exceed what is there today.
LEMMA TellsAtMost ==
    ASSUME RowsInv, Days, Sales' = Sales, Expenses' = Expenses, began' = began, ended' = Today
    PROVE  \A f, v : Tells(f, v) => AtMost(f, v)'
<1>1. Today \in Nat /\ Today \in began'..ended' /\ Month(Today) \in Nat
  BY Books DEF Days
<1>2. /\ \A d : DayTotal(Sales, d) \in Nat
      /\ \A m : MonthTotal(Sales, m) \in Nat /\ MonthTotal(Expenses, m) \in Nat
  BY PlainTotals DEF Sales, Expenses
<1> TAKE f, v
<1> SUFFICES ASSUME Tells(f, v) PROVE AtMost(f, v)'
  OBVIOUS
<1>3. /\ f = "todayRevenue" => v = DayTotal(Sales, Today)
      /\ f = "yesterdayRevenue" => v = DayTotal(Sales, Today - 1)
      /\ f = "incomeMtd" => v = MonthTotal(Sales, Month(Today))
      /\ f = "expensesMtd" => v = MonthTotal(Expenses, Month(Today))
  BY DEF Tells
<1>4. f = "todayRevenue" => v \in Nat /\ \E d \in began'..ended' : v <= DayTotal(Sales', d)
  <2> SUFFICES ASSUME f = "todayRevenue" PROVE v \in Nat /\ v <= DayTotal(Sales, Today)
    BY <1>1
  <2> QED BY <1>2, <1>3
<1>5. f = "yesterdayRevenue" => v \in Nat /\ \E d \in began'..ended' : v <= DayTotal(Sales', d - 1)
  <2> SUFFICES ASSUME f = "yesterdayRevenue" PROVE v \in Nat /\ v <= DayTotal(Sales, Today - 1)
    BY <1>1
  <2> QED BY <1>2, <1>3
<1>6. f = "incomeMtd" => v \in Nat /\ \E d \in began'..ended' : v <= MonthTotal(Sales', Month(d))
  <2> SUFFICES ASSUME f = "incomeMtd" PROVE v \in Nat /\ v <= MonthTotal(Sales, Month(Today))
    BY <1>1
  <2> QED BY <1>2, <1>3
<1>7. f = "expensesMtd" => v \in Nat /\ \E d \in began'..ended' : v <= MonthTotal(Expenses', Month(d))
  <2> SUFFICES ASSUME f = "expensesMtd" PROVE v \in Nat /\ v <= MonthTotal(Expenses, Month(Today))
    BY <1>1
  <2> QED BY <1>2, <1>3
<1> QED BY <1>4, <1>5, <1>6, <1>7 DEF AtMost

LEMMA MonthsInOrder ==
    ASSUME NEW d \in Nat, NEW e \in Nat, d <= e
    PROVE  Month(d) <= Month(e) /\ Month(d) \in Nat /\ Month(e) \in Nat
BY SummariesAssumption, Later, Division DEF Month

\* A SELECT that comes after others covers what they have told.
LEMMA LaterCovers ==
    ASSUME RowsInv, Days
    PROVE  /\ \A v : /\ Today - began < SeriesDays
                     /\ AtMost("todayRevenue", v) \/ AtMost("yesterdayRevenue", v)
                     => v <= SumFunction(Select.revenueSeries)
           /\ \A v : Month(began) = Month(Today) /\ AtMost("incomeMtd", v)
                     => v <= RevenueIn(Select.monthlyTrend, Month(Today))
           /\ \A v : Month(began) = Month(Today) /\ AtMost("expensesMtd", v)
                     => v <= SumFunction(Select.expenseBreakdown)
<1>1. /\ Today \in Nat /\ began \in Nat /\ ended \in Nat /\ ended <= Today /\ SeriesDays \in Nat
      /\ \A d : DayTotal(Sales, d) \in Nat
  BY Books, PlainTotals, SummariesAssumption DEF Days, Sales
<1>2. ASSUME NEW v, Today - began < SeriesDays, AtMost("todayRevenue", v) \/ AtMost("yesterdayRevenue", v)
      PROVE  v <= SumFunction(Select.revenueSeries)
  <2>1. v \in Nat /\ \E d \in Int : d >= Today - SeriesDays /\ v <= DayTotal(Sales, d)
    <3>1. CASE AtMost("todayRevenue", v)
      <4>1. PICK d \in began..ended : v \in Nat /\ v <= DayTotal(Sales, d)
        BY <3>1 DEF AtMost
      <4>2. d \in Int /\ d >= Today - SeriesDays
        BY <1>1, <1>2
      <4> QED BY <4>1, <4>2
    <3>2. CASE AtMost("yesterdayRevenue", v)
      <4>1. PICK d \in began..ended : v \in Nat /\ v <= DayTotal(Sales, d - 1)
        BY <3>2 DEF AtMost
      <4>2. d - 1 \in Int /\ d - 1 >= Today - SeriesDays
        BY <1>1, <1>2
      <4> QED BY <4>1, <4>2
    <3> QED BY <1>2, <3>1, <3>2
  <2>2. PICK d \in Int : d >= Today - SeriesDays /\ v <= DayTotal(Sales, d)
    BY <2>1
  <2>3. DayTotal(Sales, d) <= SumFunction(Select.revenueSeries) /\ SumFunction(Select.revenueSeries) \in Nat
    <3>1. Select.revenueSeries = Series(Of("sale"))
      BY DEF Select
    <3> QED BY <2>2, <3>1, SeriesIs
  <2> QED BY <1>1, <2>1, <2>2, <2>3
<1>3. ASSUME Month(began) = Month(Today) PROVE \A d \in began..ended : Month(d) = Month(Today)
  <2> TAKE d \in began..ended
  <2>1. d \in Nat /\ began <= d /\ d <= Today
    BY <1>1
  <2>2. Month(began) <= Month(d) /\ Month(d) <= Month(Today) /\ Month(d) \in Nat /\ Month(Today) \in Nat
    BY <1>1, <2>1, MonthsInOrder
  <2> QED BY <1>1, <1>3, <2>2
<1>4. RevenueIn(Select.monthlyTrend, Month(Today)) = MonthTotal(Sales, Month(Today))
      /\ SumFunction(Select.expenseBreakdown) = MonthTotal(Expenses, Month(Today))
  BY <1>1, SelectTells DEF Tells
<1>5. ASSUME NEW v, Month(began) = Month(Today), AtMost("incomeMtd", v)
      PROVE  v <= RevenueIn(Select.monthlyTrend, Month(Today))
  BY <1>3, <1>4, <1>5 DEF AtMost
<1>6. ASSUME NEW v, Month(began) = Month(Today), AtMost("expensesMtd", v)
      PROVE  v <= SumFunction(Select.expenseBreakdown)
  BY <1>3, <1>4, <1>6 DEF AtMost
<1> QED BY <1>2, <1>5, <1>6

\* Figures that all tell of the same day tell one story.
LEMMA OneStory ==
    ASSUME NEW fs, \A f \in DOMAIN fs : Tells(f, fs[f])
    PROVE  /\ DOMAIN fs = ToSet(DashboardSelects) =>
                 /\ fs.todayRevenue = EntryOr0(fs.revenueSeries, Today)
                 /\ fs.yesterdayRevenue = EntryOr0(fs.revenueSeries, Today - 1)
                 /\ fs.newFarmers <= fs.activeFarmers
           /\ DOMAIN fs = ToSet(FinanceSelects) =>
                 /\ fs.incomeMtd = RevenueIn(fs.monthlyTrend, Month(Today))
                 /\ fs.incomeLastMonth = RevenueIn(fs.monthlyTrend, Month(Today) - 1)
                 /\ fs.expensesMtd = SumFunction(fs.expenseBreakdown)
<1>1. ASSUME DOMAIN fs = ToSet(DashboardSelects)
      PROVE  /\ fs.todayRevenue = EntryOr0(fs.revenueSeries, Today)
             /\ fs.yesterdayRevenue = EntryOr0(fs.revenueSeries, Today - 1)
             /\ fs.newFarmers <= fs.activeFarmers
  <2>1. {"todayRevenue", "yesterdayRevenue", "revenueSeries", "activeFarmers", "newFarmers"}
        \subseteq ToSet(DashboardSelects)
    BY DEF ToSet, DashboardSelects
  <2>2. /\ Tells("todayRevenue", fs.todayRevenue) /\ Tells("yesterdayRevenue", fs.yesterdayRevenue)
        /\ Tells("revenueSeries", fs.revenueSeries)
        /\ Tells("activeFarmers", fs.activeFarmers) /\ Tells("newFarmers", fs.newFarmers)
    BY <1>1, <2>1
  <2> QED BY <2>2 DEF Tells
<1>2. ASSUME DOMAIN fs = ToSet(FinanceSelects)
      PROVE  /\ fs.incomeMtd = RevenueIn(fs.monthlyTrend, Month(Today))
             /\ fs.incomeLastMonth = RevenueIn(fs.monthlyTrend, Month(Today) - 1)
             /\ fs.expensesMtd = SumFunction(fs.expenseBreakdown)
  <2>1. {"incomeMtd", "incomeLastMonth", "monthlyTrend", "expensesMtd", "expenseBreakdown"}
        \subseteq ToSet(FinanceSelects)
    BY DEF ToSet, FinanceSelects
  <2>2. /\ Tells("incomeMtd", fs.incomeMtd) /\ Tells("incomeLastMonth", fs.incomeLastMonth)
        /\ Tells("monthlyTrend", fs.monthlyTrend)
        /\ Tells("expensesMtd", fs.expensesMtd) /\ Tells("expenseBreakdown", fs.expenseBreakdown)
    BY <1>2, <2>1
  <2> QED BY <2>2 DEF Tells
<1> QED BY <1>1, <1>2

LEMMA AfterNextSelect ==
    ASSUME SummaryInv, NextSelect
    PROVE  SummaryInv'
<1> DEFINE h == Head(reading)
<1>1. /\ reading # <<>> /\ reading' = Tail(reading) /\ ended' = Today /\ rows' = rows /\ now' = now
      /\ began' = began /\ added' = added /\ changed' = changed
      /\ DOMAIN figures' = DOMAIN figures \cup {h}
      /\ \A f \in DOMAIN figures' : figures'[f] = IF f = h THEN Select[f] ELSE figures[f]
  BY DEF NextSelect
<1>2. /\ RowsInv /\ Order /\ Days /\ added \in BOOLEAN /\ changed \in BOOLEAN
      /\ Quiet /\ ended = Today => \A f \in DOMAIN figures : Tells(f, figures[f])
      /\ ~changed => \A f \in DOMAIN figures : AtMost(f, figures[f])
      /\ Covered
  BY <1>1 DEF SummaryInv
<1>3. /\ Sales' = Sales /\ Expenses' = Expenses /\ Farmers' = Farmers /\ Today' = Today
      /\ RowsInv' /\ Today \in Nat
  <2>1. Sales' = Sales /\ Expenses' = Expenses /\ Farmers' = Farmers /\ Today' = Today
    BY <1>1 DEF Sales, Expenses, Farmers, Book, Of, Today
  <2>2. RowsInv'
    BY <1>1, <1>2 DEF RowsInv, Of
  <2> QED BY <1>2, <2>1, <2>2, Books
<1>4. Days' /\ ended <= ended' /\ (Quiet' => Quiet /\ ended = Today)
  BY <1>1, <1>2, <1>3 DEF Days, Quiet
<1> HIDE DEF h
<1>5. Order'
  <2>1. /\ Tail(reading) \in Seq(Figure)
        /\ Tail(reading) # <<>> =>
              \E selects \in {DashboardSelects, FinanceSelects} : \E k \in 0..Len(selects) :
                 /\ Len(Tail(reading)) = Len(selects) - k
                 /\ \A j \in 1..Len(Tail(reading)) : Tail(reading)[j] = selects[k + j]
                 /\ DOMAIN figures \cup {h} = {selects[j] : j \in 1..k}
    BY <1>1, <1>2, InOrder DEF h
  <2> QED BY <1>1, <2>1 DEF Order
<1>6. \A f, v : Tells(f, v) => Tells(f, v)'
  BY <1>3, SameTells
<1>7. \A f, v : AtMost(f, v) => AtMost(f, v)'
  <2>1. /\ \A d : DayTotal(Sales, d) \in Nat
        /\ \A m : MonthTotal(Sales, m) \in Nat /\ MonthTotal(Expenses, m) \in Nat
    BY <1>2, PlainTotals DEF Sales, Expenses
  <2>2. IsBook(Sales) /\ IsBook(Expenses)
    BY <1>2, Books DEF Sales, Expenses
  <2>3. Extends(Sales, Sales') /\ Extends(Expenses, Expenses')
    BY <1>3 DEF Extends
  <2>4. began \in Nat /\ ended \in Nat /\ ended' \in Nat /\ ended <= ended'
    BY <1>1, <1>2, <1>3, <1>4 DEF Days
  <2> QED BY <1>1, <1>3, <2>1, <2>2, <2>3, <2>4, GrownAtMost
<1>8. PICK told : told = figures'
  OBVIOUS
<1>9. PICK sel : sel = Select
  OBVIOUS
<1>10. /\ DOMAIN told = DOMAIN figures \cup {h}
       /\ \A f \in DOMAIN told : told[f] = IF f = h THEN sel[f] ELSE figures[f]
  BY <1>1, <1>8, <1>9
<1>11. \A f : Tells(f, sel[f]) /\ Tells(f, sel[f])'
  BY <1>2, <1>6, <1>9, SelectTells
<1>12. Quiet' => \A f \in DOMAIN told : Tells(f, told[f]) /\ Tells(f, told[f])'
  BY <1>2, <1>4, <1>6, <1>10, <1>11
<1>13. ~changed' => \A f \in DOMAIN told : AtMost(f, told[f])'
  <2>1. \A f, v : Tells(f, v) => AtMost(f, v)'
    BY <1>1, <1>2, <1>3, TellsAtMost
  <2> QED BY <1>1, <1>2, <1>7, <1>10, <1>11, <2>1
<1>14. Covered'
  <2>1. /\ \A v : /\ Today - began < SeriesDays
                  /\ AtMost("todayRevenue", v) \/ AtMost("yesterdayRevenue", v)
                  => v <= SumFunction(sel.revenueSeries)
        /\ \A v : Month(began) = Month(Today) /\ AtMost("incomeMtd", v)
                  => v <= RevenueIn(sel.monthlyTrend, Month(Today))
        /\ \A v : Month(began) = Month(Today) /\ AtMost("expensesMtd", v)
                  => v <= SumFunction(sel.expenseBreakdown)
    BY <1>2, <1>9, LaterCovers
  <2>2. /\ h \in {"todayRevenue", "yesterdayRevenue"} => "revenueSeries" \notin DOMAIN figures
        /\ h = "incomeMtd" => "monthlyTrend" \notin DOMAIN figures
        /\ h = "expensesMtd" => "expenseBreakdown" \notin DOMAIN figures
    BY <1>1, <1>2, InOrder DEF h
  <2>3. ASSUME ~changed, "revenueSeries" \in DOMAIN told, Today - began < SeriesDays,
               NEW f \in DOMAIN told, f \in {"todayRevenue", "yesterdayRevenue"}
        PROVE  told[f] <= SumFunction(told.revenueSeries)
    <3>1. f # h /\ f \in DOMAIN figures /\ told[f] = figures[f]
      BY <1>10, <2>2, <2>3
    <3>2. CASE h = "revenueSeries"
      <4>1. told.revenueSeries = sel.revenueSeries /\ AtMost(f, told[f])
        BY <1>2, <1>10, <2>3, <3>1, <3>2
      <4> QED BY <2>1, <2>3, <4>1
    <3>3. CASE h # "revenueSeries"
      <4>1. "revenueSeries" \in DOMAIN figures /\ told.revenueSeries = figures.revenueSeries
        BY <1>10, <2>3, <3>3
      <4>2. ended - began < SeriesDays
        BY <1>2, <1>3, <2>3, SummariesAssumption DEF Days
      <4> QED BY <1>2, <2>3, <3>1, <4>1, <4>2 DEF Covered
    <3> QED BY <3>2, <3>3
  <2>4. Month(began) = Month(Today) => Month(began) = Month(ended)
    <3>1. began \in Nat /\ ended \in Nat /\ began <= ended /\ ended <= Today /\ Today \in Nat
      BY <1>2, <1>3 DEF Days
    <3>2. Month(began) <= Month(ended) /\ Month(ended) <= Month(Today)
          /\ Month(began) \in Nat /\ Month(ended) \in Nat /\ Month(Today) \in Nat
      BY <3>1, MonthsInOrder
    <3> QED BY <3>2
  <2>5. ASSUME ~changed, {"incomeMtd", "monthlyTrend"} \subseteq DOMAIN told, Month(began) = Month(Today)
        PROVE  told.incomeMtd <= RevenueIn(told.monthlyTrend, Month(Today))
    <3>1. h # "incomeMtd" /\ "incomeMtd" \in DOMAIN figures /\ told.incomeMtd = figures.incomeMtd
      BY <1>10, <2>2, <2>5
    <3>2. CASE h = "monthlyTrend"
      <4>1. told.monthlyTrend = sel.monthlyTrend /\ AtMost("incomeMtd", told.incomeMtd)
        BY <1>2, <1>10, <2>5, <3>1, <3>2
      <4> QED BY <2>1, <2>5, <4>1
    <3>3. CASE h # "monthlyTrend"
      <4>1. "monthlyTrend" \in DOMAIN figures /\ told.monthlyTrend = figures.monthlyTrend
        BY <1>10, <2>5, <3>3
      <4> QED BY <1>2, <2>4, <2>5, <3>1, <4>1 DEF Covered
    <3> QED BY <3>2, <3>3
  <2>6. ASSUME ~changed, {"expensesMtd", "expenseBreakdown"} \subseteq DOMAIN told, Month(began) = Month(Today)
        PROVE  told.expensesMtd <= SumFunction(told.expenseBreakdown)
    <3>1. h # "expensesMtd" /\ "expensesMtd" \in DOMAIN figures /\ told.expensesMtd = figures.expensesMtd
      BY <1>10, <2>2, <2>6
    <3>2. CASE h = "expenseBreakdown"
      <4>1. told.expenseBreakdown = sel.expenseBreakdown /\ AtMost("expensesMtd", told.expensesMtd)
        BY <1>2, <1>10, <2>6, <3>1, <3>2
      <4> QED BY <2>1, <2>6, <4>1
    <3>3. CASE h # "expenseBreakdown"
      <4>1. "expenseBreakdown" \in DOMAIN figures /\ told.expenseBreakdown = figures.expenseBreakdown
        BY <1>10, <2>6, <3>3
      <4> QED BY <1>2, <2>4, <2>6, <3>1, <4>1 DEF Covered
    <3> QED BY <3>2, <3>3
  <2> QED BY <1>1, <1>8, <2>3, <2>5, <2>6 DEF Covered
<1>15. Quiet' => (\A f \in DOMAIN figures : Tells(f, figures[f]))'
  BY <1>8, <1>12
<1>16. ~changed' => (\A f \in DOMAIN figures : AtMost(f, figures[f]))'
  BY <1>8, <1>13
<1>17. QuietDashboard' /\ QuietFinance'
  <2>1. \A m : Revenue(m)' = RevenueIn(told.monthlyTrend, m)
    BY <1>8 DEF Revenue, RevenueIn
  <2>2. Quiet' =>
           /\ DOMAIN told = ToSet(DashboardSelects) =>
                 /\ told.todayRevenue = EntryOr0(told.revenueSeries, ended')
                 /\ told.yesterdayRevenue = EntryOr0(told.revenueSeries, ended' - 1)
                 /\ told.newFarmers <= told.activeFarmers
           /\ DOMAIN told = ToSet(FinanceSelects) =>
                 /\ told.incomeMtd = RevenueIn(told.monthlyTrend, Month(ended'))
                 /\ told.incomeLastMonth = RevenueIn(told.monthlyTrend, Month(ended') - 1)
                 /\ told.expensesMtd = SumFunction(told.expenseBreakdown)
    BY <1>1, <1>12, OneStory
  <2> QED BY <1>8, <2>1, <2>2 DEF QuietDashboard, QuietFinance, Answered
<1> QED BY <1>1, <1>2, <1>3, <1>4, <1>5, <1>14, <1>15, <1>16, <1>17 DEF SummaryInv

\* Figures that nothing has been read into.
LEMMA NoFigures ==
    ASSUME DOMAIN figures' = {}
    PROVE  Covered' /\ QuietDashboard' /\ QuietFinance'
<1>1. "todayRevenue" \in ToSet(DashboardSelects) /\ "incomeMtd" \in ToSet(FinanceSelects)
  BY DEF DashboardSelects, FinanceSelects, ToSet
<1>2. Covered'
  BY DEF Covered
<1> QED BY <1>1, <1>2 DEF QuietDashboard, QuietFinance, Answered

\* What does not write leaves the books alone.
LEMMA SameBooks ==
    ASSUME rows' = rows
    PROVE  /\ Sales' = Sales /\ Expenses' = Expenses /\ Farmers' = Farmers
           /\ RowsInv /\ now' \in Nat => RowsInv'
BY DEF Sales, Expenses, Farmers, Book, Of, RowsInv

LEMMA AfterGetSummary ==
    ASSUME SummaryInv, GetSummary
    PROVE  SummaryInv'
<1>1. /\ reading' \in {DashboardSelects, FinanceSelects} /\ figures' = <<>> /\ rows' = rows /\ now' = now
      /\ began' = Today /\ ended' = Today /\ added' = FALSE /\ changed' = FALSE
  BY DEF GetSummary
<1>2. RowsInv' /\ Today' = Today /\ Today \in Nat
  <2>1. RowsInv /\ now \in Nat
    BY DEF SummaryInv, RowsInv
  <2> QED BY <1>1, <2>1, SameBooks, Books DEF Today
<1>3. Days'
  BY <1>1, <1>2 DEF Days
<1>4. DOMAIN figures' = {}
  BY <1>1
<1>5. Order'
  <2>1. PICK selects \in {DashboardSelects, FinanceSelects} : reading' = selects
    BY <1>1
  <2>4. selects \in Seq(Figure)
    <3>1. DashboardSelects \in Seq(Figure)
      BY DEF DashboardSelects, Figure
    <3>2. FinanceSelects \in Seq(Figure)
      BY DEF FinanceSelects, Figure
    <3> QED BY <3>1, <3>2
  <2>2. /\ selects \in Seq(Figure) /\ 0 \in 0..Len(selects)
        /\ Len(selects) = Len(selects) - 0 /\ \A j \in 1..Len(selects) : selects[j] = selects[0 + j]
    BY <2>4, LenProperties
  <2>3. {selects[j] : j \in 1..0} = {}
    OBVIOUS
  <2> QED BY <1>4, <2>1, <2>2, <2>3 DEF Order
<1>6. added' \in BOOLEAN /\ changed' \in BOOLEAN
  BY <1>1
<1> QED BY <1>2, <1>3, <1>4, <1>5, <1>6, NoFigures DEF SummaryInv

LEMMA AfterSelectFails ==
    ASSUME SummaryInv, SelectFails
    PROVE  SummaryInv'
<1>1. /\ reading' = <<>> /\ figures' = <<>> /\ rows' = rows /\ now' = now
      /\ began' = began /\ ended' = ended /\ added' = added /\ changed' = changed
  BY DEF SelectFails
<1>2. RowsInv' /\ Today' = Today
  <2>1. RowsInv /\ now \in Nat
    BY DEF SummaryInv, RowsInv
  <2> QED BY <1>1, <2>1, SameBooks DEF Today
<1>3. Days'
  BY <1>1, <1>2 DEF SummaryInv, Days
<1>4. DOMAIN figures' = {}
  BY <1>1
<1>5. Order'
  BY <1>1, EmptySeq DEF Order
<1>6. added' \in BOOLEAN /\ changed' \in BOOLEAN
  BY <1>1 DEF SummaryInv
<1> QED BY <1>1, <1>2, <1>3, <1>4, <1>5, <1>6, NoFigures DEF SummaryInv

\* A write, seen from the reader's books: whose rows, unless it is noted, stay.
LEMMA WriteIs ==
    ASSUME SummaryInv, AddRow \/ ChangeRow \/ RemoveRecord
    PROVE  /\ \E i \in Record, row \in AnyRow \cup {None} :
                 /\ rows' = [rows EXCEPT ![i] = row]
                 /\ row # None /\ row.kind = "expense" => row.mark \in Category
                 /\ reading # <<>> /\ ~changed' =>
                       rows[i] = None \/ (rows[i].tenant # Reader /\ (row = None \/ row.tenant # Reader))
                 /\ reading # <<>> /\ ~changed' /\ ~added' => row = None \/ row.tenant # Reader
           /\ UNCHANGED <<now, request>>
           /\ added' \in BOOLEAN /\ changed' \in BOOLEAN
           /\ added => added'
           /\ changed => changed'
           /\ reading = <<>> => added' = added /\ changed' = changed
<1>1. /\ rows \in [Record -> AnyRow \cup {None}] /\ added \in BOOLEAN /\ changed \in BOOLEAN /\ now \in Nat
      /\ \A i \in Of("expense") : rows[i].mark \in Category
  BY DEF SummaryInv, RowsInv
<1>2. /\ Amount \cup {0} \subseteq Nat /\ Date \cup {now} \subseteq Nat
  <2>1. Amount \subseteq Nat /\ Clock \cup Date \subseteq Nat
    BY SummariesAssumption
  <2> QED BY <1>1, <2>1
<1>3. \A kind \in Kind : MarksOf(kind) \subseteq Mark /\ AmountsOf(kind) \subseteq Nat
                         /\ DatesOf(kind) \subseteq Nat /\ (kind = "expense" => MarksOf(kind) = Category)
  <2> TAKE kind \in Kind
  <2>1. AmountsOf(kind) \subseteq Nat /\ DatesOf(kind) \subseteq Nat
    BY <1>1, <1>2 DEF AmountsOf, DatesOf
  <2>2. CASE kind = "sale" \/ kind = "purchase"
    BY <1>2, <2>1, <2>2 DEF MarksOf, Mark
  <2>3. CASE kind = "expense"
    BY <2>1, <2>3 DEF MarksOf, Mark
  <2>4. CASE kind = "item"
    BY <2>1, <2>4 DEF MarksOf, Mark
  <2>5. CASE kind = "farmer"
    BY <2>1, <2>5 DEF MarksOf, Mark
  <2> QED BY <2>2, <2>3, <2>4, <2>5 DEF Kind
<1>4. CASE AddRow
  <2>1. PICK i \in Record, kind \in Kind, tenant \in Company :
           /\ rows[i] = None
           /\ \E mark \in MarksOf(kind), when \in DatesOf(kind), amount \in AmountsOf(kind) :
                 rows' = [rows EXCEPT ![i] = [kind |-> kind, tenant |-> tenant, at |-> when,
                                              mark |-> mark, amount |-> amount]]
           /\ added' = (added \/ (reading # <<>> /\ tenant = Reader))
           /\ UNCHANGED <<now, request, changed>>
    BY <1>4 DEF AddRow, Kind
  <2>2. PICK mark \in MarksOf(kind), when \in DatesOf(kind), amount \in AmountsOf(kind) :
           rows' = [rows EXCEPT ![i] = [kind |-> kind, tenant |-> tenant, at |-> when,
                                        mark |-> mark, amount |-> amount]]
    BY <2>1
  <2> DEFINE row == [kind |-> kind, tenant |-> tenant, at |-> when, mark |-> mark, amount |-> amount]
  <2>3. row \in AnyRow /\ row.tenant = tenant /\ (row.kind = "expense" => row.mark \in Category)
    BY <1>3 DEF AnyRow
  <2> HIDE DEF row
  <2>4. rows' = [rows EXCEPT ![i] = row]
    BY <2>2 DEF row
  <2>5. reading # <<>> /\ ~added' => tenant # Reader
    BY <2>1
  <2>6. added' \in BOOLEAN /\ (added => added') /\ (reading = <<>> => added' = added)
    BY <1>1, <2>1
  <2> QED BY <1>1, <2>1, <2>3, <2>4, <2>5, <2>6
<1>5. CASE ChangeRow
  <2>1. PICK i \in Record :
           /\ rows[i] # None
           /\ \E mark \in MarksOf(rows[i].kind), amount \in AmountsOf(rows[i].kind),
                 when \in (IF rows[i].kind = "expense" THEN Date \cup {rows[i].at} ELSE {rows[i].at}) :
                 rows' = [rows EXCEPT ![i].mark = mark, ![i].amount = amount, ![i].at = when]
           /\ NotesChange(i)
           /\ UNCHANGED <<now, request, added>>
    BY <1>5 DEF ChangeRow
  <2>2. PICK mark \in MarksOf(rows[i].kind), amount \in AmountsOf(rows[i].kind),
             when \in (IF rows[i].kind = "expense" THEN Date \cup {rows[i].at} ELSE {rows[i].at}) :
             rows' = [rows EXCEPT ![i].mark = mark, ![i].amount = amount, ![i].at = when]
    BY <2>1
  <2>3. rows[i] \in AnyRow /\ rows[i].kind \in Kind /\ rows[i].at \in Nat
    <3>1. rows[i] \in AnyRow
      BY <1>1, <2>1
    <3> QED BY <3>1 DEF AnyRow
  <2> DEFINE row == [rows[i] EXCEPT !.mark = mark, !.amount = amount, !.at = when]
  <2>4. mark \in Mark /\ amount \in Nat /\ when \in Nat
    BY <1>2, <1>3, <2>3
  <2>5. row \in AnyRow /\ row.tenant = rows[i].tenant /\ row.kind = rows[i].kind /\ row.mark = mark
    BY <2>3, <2>4 DEF AnyRow
  <2>6. rows' = [rows EXCEPT ![i] = row]
    BY <1>1, <2>2
  <2> HIDE DEF row
  <2>7. row.kind = "expense" => row.mark \in Category
    BY <1>3, <2>3, <2>5
  <2>8. reading # <<>> /\ ~changed' => rows[i].tenant # Reader
    BY <2>1 DEF NotesChange
  <2>9. changed' \in BOOLEAN /\ (changed => changed') /\ (reading = <<>> => changed' = changed)
    BY <1>1, <2>1 DEF NotesChange
  <2> QED BY <1>1, <2>1, <2>5, <2>6, <2>7, <2>8, <2>9
<1>6. CASE RemoveRecord
  <2>1. PICK i \in Record : /\ rows[i] # None /\ rows' = [rows EXCEPT ![i] = None]
                            /\ NotesChange(i) /\ UNCHANGED <<now, request, added>>
    BY <1>6 DEF RemoveRecord
  <2>2. reading # <<>> /\ ~changed' => rows[i].tenant # Reader
    BY <2>1 DEF NotesChange
  <2>3. changed' \in BOOLEAN /\ (changed => changed') /\ (reading = <<>> => changed' = changed)
    BY <1>1, <2>1 DEF NotesChange
  <2> QED BY <1>1, <2>1, <2>2, <2>3
<1> QED BY <1>4, <1>5, <1>6

\* One row written: the rows of the table, and those of the reader.
LEMMA WrittenRow ==
    ASSUME RowsInv, NEW i \in Record, NEW row \in AnyRow \cup {None}, rows' = [rows EXCEPT ![i] = row],
           row # None /\ row.kind = "expense" => row.mark \in Category, now' = now
    PROVE  /\ RowsInv'
           /\ rows[i] = None \/ (rows[i].tenant # Reader /\ (row = None \/ row.tenant # Reader)) =>
                 \A kind : Extends(Book(kind), Book(kind)')
           /\ (rows[i] = None \/ rows[i].tenant # Reader) /\ (row = None \/ row.tenant # Reader) =>
                 \A kind : Book(kind)' = Book(kind)
<1>1. /\ rows \in [Record -> AnyRow \cup {None}] /\ IsFiniteSet({j \in Record : rows[j] # None})
      /\ \A j \in Of("expense") : rows[j].mark \in Category
      /\ now \in Nat
  BY DEF RowsInv
<1>2. /\ rows' \in [Record -> AnyRow \cup {None}]
      /\ \A j \in Record : rows'[j] = IF j = i THEN row ELSE rows[j]
  BY <1>1
<1>3. RowsInv'
  <2>1. {j \in Record : rows'[j] # None} \in SUBSET ({j \in Record : rows[j] # None} \cup {i})
    BY <1>2
  <2>2. IsFiniteSet({j \in Record : rows[j] # None} \cup {i})
    BY <1>1, FS_AddElement
  <2>3. IsFiniteSet({j \in Record : rows'[j] # None})
    BY <2>1, <2>2, FS_Subset
  <2>4. \A j \in Of("expense")' : rows'[j].mark \in Category
    <3> TAKE j \in Of("expense")'
    <3>1. j \in Record /\ rows'[j] # None /\ rows'[j].kind = "expense" /\ rows'[j].tenant = Reader
      BY DEF Of
    <3>2. CASE j = i
      BY <1>2, <3>1, <3>2
    <3>3. CASE j # i
      <4>1. j \in Of("expense") /\ rows'[j] = rows[j]
        BY <1>2, <3>1, <3>3 DEF Of
      <4> QED BY <1>1, <4>1
    <3> QED BY <3>2, <3>3
  <2> QED BY <1>1, <1>2, <2>3, <2>4 DEF RowsInv
<1>4. ASSUME rows[i] = None \/ (rows[i].tenant # Reader /\ (row = None \/ row.tenant # Reader)), NEW kind
      PROVE  Extends(Book(kind), Book(kind)')
  <2>1. \A j \in Of(kind) : j \in Of(kind)' /\ rows'[j] = rows[j]
    BY <1>2, <1>4 DEF Of
  <2>2. Book(kind)' = [j \in Of(kind)' |-> rows'[j]]
    BY DEF Book
  <2> QED BY <2>1, <2>2 DEF Extends, Book
<1>5. ASSUME rows[i] = None \/ rows[i].tenant # Reader, row = None \/ row.tenant # Reader, NEW kind
      PROVE  Book(kind)' = Book(kind)
  <2>1. Of(kind)' = Of(kind) /\ \A j \in Of(kind) : rows'[j] = rows[j]
    BY <1>2, <1>5 DEF Of
  <2>2. Book(kind)' = [j \in Of(kind)' |-> rows'[j]]
    BY DEF Book
  <2> QED BY <2>1, <2>2 DEF Book
<1> QED BY <1>3, <1>4, <1>5

LEMMA BooksNow == RowsInv => IsBook(Sales) /\ IsBook(Expenses)
BY Books DEF Sales, Expenses

LEMMA BooksThen == RowsInv' => IsBook(Sales)' /\ IsBook(Expenses)'
BY BooksNow, PTL

\* While others write or time passes, nothing is answered.
LEMMA WhileNotAnswering ==
    ASSUME SummaryInv, RowsInv', UNCHANGED request, Today <= Today', Today' \in Nat,
           added' \in BOOLEAN, changed' \in BOOLEAN, added => added', changed => changed',
           reading # <<>> /\ ~changed' => Extends(Sales, Sales') /\ Extends(Expenses, Expenses'),
           reading # <<>> /\ ~changed' /\ ~added' =>
              Sales' = Sales /\ Expenses' = Expenses /\ Farmers' = Farmers
    PROVE  SummaryInv'
<1>1. /\ reading' = reading /\ figures' = figures /\ began' = began /\ ended' = ended
      /\ (Quiet' => Quiet)
  BY DEF request, Quiet
<1>2. /\ RowsInv /\ Order /\ Days /\ Today \in Nat /\ Covered
      /\ QuietDashboard /\ QuietFinance
      /\ reading # <<>> /\ Quiet /\ ended = Today => \A f \in DOMAIN figures : Tells(f, figures[f])
      /\ reading # <<>> /\ ~changed => \A f \in DOMAIN figures : AtMost(f, figures[f])
  BY Books DEF SummaryInv
<1>3. Order'
  BY <1>1, <1>2 DEF Order
<1>4. Days'
  BY <1>1, <1>2 DEF Days
<1>5. Covered'
  BY <1>1, <1>2 DEF Covered
<1>6. QuietDashboard' /\ QuietFinance'
  BY <1>1, <1>2 DEF QuietDashboard, QuietFinance, Answered, Revenue
<1>7. ASSUME reading # <<>>, Quiet', ended' = Today' PROVE (\A f \in DOMAIN figures : Tells(f, figures[f]))'
  <2>1. Quiet /\ ended = Today /\ Today' = Today /\ ~added' /\ ~changed'
    BY <1>1, <1>2, <1>7 DEF Days, Quiet
  <2>2. \A f, v : Tells(f, v) => Tells(f, v)'
    BY <1>7, <2>1, SameTells
  <2>3. PICK told : told = figures
    OBVIOUS
  <2>4. \A f \in DOMAIN told : Tells(f, told[f])'
    BY <1>2, <1>7, <2>1, <2>2, <2>3
  <2> QED BY <1>1, <2>3, <2>4
<1>8. ASSUME reading # <<>>, ~changed' PROVE (\A f \in DOMAIN figures : AtMost(f, figures[f]))'
  <2>1. ~changed /\ Extends(Sales, Sales') /\ Extends(Expenses, Expenses')
    BY <1>8
  <2>2. /\ IsBook(Sales) /\ IsBook(Expenses)
        /\ \A d : DayTotal(Sales, d) \in Nat
        /\ \A m : MonthTotal(Sales, m) \in Nat /\ MonthTotal(Expenses, m) \in Nat
    BY <1>2, Books, PlainTotals DEF Sales, Expenses
  <2>3. IsBook(Sales') /\ IsBook(Expenses')
    BY BooksThen
  <2>4. /\ \A d : DayTotal(Sales', d) \in Nat
        /\ \A m : MonthTotal(Sales', m) \in Nat /\ MonthTotal(Expenses', m) \in Nat
    BY <2>3, BookTotals DEF DayTotal, MonthTotal, OfDay, OfMonth
  <2>5. \A f, v : AtMost(f, v) => AtMost(f, v)'
    BY <1>1, <1>2, <2>1, <2>2, <2>3, <2>4, GrownAtMost DEF Days
  <2>6. PICK told : told = figures
    OBVIOUS
  <2>7. \A f \in DOMAIN told : AtMost(f, told[f])'
    BY <1>2, <1>8, <2>1, <2>5, <2>6
  <2> QED BY <1>1, <2>6, <2>7
<1> QED BY <1>1, <1>3, <1>4, <1>5, <1>6, <1>7, <1>8 DEF SummaryInv

LEMMA AfterWrite ==
    ASSUME SummaryInv, AddRow \/ ChangeRow \/ RemoveRecord
    PROVE  SummaryInv'
<1>1. /\ UNCHANGED <<now, request>>
      /\ added' \in BOOLEAN /\ changed' \in BOOLEAN
      /\ added => added'
      /\ changed => changed'
  BY WriteIs
<1>2. PICK i \in Record, row \in AnyRow \cup {None} :
         /\ rows' = [rows EXCEPT ![i] = row]
         /\ row # None /\ row.kind = "expense" => row.mark \in Category
         /\ reading # <<>> /\ ~changed' =>
               rows[i] = None \/ (rows[i].tenant # Reader /\ (row = None \/ row.tenant # Reader))
         /\ reading # <<>> /\ ~changed' /\ ~added' => row = None \/ row.tenant # Reader
  BY WriteIs
<1>3. RowsInv
  BY DEF SummaryInv
<1>4. /\ RowsInv'
      /\ rows[i] = None \/ (rows[i].tenant # Reader /\ (row = None \/ row.tenant # Reader)) =>
            \A kind : Extends(Book(kind), Book(kind)')
      /\ (rows[i] = None \/ rows[i].tenant # Reader) /\ (row = None \/ row.tenant # Reader) =>
            \A kind : Book(kind)' = Book(kind)
  <2>1. now' = now
    BY <1>1
  <2> QED BY <1>2, <1>3, <2>1, WrittenRow
<1>5. reading # <<>> /\ ~changed' => Extends(Sales, Sales') /\ Extends(Expenses, Expenses')
  <2>1. reading # <<>> /\ ~changed' => \A kind : Extends(Book(kind), Book(kind)')
    BY <1>2, <1>4
  <2> QED BY <2>1 DEF Sales, Expenses
<1>6. reading # <<>> /\ ~changed' /\ ~added' =>
         Sales' = Sales /\ Expenses' = Expenses /\ Farmers' = Farmers
  <2>1. reading # <<>> /\ ~changed' /\ ~added' => \A kind : Book(kind)' = Book(kind)
    BY <1>2, <1>4
  <2> QED BY <2>1 DEF Sales, Expenses, Farmers
<1>7. Today' = Today /\ Today \in Nat
  BY <1>1, <1>3, Books DEF Today
<1>8. UNCHANGED request /\ Today <= Today' /\ Today' \in Nat
  BY <1>1, <1>7
<1> QED BY <1>1, <1>4, <1>5, <1>6, <1>8, WhileNotAnswering

LEMMA AfterTick ==
    ASSUME SummaryInv, now' \in Nat, now <= now', UNCHANGED <<rows, request, added, changed>>
    PROVE  SummaryInv'
<1>1. RowsInv /\ now \in Nat /\ added \in BOOLEAN /\ changed \in BOOLEAN
  BY DEF SummaryInv, RowsInv
<1>2. RowsInv' /\ Sales' = Sales /\ Expenses' = Expenses /\ Farmers' = Farmers
  BY <1>1, SameBooks
<1>3. Today \in Nat /\ Today' \in Nat /\ Today <= Today'
  <2>1. Today = now \div 2 /\ Today' = now' \div 2
    BY DEF Today, Day
  <2>2. \A t \in Nat : t \div 2 \in Nat
    OBVIOUS
  <2>3. \A t, u \in Nat : t <= u => t \div 2 <= u \div 2
    OBVIOUS
  <2> QED BY <1>1, <2>1, <2>2, <2>3
<1>4. Extends(Sales, Sales') /\ Extends(Expenses, Expenses')
  BY <1>2 DEF Extends
<1>5. /\ UNCHANGED request /\ added' \in BOOLEAN /\ changed' \in BOOLEAN
      /\ added => added'
      /\ changed => changed'
  BY <1>1
<1> QED BY <1>2, <1>3, <1>4, <1>5, WhileNotAnswering

\* The summaries: while nothing disturbs a request, its figures tell what the
\* reader's rows are, and SummaryInv is inductive.
THEOREM SummaryInvariant == SummarySpec => []SummaryInv
<1>1. SummaryInit => SummaryInv
  BY SummaryInitially
<1>2. SummaryInv /\ [SummaryNext]_summaryVars => SummaryInv'
  <2> SUFFICES ASSUME SummaryInv, [SummaryNext]_summaryVars PROVE SummaryInv'
    OBVIOUS
  <2>1. now \in Nat
    BY DEF SummaryInv, RowsInv
  <2>2. CASE UNCHANGED summaryVars
    <3>1. now' \in Nat /\ now <= now' /\ UNCHANGED <<rows, request, added, changed>>
      BY <2>1, <2>2 DEF summaryVars, request
    <3> QED BY <3>1, AfterTick
  <2>3. CASE Tick
    <3>1. now' \in Nat /\ now <= now' /\ UNCHANGED <<rows, request, added, changed>>
      BY <2>1, <2>3, SummariesAssumption DEF Tick
    <3> QED BY <3>1, AfterTick
  <2> QED BY <2>2, <2>3, AfterGetSummary, AfterNextSelect, AfterSelectFails, AfterWrite DEF SummaryNext
<1> QED BY <1>1, <1>2, PTL DEF SummarySpec

\* GET /dashboard/summary: undisturbed, today's and yesterday's revenue are the
\* series' and the new farmers are among the active ones, for any rows of any
\* tenants, any amounts and any days.
THEOREM DashboardTellsOneStory == SummarySpec => []QuietDashboard
<1>1. SummaryInv => QuietDashboard
  BY DEF SummaryInv
<1> QED BY <1>1, SummaryInvariant, PTL

\* GET /finance/summary: undisturbed, the income of this month and the last is
\* the trend's and the expenses are the sum of their categories, whatever the
\* length of a month.
THEOREM FinanceTellsOneStory == SummarySpec => []QuietFinance
<1>1. SummaryInv => QuietFinance
  BY DEF SummaryInv
<1> QED BY <1>1, SummaryInvariant, PTL

\* Both: rows that only come while the SELECTs run, even over midnight, leave
\* the later figures not below the earlier ones.
THEOREM LaterFiguresCover == SummarySpec => []LaterSelectsKnowMore
<1>1. SummaryInv => LaterSelectsKnowMore
  <2> SUFFICES ASSUME Covered PROVE LaterSelectsKnowMore
    BY DEF SummaryInv
  <2>1. {"todayRevenue", "yesterdayRevenue", "revenueSeries"} \subseteq ToSet(DashboardSelects)
    BY DEF ToSet, DashboardSelects
  <2>2. {"incomeMtd", "monthlyTrend", "expensesMtd", "expenseBreakdown"} \subseteq ToSet(FinanceSelects)
    BY DEF ToSet, FinanceSelects
  <2>3. ASSUME DOMAIN figures = ToSet(DashboardSelects), ~changed, ended - began < SeriesDays
        PROVE  /\ figures.todayRevenue <= SumFunction(figures.revenueSeries)
               /\ figures.yesterdayRevenue <= SumFunction(figures.revenueSeries)
    BY <2>1, <2>3 DEF Covered
  <2>4. ASSUME DOMAIN figures = ToSet(FinanceSelects), ~changed, Month(began) = Month(ended)
        PROVE  /\ figures.incomeMtd <= Revenue(Month(ended))
               /\ figures.expensesMtd <= SumFunction(figures.expenseBreakdown)
    BY <2>2, <2>4 DEF Covered, Revenue, RevenueIn
  <2> QED BY <2>3, <2>4 DEF LaterSelectsKnowMore, Answered
<1> QED BY <1>1, SummaryInvariant, PTL
=============================================================================
