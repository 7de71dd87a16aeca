-------------------------- MODULE SearchQueryProofs --------------------------
(***************************************************************************)
(* Theorems about SearchQuery, for every choice of tables, parameters and  *)
(* page sizes: no two searches share a key, so that what is cached under a *)
(* key answers the search that asks for it; a hit answers the query it is  *)
(* given, with listings gone in the meantime, and but for listings that    *)
(* came or were edited; a search asked again gets the same answer, up to   *)
(* ties; and the pages of an answer are the answer.                        *)
(*                                                                         *)
(* Two arguments count.  A set of positions can be put in order: each has  *)
(* as its place the number of positions up to it.  And two results of one  *)
(* query have equal sort keys at each place: the n listings that one       *)
(* begins with do not all fit before place n of the other.                 *)
(***************************************************************************)
EXTENDS SearchQuery, FiniteSetTheorems, SequenceTheorems, TLAPS

-----------------------------------------------------------------------------
(* Sets of positions.                                                      *)

\* A listing of a finite set without repetition misses none of its elements.
LEMMA SeqsAreComplete ==
    ASSUME NEW S, IsFiniteSet(S), NEW s \in SetToSeqs(S)
    PROVE  /\ Cardinality(S) \in Nat /\ s \in [1..Cardinality(S) -> S]
           /\ s \in Seq(S) /\ Len(s) = Cardinality(S) /\ DOMAIN s = 1..Cardinality(S)
           /\ \A m, n \in DOMAIN s : m # n => s[m] # s[n]
           /\ \A x \in S : \E n \in DOMAIN s : s[n] = x
<1> DEFINE D == 1..Cardinality(S)
<1>1. Cardinality(S) \in Nat
  BY FS_CardinalityType
<1>2. s \in [D -> S] /\ \A m, n \in D : m # n => s[m] # s[n]
  BY DEF SetToSeqs
<1>3. s \in Injection(D, S)
  BY <1>2 DEF Injection, IsInjective
<1>4. IsFiniteSet(D) /\ Cardinality(D) = Cardinality(S)
  BY <1>1, FS_Interval
<1>5. s \in Surjection(D, S)
  BY <1>3, <1>4, FS_Injection
<1> QED
  BY <1>1, <1>2, <1>5 DEF Surjection

\* The positions of a finite set can be put in order: each has as its place the
\* number of positions up to it.
LEMMA AscendingOrder ==
    ASSUME NEW S \in SUBSET Nat, IsFiniteSet(S)
    PROVE  /\ Ascending(S) \in SetToSeqs(S)
           /\ \A m, n \in DOMAIN Ascending(S) : m < n => Ascending(S)[m] < Ascending(S)[n]
<1> DEFINE D == 1..Cardinality(S)
           UpTo(x) == {y \in S : y <= x}
           place == [x \in S |-> Cardinality(UpTo(x))]
<1>0. \A x \in S : x \in Nat
  OBVIOUS
<1>1. Cardinality(S) \in Nat /\ IsFiniteSet(D) /\ Cardinality(D) = Cardinality(S)
  BY FS_CardinalityType, FS_Interval
<1>2. \A x \in S : /\ IsFiniteSet(UpTo(x)) /\ Cardinality(UpTo(x)) \in Nat
                   /\ Cardinality(UpTo(x)) <= Cardinality(S)
  BY FS_Subset, FS_CardinalityType
<1>3. \A x \in S : place[x] \in D
  <2> TAKE x \in S
  <2>1. UpTo(x) # {}
    OBVIOUS
  <2>2. Cardinality(UpTo(x)) # 0
    BY <1>2, <2>1, FS_EmptySet
  <2> QED
    BY <1>1, <1>2, <2>2
<1>4. \A x, y \in S : x < y => place[x] < place[y]
  <2> SUFFICES ASSUME NEW x \in S, NEW y \in S, x < y PROVE place[x] < place[y]
    OBVIOUS
  <2>1. UpTo(x) \subseteq UpTo(y) /\ y \in UpTo(y) /\ y \notin UpTo(x)
    <3>1. x \in Nat /\ y \in Nat
      BY <1>0
    <3>2. ASSUME NEW z \in UpTo(x) PROVE z \in UpTo(y)
      <4>1. z \in S /\ z \in Nat /\ z <= x
        BY <1>0
      <4>2. z <= y
        BY <3>1, <4>1
      <4> QED
        BY <4>1, <4>2
    <3>3. y \in UpTo(y) /\ y \notin UpTo(x)
      BY <3>1
    <3> HIDE DEF UpTo
    <3> QED
      BY <3>2, <3>3
  <2>2. Cardinality(UpTo(x)) <= Cardinality(UpTo(y)) /\ Cardinality(UpTo(x)) # Cardinality(UpTo(y))
    BY <1>2, <2>1, FS_Subset
  <2> QED
    BY <1>2, <2>2
<1>5. place \in Injection(S, D)
  <2>1. \A x, y \in S : place[x] = place[y] => x = y
    <3> HIDE DEF place
    <3> SUFFICES ASSUME NEW x \in S, NEW y \in S, x # y PROVE place[x] # place[y]
      OBVIOUS
    <3>1. x < y \/ y < x
      BY <1>0
    <3> QED
      BY <1>1, <1>3, <1>4, <3>1
  <2>2. place \in [S -> D] /\ DOMAIN place = S
    BY <1>3
  <2> QED
    BY <2>1, <2>2 DEF Injection, IsInjective
<1>6. place \in Surjection(S, D)
  BY <1>1, <1>5, FS_Injection
<1> DEFINE f == [n \in D |-> CHOOSE x \in S : place[x] = n]
<1>7. \A n \in D : f[n] \in S /\ place[f[n]] = n
  BY <1>6 DEF Surjection
<1>8. \A m, n \in D : m < n => f[m] < f[n]
  <2> SUFFICES ASSUME NEW m \in D, NEW n \in D, m < n, ~(f[m] < f[n]) PROVE FALSE
    OBVIOUS
  <2>0. f[m] \in S /\ f[n] \in S /\ place[f[m]] = m /\ place[f[n]] = n
    BY <1>7
  <2> HIDE DEF f, place
  <2>1. f[n] = f[m] \/ f[n] < f[m]
    <3>1. f[m] \in Nat /\ f[n] \in Nat
      BY <1>0, <2>0
    <3> QED
      BY <3>1
  <2>2. place[f[n]] = place[f[m]] \/ place[f[n]] < place[f[m]]
    BY <1>4, <2>0, <2>1
  <2> QED
    BY <1>1, <2>0, <2>2
<1>9. f \in SetToSeqs(S)
  <2>1. \A m, n \in D : m # n => f[m] # f[n]
    BY <1>1, <1>7, <1>8
  <2> QED
    BY <1>7, <2>1 DEF SetToSeqs
<1>10. \E g \in SetToSeqs(S) : \A m, n \in DOMAIN g : m < n => g[m] < g[n]
  BY <1>8, <1>9
<1> QED
  BY <1>10 DEF Ascending

-----------------------------------------------------------------------------
(* Keys.                                                                   *)

\* No two searches that differ share a key, zero and absent included: the parts
\* of a key name the parameters they come from (_search_cache_key).
THEOREM KeysTellSearchesApart ==
    ASSUME NEW p \in Params, NEW q \in Params, CacheKey(p) = CacheKey(q)
    PROVE  p = q
<1>1. p \in Param /\ q \in Param
  BY QueryAssumption
<1>2. DOMAIN p = DOMAIN q /\ p = [n \in DOMAIN p |-> p[n]] /\ q = [n \in DOMAIN q |-> q[n]]
  BY <1>1 DEF Param
<1>3. ASSUME NEW r \in {p, q}, NEW s \in {p, q}, NEW n \in DOMAIN p, r[n] # Unset
      PROVE  s[n] = r[n]
  <2>1. <<n, r[n]>> \in CacheKey(r)
    BY <1>2, <1>3 DEF CacheKey
  <2>2. <<n, r[n]>> \in CacheKey(s)
    BY <2>1
  <2>3. PICK m \in DOMAIN s : <<n, r[n]>> = <<m, s[m]>>
    BY <2>2 DEF CacheKey
  <2> QED
    BY <2>3
<1>4. \A n \in DOMAIN p : p[n] = q[n]
  BY <1>3
<1> QED
  BY <1>2, <1>4

-----------------------------------------------------------------------------
(* The order of a search.                                                  *)

Typed == table \in [DOMAIN table -> Row] /\ DOMAIN table \subseteq Ids

\* What is known of a search that is accepted.
LEMMA AcceptedSearch ==
    ASSUME NEW p \in Params, Accepted(p)
    PROVE  /\ Ordering(p) \in Orderings
           /\ Ordering(p) = "distance" => HasGeo(p)
           /\ HasGeo(p) => p.lat \in Int /\ p.lng \in Int
<1>1. p \in Param
  BY QueryAssumption
<1> QED
  BY <1>1, QueryAssumption
  DEF Accepted, Valid, Param, Optional, Ordering, Orderings, HasGeo

LEMMA DistanceType ==
    ASSUME Typed, NEW p \in Params, Accepted(p), HasGeo(p), NEW i \in DOMAIN table
    PROVE  Distance(p, table[i]) \in Nat
<1>1. p.lat \in Int /\ p.lng \in Int
  BY AcceptedSearch
<1>2. table[i].lat \in Int /\ table[i].lng \in Int
  BY DEF Typed, Row
<1>3. \A n \in Int : Abs(n) \in Nat
  BY DEF Abs
<1> QED
  BY <1>1, <1>2, <1>3 DEF Distance

\* Before on the two kinds of sort key, in numbers.
LEMMA BeforeOne ==
    ASSUME NEW a \in Int, NEW b \in Int
    PROVE  Before(<<a>>, <<b>>) <=> a < b
<1>1. 1..Len(<<a>>) = {1} /\ 1..(1 - 1) = {}
  OBVIOUS
<1>2. Before(<<a>>, <<b>>) <=> \E n \in {1} : /\ <<a>>[n] < <<b>>[n]
                                            /\ \A m \in 1..(n - 1) : <<a>>[m] = <<b>>[m]
  BY <1>1 DEF Before
<1>3. Before(<<a>>, <<b>>) <=> /\ <<a>>[1] < <<b>>[1]
                               /\ \A m \in 1..(1 - 1) : <<a>>[m] = <<b>>[m]
  BY <1>2
<1> QED
  BY <1>1, <1>3

LEMMA BeforeTwo ==
    ASSUME NEW a \in Int, NEW b \in Int, NEW c \in Int, NEW d \in Int
    PROVE  Before(<<a, b>>, <<c, d>>) <=> a < c \/ (a = c /\ b < d)
<1>1. 1..Len(<<a, b>>) = {1, 2} /\ 1..(1 - 1) = {} /\ 1..(2 - 1) = {1}
  OBVIOUS
<1> QED
  BY <1>1 DEF Before

\* The keys of one search are all one number, or all two.
LEMMA SortKeyShape ==
    ASSUME Typed, NEW p \in Params, Accepted(p)
    PROVE  \/ \A i \in DOMAIN table : \E a \in Int : SortKey(p, i) = <<a>>
           \/ \A i \in DOMAIN table : \E a \in Int, b \in Int : SortKey(p, i) = <<a, b>>
<1>1. \A i \in DOMAIN table : i \in Int /\ table[i].price \in Int /\ table[i].created \in Int
                             /\ -table[i].price \in Int /\ -table[i].created \in Int
  BY QueryAssumption DEF Typed, Row
<1>2. CASE Ordering(p) = "distance"
  <2>1. \A i \in DOMAIN table : Distance(p, table[i]) \in Int
    BY <1>2, AcceptedSearch, DistanceType
  <2>2. \A i \in DOMAIN table : SortKey(p, i) = <<Distance(p, table[i]), i>>
    BY <1>2 DEF SortKey
  <2> QED
    BY <1>1, <2>1, <2>2
<1>3. CASE Ordering(p) = "newest"
  <2>1. \A i \in DOMAIN table : SortKey(p, i) = <<-table[i].created>>
    BY <1>3 DEF SortKey
  <2> QED
    BY <1>1, <2>1
<1>4. CASE Ordering(p) = "price_asc"
  <2>1. \A i \in DOMAIN table : SortKey(p, i) = <<table[i].price, -table[i].created>>
    BY <1>4 DEF SortKey
  <2> QED
    BY <1>1, <2>1
<1>5. CASE Ordering(p) = "price_desc"
  <2>1. \A i \in DOMAIN table : SortKey(p, i) = <<-table[i].price, -table[i].created>>
    BY <1>5 DEF SortKey
  <2> QED
    BY <1>1, <2>1
<1> QED
  BY <1>2, <1>3, <1>4, <1>5, AcceptedSearch DEF Orderings

\* They order the listings, but for those whose keys are equal.
LEMMA SortKeysOrder ==
    ASSUME Typed, NEW p \in Params, Accepted(p),
           NEW i \in DOMAIN table, NEW j \in DOMAIN table, NEW k \in DOMAIN table
    PROVE  /\ ~Before(SortKey(p, i), SortKey(p, i))
           /\ ~Before(SortKey(p, j), SortKey(p, i)) /\ ~Before(SortKey(p, k), SortKey(p, j))
                  => ~Before(SortKey(p, k), SortKey(p, i))
           /\ ~Before(SortKey(p, j), SortKey(p, i)) /\ ~Before(SortKey(p, i), SortKey(p, j))
                  => SortKey(p, i) = SortKey(p, j)
<1>1. CASE \A m \in DOMAIN table : \E a \in Int : SortKey(p, m) = <<a>>
  <2>1. PICK a \in Int, b \in Int, c \in Int :
          SortKey(p, i) = <<a>> /\ SortKey(p, j) = <<b>> /\ SortKey(p, k) = <<c>>
    BY <1>1
  <2> QED
    BY <2>1, BeforeOne
<1>2. CASE \A m \in DOMAIN table : \E a \in Int, b \in Int : SortKey(p, m) = <<a, b>>
  <2>1. PICK a1 \in Int, a2 \in Int : SortKey(p, i) = <<a1, a2>>
    BY <1>2
  <2>2. PICK b1 \in Int, b2 \in Int : SortKey(p, j) = <<b1, b2>>
    BY <1>2
  <2>3. PICK c1 \in Int, c2 \in Int : SortKey(p, k) = <<c1, c2>>
    BY <1>2
  <2>4. ~Before(<<a1, a2>>, <<a1, a2>>)
    BY BeforeTwo
  <2>5. ~Before(<<b1, b2>>, <<a1, a2>>) <=> a1 < b1 \/ (a1 = b1 /\ a2 <= b2)
    BY BeforeTwo
  <2>6. ~Before(<<c1, c2>>, <<b1, b2>>) <=> b1 < c1 \/ (b1 = c1 /\ b2 <= c2)
    BY BeforeTwo
  <2>7. ~Before(<<c1, c2>>, <<a1, a2>>) <=> a1 < c1 \/ (a1 = c1 /\ a2 <= c2)
    BY BeforeTwo
  <2>8. ~Before(<<a1, a2>>, <<b1, b2>>) <=> b1 < a1 \/ (b1 = a1 /\ b2 <= a2)
    BY BeforeTwo
  <2>9. ~Before(<<b1, b2>>, <<a1, a2>>) /\ ~Before(<<c1, c2>>, <<b1, b2>>)
            => ~Before(<<c1, c2>>, <<a1, a2>>)
    BY <2>5, <2>6, <2>7
  <2>10. ~Before(<<b1, b2>>, <<a1, a2>>) /\ ~Before(<<a1, a2>>, <<b1, b2>>)
            => a1 = b1 /\ a2 = b2
    BY <2>5, <2>8
  <2> QED
    BY <2>1, <2>2, <2>3, <2>4, <2>9, <2>10
<1> QED
  BY <1>1, <1>2, SortKeyShape

\* Two listings that a search does not tell apart are one listing, unless they
\* were created at the same instant.
LEMMA SortKeysDiffer ==
    ASSUME Typed, StampsDiffer, NEW p \in Params, Accepted(p),
           NEW i \in DOMAIN table, NEW j \in DOMAIN table, SortKey(p, i) = SortKey(p, j)
    PROVE  i = j
<1>1. table[i].created \in Int /\ table[j].created \in Int
  BY DEF Typed, Row
<1>2. table[i].created = table[j].created => i = j
  BY DEF StampsDiffer
<1>3. CASE Ordering(p) = "distance"
  BY <1>3 DEF SortKey
<1>4. CASE Ordering(p) # "distance"
  <2>1. -table[i].created = -table[j].created
    BY <1>4, AcceptedSearch DEF SortKey, Orderings
  <2> QED
    BY <1>1, <1>2, <2>1
<1> QED
  BY <1>3, <1>4

-----------------------------------------------------------------------------
(* Results.                                                                *)

\* A result that is right for p with no exception.
Exact(p, s) ==
    /\ \A m, n \in DOMAIN s : m # n => s[m].id # s[n].id
    /\ \A i \in DOMAIN table : Matches(p, table[i]) <=> \E n \in DOMAIN s : s[n].id = i
    /\ \A n \in DOMAIN s : s[n].id \in DOMAIN table /\ s[n] = Entry(p, s[n].id)
    /\ \A m, n \in DOMAIN s : m < n => ~Before(SortKey(p, s[n].id), SortKey(p, s[m].id))

LEMMA ExactAnswers ==
    ASSUME NEW p, NEW s, Exact(p, s), table' = table
    PROVE  Answers(p, s)'
BY DEF Exact, Answers, Matches, Distance, HasGeo, Entry, SortKey

\* Right results stay right while the listings they are judged by stay as they
\* are; there may become fewer of those.
LEMMA AnswersKept ==
    ASSUME NEW p, NEW s, Answers(p, s),
           \A i \in DOMAIN table' \ past' : i \in DOMAIN table \ past /\ table'[i] = table[i]
    PROVE  Answers(p, s)'
<1> DEFINE sure == DOMAIN table \ past
           at == {n \in DOMAIN s : s[n].id \in sure}
           atNow == {n \in DOMAIN s : s[n].id \in sure'}
<1>1. atNow \subseteq at
  OBVIOUS
<1>2. \A i \in sure' : SortKey(p, i)' = SortKey(p, i) /\ Entry(p, i)' = Entry(p, i)
  BY DEF SortKey, Entry
<1>3. \A m, n \in DOMAIN s : m # n => s[m].id # s[n].id
  BY DEF Answers
<1>4. \A i \in sure' : Matches(p, table'[i]) <=> \E n \in DOMAIN s : s[n].id = i
  BY DEF Answers
<1>5. \A n \in atNow : s[n] = Entry(p, s[n].id)'
  BY <1>1, <1>2 DEF Answers
<1>6. \A m, n \in atNow : m < n => ~Before(SortKey(p, s[n].id), SortKey(p, s[m].id))'
  <2> SUFFICES ASSUME NEW m \in atNow, NEW n \in atNow, m < n
               PROVE  ~Before(SortKey(p, s[n].id)', SortKey(p, s[m].id)')
    BY DEF Before
  <2>1. ~Before(SortKey(p, s[n].id), SortKey(p, s[m].id))
    BY <1>1 DEF Answers
  <2> QED
    BY <1>2, <2>1
<1> QED
  BY <1>3, <1>4, <1>5, <1>6 DEF Answers

\* What a query finds is exact.
LEMMA QueryIsExact ==
    ASSUME Typed, IsFiniteSet(DOMAIN table), NEW p \in Params, Accepted(p), NEW s \in Ordered(p)
    PROVE  Exact(p, Entries(p, s)) /\ Entries(p, s) \in Seq(Listed)
<1> DEFINE es == Entries(p, s)
<1>1. IsFiniteSet(Found(p)) /\ Found(p) \subseteq DOMAIN table
  BY FS_Subset DEF Found
<1>2. s \in SetToSeqs(Found(p))
  BY DEF Ordered
<1>3. /\ Len(s) \in Nat /\ DOMAIN s = 1..Len(s) /\ s \in [1..Len(s) -> Found(p)]
      /\ \A m, n \in DOMAIN s : m # n => s[m] # s[n]
      /\ \A x \in Found(p) : \E n \in DOMAIN s : s[n] = x
  BY <1>1, <1>2, SeqsAreComplete
<1>4. es = [n \in 1..Len(s) |-> Entry(p, s[n])] /\ DOMAIN es = DOMAIN s
  BY <1>3 DEF Entries
<1>5. \A n \in DOMAIN s : es[n] = Entry(p, s[n]) /\ es[n].id = s[n] /\ s[n] \in Found(p)
  BY <1>3, <1>4 DEF Entry
<1>6. \A i \in DOMAIN table : Entry(p, i) \in Listed
  <2> TAKE i \in DOMAIN table
  <2>1. i \in Ids
    BY DEF Typed
  <2>2. HasGeo(p) => Distance(p, table[i]) \in Nat
    BY DistanceType
  <2> QED
    BY <2>1, <2>2 DEF Entry, Listed, Optional
<1>7. es \in Seq(Listed)
  BY <1>1, <1>3, <1>4, <1>5, <1>6
<1>8. \A m, n \in DOMAIN s : m < n => ~Before(SortKey(p, s[n]), SortKey(p, s[m]))
  BY DEF Ordered
<1>9. \A i \in DOMAIN table : Matches(p, table[i]) <=> i \in Found(p)
  BY DEF Found
<1> HIDE DEF es
<1>10. \A i \in DOMAIN table : Matches(p, table[i]) <=> \E n \in DOMAIN es : es[n].id = i
  BY <1>3, <1>4, <1>5, <1>9
<1>11. Exact(p, es)
  BY <1>1, <1>3, <1>4, <1>5, <1>8, <1>10 DEF Exact
<1> QED
  BY <1>7, <1>11 DEF es

\* A hit keeps what is right of a cached result, and answers live listings only.
LEMMA HitAnswers ==
    ASSUME Typed, NEW p, NEW entries \in Seq(Listed), Answers(p, entries)
    PROVE  /\ Materialise(entries) \in Seq(Listed) /\ Answers(p, Materialise(entries))
           /\ \A n \in DOMAIN Materialise(entries) : Materialise(entries)[n].id \in DOMAIN table
<1> DEFINE a == Materialise(entries)
           live == {n \in DOMAIN entries : entries[n].id \in DOMAIN table}
           kept == Ascending(live)
<1>1. Len(entries) \in Nat /\ DOMAIN entries = 1..Len(entries)
      /\ \A n \in DOMAIN entries : entries[n] \in Listed
  OBVIOUS
<1>2. live \in SUBSET Nat /\ IsFiniteSet(live)
  <2>1. IsFiniteSet(1..Len(entries))
    BY <1>1, FS_Interval
  <2> QED
    BY <1>1, <2>1, FS_Subset
<1>3. /\ kept \in SetToSeqs(live)
      /\ \A m, n \in DOMAIN kept : m < n => kept[m] < kept[n]
  BY <1>2, AscendingOrder
<1>4. /\ Len(kept) \in Nat /\ DOMAIN kept = 1..Len(kept) /\ kept \in [1..Len(kept) -> live]
      /\ \A m, n \in DOMAIN kept : m # n => kept[m] # kept[n]
      /\ \A x \in live : \E n \in DOMAIN kept : kept[n] = x
  BY <1>2, <1>3, SeqsAreComplete
<1>5. a = [n \in DOMAIN kept |-> entries[kept[n]]]
  BY DEF Materialise
<1> HIDE DEF a, kept
<1>6. DOMAIN a = DOMAIN kept
      /\ \A n \in DOMAIN a : a[n] = entries[kept[n]] /\ kept[n] \in live /\ a[n] \in Listed
  BY <1>1, <1>4, <1>5
<1>7. a \in Seq(Listed)
  BY <1>4, <1>5, <1>6
<1>8. \A n \in DOMAIN a : a[n].id \in DOMAIN table
  BY <1>6
<1>9. \A m, n \in DOMAIN a : m # n => a[m].id # a[n].id
  <2>1. \A m, n \in DOMAIN entries : m # n => entries[m].id # entries[n].id
    BY DEF Answers
  <2> QED
    BY <1>4, <1>6, <2>1
<1>10. \A i \in DOMAIN table :
          (\E n \in DOMAIN a : a[n].id = i) <=> \E n \in DOMAIN entries : entries[n].id = i
  BY <1>4, <1>6
<1>11. \A i \in DOMAIN table \ past : Matches(p, table[i]) <=> \E n \in DOMAIN a : a[n].id = i
  BY <1>10 DEF Answers
<1>12. ASSUME NEW n \in DOMAIN a, a[n].id \in DOMAIN table \ past PROVE a[n] = Entry(p, a[n].id)
  BY <1>6, <1>12 DEF Answers
<1>13. ASSUME NEW m \in DOMAIN a, NEW n \in DOMAIN a, m < n,
              a[m].id \in DOMAIN table \ past, a[n].id \in DOMAIN table \ past
       PROVE  ~Before(SortKey(p, a[n].id), SortKey(p, a[m].id))
  <2>1. kept[m] < kept[n]
    BY <1>3, <1>6, <1>13
  <2> QED
    BY <1>6, <1>13, <2>1 DEF Answers
<1>14. Answers(p, a)
  BY <1>9, <1>11, <1>12, <1>13 DEF Answers
<1> QED
  BY <1>7, <1>8, <1>14 DEF a

\* The n listings one exact result begins with do not all come within the first
\* k < n places of another.
LEMMA NotAllFit ==
    ASSUME NEW p, NEW s \in Seq(Listed), NEW t \in Seq(Listed), Exact(p, s), Exact(p, t),
           NEW n \in DOMAIN s, NEW k \in Nat, k < n
    PROVE  \E m \in 1..n, j \in DOMAIN t : j > k /\ t[j].id = s[m].id
<1> DEFINE place == [m \in 1..n |-> CHOOSE j \in DOMAIN t : t[j].id = s[m].id]
<1>1. /\ Len(s) \in Nat /\ DOMAIN s = 1..Len(s) /\ n \in Nat /\ 1..n \subseteq DOMAIN s
      /\ Len(t) \in Nat /\ DOMAIN t = 1..Len(t)
  OBVIOUS
<1>2. \A m \in 1..n : place[m] \in DOMAIN t /\ t[place[m]].id = s[m].id
  <2> SUFFICES ASSUME NEW m \in 1..n PROVE \E j \in DOMAIN t : t[j].id = s[m].id
    OBVIOUS
  <2>1. m \in DOMAIN s
    BY <1>1
  <2> QED
    BY <2>1 DEF Exact
<1> HIDE DEF place
<1>3. SUFFICES ASSUME \A m \in 1..n : ~(place[m] > k) PROVE FALSE
  BY <1>2
<1>4. place \in [1..n -> 1..k]
  <2>1. \A m \in 1..n : place[m] \in 1..k
    BY <1>1, <1>2, <1>3
  <2> QED
    BY <2>1 DEF place
<1>5. ASSUME NEW l \in Nat PROVE IsFiniteSet(1..l) /\ Cardinality(1..l) = l
  <2>1. 1 \in Int /\ l \in Int
    OBVIOUS
  <2>2. IsFiniteSet(1..l) /\ Cardinality(1..l) = IF 1 > l THEN 0 ELSE l - 1 + 1
    BY <2>1, FS_Interval
  <2> QED
    BY <2>2
<1>6. PICK x \in 1..n, y \in 1..n : x # y /\ place[x] = place[y]
  <2>1. IsFiniteSet(1..n) /\ IsFiniteSet(1..k) /\ Cardinality(1..k) < Cardinality(1..n)
    BY <1>1, <1>5
  <2> QED
    BY <1>4, <2>1, FS_PigeonHole
<1>7. s[x].id = s[y].id
  BY <1>2, <1>6
<1> QED
  BY <1>1, <1>6, <1>7 DEF Exact

\* So no place of one holds a listing that comes before that of the other.
LEMMA NoneComesBefore ==
    ASSUME Typed, NEW p \in Params, Accepted(p),
           NEW s \in Seq(Listed), NEW t \in Seq(Listed), Exact(p, s), Exact(p, t),
           NEW n \in DOMAIN s, n \in DOMAIN t
    PROVE  ~Before(SortKey(p, s[n].id), SortKey(p, t[n].id))
<1>1. DOMAIN s = 1..Len(s) /\ DOMAIN t = 1..Len(t) /\ n \in Nat \ {0} /\ n - 1 \in Nat
  OBVIOUS
<1>2. PICK m \in 1..n, j \in DOMAIN t : j > n - 1 /\ t[j].id = s[m].id
  <2>1. PICK k \in Nat : k = n - 1 /\ k < n
    BY <1>1
  <2>2. \E m \in 1..n, j \in DOMAIN t : j > k /\ t[j].id = s[m].id
    BY <2>1, NotAllFit
  <2> QED
    BY <2>1, <2>2
<1>3. /\ m \in DOMAIN s /\ (m = n \/ m < n) /\ (j = n \/ n < j)
      /\ s[m].id \in DOMAIN table /\ s[n].id \in DOMAIN table /\ t[n].id \in DOMAIN table
  BY <1>1, <1>2 DEF Exact
<1>4. ~Before(SortKey(p, s[n].id), SortKey(p, s[m].id))
  BY <1>3, SortKeysOrder DEF Exact
<1>5. ~Before(SortKey(p, s[m].id), SortKey(p, t[n].id))
  BY <1>2, <1>3, SortKeysOrder DEF Exact
<1> QED
  BY <1>3, <1>4, <1>5, SortKeysOrder

\* Two exact results list the same, in the same order but for ties; without ties,
\* they are the same result.
LEMMA ExactResultsTie ==
    ASSUME Typed, NEW p \in Params, Accepted(p),
           NEW s \in Seq(Listed), NEW t \in Seq(Listed), Exact(p, s), Exact(p, t)
    PROVE  SameUpToTies(p, s, t) /\ (StampsDiffer => s = t)
<1>1. /\ Len(s) \in Nat /\ DOMAIN s = 1..Len(s)
      /\ Len(t) \in Nat /\ DOMAIN t = 1..Len(t)
  OBVIOUS
<1>2. ASSUME NEW a \in {s, t}, NEW b \in {s, t} PROVE Len(a) <= Len(b)
  <2>1. SUFFICES ASSUME Len(b) < Len(a) PROVE FALSE
    BY <1>1
  <2>2. /\ a \in Seq(Listed) /\ b \in Seq(Listed) /\ Exact(p, a) /\ Exact(p, b)
        /\ DOMAIN b = 1..Len(b) /\ Len(b) \in Nat /\ Len(a) \in DOMAIN a
    BY <1>1, <2>1
  <2>3. PICK m \in 1..Len(a), j \in DOMAIN b : j > Len(b) /\ b[j].id = a[m].id
    BY <2>1, <2>2, NotAllFit
  <2> QED
    BY <2>2, <2>3
<1>3. DOMAIN s = DOMAIN t /\ Len(s) = Len(t)
  <2>1. Len(s) <= Len(t) /\ Len(t) <= Len(s)
    BY <1>2
  <2>2. \A a, b \in Nat : a <= b /\ b <= a => a = b
    OBVIOUS
  <2>3. Len(s) = Len(t)
    BY <1>1, <2>1, <2>2, Zenon
  <2> QED
    BY <1>1, <2>3
<1>4. \A n \in DOMAIN s : SortKey(p, s[n].id) = SortKey(p, t[n].id)
  <2> TAKE n \in DOMAIN s
  <2>1. s[n].id \in DOMAIN table /\ t[n].id \in DOMAIN table
    BY <1>3 DEF Exact
  <2> QED
    BY <1>3, <2>1, NoneComesBefore, SortKeysOrder
<1>5. ASSUME NEW a \in {s, t}, NEW b \in {s, t}, NEW n \in DOMAIN a
      PROVE  \E m \in DOMAIN b : b[m] = a[n]
  <2>1. PICK m \in DOMAIN b : b[m].id = a[n].id
    BY DEF Exact
  <2> QED
    BY <2>1 DEF Exact
<1>6. {s[n] : n \in DOMAIN s} = {t[n] : n \in DOMAIN t}
  BY <1>5
<1>7. ASSUME StampsDiffer PROVE s = t
  <2>1. \A n \in DOMAIN s : s[n].id \in DOMAIN table /\ t[n].id \in DOMAIN table
    BY <1>3 DEF Exact
  <2>2. \A n \in DOMAIN s : s[n].id = t[n].id
    BY <1>4, <1>7, <2>1, SortKeysDiffer
  <2>3. \A n \in DOMAIN s : s[n] = t[n]
    BY <1>3, <2>2 DEF Exact
  <2> QED
    BY <1>3, <2>3, SeqEqual
<1> QED
  BY <1>3, <1>4, <1>6, <1>7 DEF SameUpToTies

-----------------------------------------------------------------------------
(* The invariant.                                                          *)

LEMMA InitIInv == Init => IInv
<1> SUFFICES ASSUME Init PROVE IInv
  OBVIOUS
<1>1. IsFiniteSet(DOMAIN table) /\ table \in [DOMAIN table -> Row] /\ DOMAIN table \subseteq Ids
  BY QueryAssumption DEF Init, Ids
<1>2. DOMAIN cache = {} /\ IsFiniteSet({}) /\ Cardinality({}) = 0
  BY FS_EmptySet DEF Init
<1>3. TypeOK
  BY <1>1, <1>2, QueryAssumption DEF Init, TypeOK
<1> QED
  BY <1>2, <1>3 DEF Init, IInv, AnswersMatchTheQuery, CachedResultsMatch

\* A key in the cache is that of a search that was accepted, so that a hit never
\* answers what a miss would have refused; and it has the right result.
LEMMA CachedSearch ==
    ASSUME IInv, NEW p \in Params, CacheKey(p) \in DOMAIN cache
    PROVE  /\ Accepted(p) /\ Answers(p, cache[CacheKey(p)])
           /\ cache[CacheKey(p)] \in Seq(Listed)
<1>1. PICK q \in Params : /\ CacheKey(p) = CacheKey(q) /\ Accepted(q)
                          /\ Answers(q, cache[CacheKey(p)])
  BY DEF IInv, CachedResultsMatch
<1>2. p = q
  BY <1>1, KeysTellSearchesApart
<1> QED
  BY <1>1, <1>2 DEF IInv, TypeOK

\* What every step does that writes nothing to the cache and changes no listing
\* that results are judged by.
LEMMA CacheKept ==
    ASSUME IInv, DOMAIN cache' \subseteq DOMAIN cache,
           \A k \in DOMAIN cache' : cache'[k] = cache[k],
           \A i \in DOMAIN table' \ past' : i \in DOMAIN table \ past /\ table'[i] = table[i]
    PROVE  CachedResultsMatch'
<1> SUFFICES ASSUME NEW k \in DOMAIN cache'
             PROVE  \E p \in Params : k = CacheKey(p) /\ Accepted(p) /\ Answers(p, cache[k])'
  BY DEF CachedResultsMatch
<1>1. PICK p \in Params : k = CacheKey(p) /\ Accepted(p) /\ Answers(p, cache[k])
  BY DEF IInv, CachedResultsMatch
<1>2. PICK s : s = cache[k] /\ s = cache'[k]
  OBVIOUS
<1>3. Answers(p, s)
  BY <1>1, <1>2 DEF Answers
<1>4. Answers(p, s)'
  BY <1>3, AnswersKept
<1>5. Answers(p, cache[k])'
  BY <1>2, <1>4 DEF Answers
<1> QED
  BY <1>1, <1>5

\* A refusal, or a change of the table, leaves no search to answer for.
LEMMA NoAnswer ==
    ASSUME asked' = NoQuery
    PROVE  AnswersMatchTheQuery'
BY DEF AnswersMatchTheQuery

LEMMA SameAnswer ==
    ASSUME IInv, UNCHANGED <<table, asked, answer, past>>
    PROVE  AnswersMatchTheQuery'
<1> SUFFICES ASSUME asked' # NoQuery
             PROVE  /\ Accepted(asked') /\ Answers(asked, answer)'
                    /\ \A n \in DOMAIN answer' : answer'[n].id \in DOMAIN table'
  BY DEF AnswersMatchTheQuery, Accepted, Valid, Ordering, HasGeo
<1>1. PICK p, s : p = asked /\ s = answer
  OBVIOUS
<1>2. /\ Accepted(p) /\ Answers(p, s)
      /\ \A n \in DOMAIN s : s[n].id \in DOMAIN table
  BY <1>1 DEF IInv, AnswersMatchTheQuery
<1>3. Answers(p, s)'
  BY <1>2, AnswersKept
<1> QED
  BY <1>1, <1>2, <1>3 DEF Answers

LEMMA RefuseKeeps ==
    ASSUME IInv, NEW p \in Params, Refuse(p)
    PROVE  IInv'
<1>1. TypeOK'
  BY DEF Refuse, IInv, TypeOK
<1>2. CachedResultsMatch'
  BY CacheKept DEF Refuse
<1> QED
  BY <1>1, <1>2, NoAnswer DEF Refuse, IInv

LEMMA HitKeeps ==
    ASSUME IInv, NEW p \in Params, Hit(p)
    PROVE  IInv'
<1>1. PICK entries : entries = cache[CacheKey(p)]
  OBVIOUS
<1>2. CacheKey(p) \in DOMAIN cache /\ asked' = p /\ answer' = Materialise(entries)
      /\ UNCHANGED <<table, cache, past>>
  BY <1>1 DEF Hit
<1>3. Accepted(p) /\ Answers(p, entries) /\ entries \in Seq(Listed)
  BY <1>1, <1>2, CachedSearch
<1>4. Typed
  BY DEF IInv, TypeOK, Typed
<1>5. PICK a : a = Materialise(entries)
  OBVIOUS
<1>6. a \in Seq(Listed) /\ Answers(p, a) /\ \A n \in DOMAIN a : a[n].id \in DOMAIN table
  BY <1>3, <1>4, <1>5, HitAnswers
<1>7. Answers(p, a)'
  BY <1>2, <1>6, AnswersKept
<1>8. AnswersMatchTheQuery'
  BY <1>2, <1>3, <1>5, <1>6, <1>7 DEF AnswersMatchTheQuery, Answers
<1>9. TypeOK'
  BY <1>2, <1>5, <1>6 DEF IInv, TypeOK
<1>10. CachedResultsMatch'
  BY <1>2, CacheKept
<1> QED
  BY <1>8, <1>9, <1>10 DEF IInv

LEMMA MissKeeps ==
    ASSUME IInv, NEW p \in Params, Miss(p)
    PROVE  IInv'
<1>1. PICK s \in Ordered(p) :
        /\ answer' = Entries(p, s)
        /\ cache' = [k \in DOMAIN cache \cup {CacheKey(p)} |->
                       IF k = CacheKey(p) THEN Entries(p, s) ELSE cache[k]]
  BY DEF Miss
<1>2. PICK e : e = Entries(p, s)
  OBVIOUS
<1>3. /\ Accepted(p) /\ CacheKey(p) \notin DOMAIN cache /\ Cardinality(DOMAIN cache) < MaxCached
      /\ asked' = p /\ past' = (IF cache = <<>> THEN {} ELSE past) /\ table' = table
  BY DEF Miss
<1>4. Typed /\ IsFiniteSet(DOMAIN table)
  BY DEF IInv, TypeOK, Typed
<1>5. Exact(p, e) /\ e \in Seq(Listed)
  BY <1>2, <1>3, <1>4, QueryIsExact
<1>6. Answers(p, e)'
  BY <1>3, <1>5, ExactAnswers
<1>7. AnswersMatchTheQuery'
  <2>1. \A n \in DOMAIN e : e[n].id \in DOMAIN table
    BY <1>5 DEF Exact
  <2> QED
    BY <1>1, <1>2, <1>3, <1>6, <2>1 DEF AnswersMatchTheQuery, Answers
<1>8. TypeOK'
  <2>1. IsFiniteSet(DOMAIN cache') /\ Cardinality(DOMAIN cache') <= MaxCached
    <3>1. IsFiniteSet(DOMAIN cache) /\ Cardinality(DOMAIN cache) \in Nat
      BY FS_CardinalityType DEF IInv, TypeOK
    <3>2. DOMAIN cache' = DOMAIN cache \cup {CacheKey(p)}
      BY <1>1
    <3>3. IsFiniteSet(DOMAIN cache') /\ Cardinality(DOMAIN cache') = Cardinality(DOMAIN cache) + 1
      BY <1>3, <3>1, <3>2, FS_AddElement
    <3> QED
      BY <1>3, <3>1, <3>3, QueryAssumption
  <2>2. cache' \in [DOMAIN cache' -> Seq(Listed)]
    BY <1>1, <1>2, <1>5 DEF IInv, TypeOK
  <2> QED
    BY <1>1, <1>2, <1>3, <1>5, <2>1, <2>2 DEF IInv, TypeOK
<1>9. CachedResultsMatch'
  <2> SUFFICES ASSUME NEW k \in DOMAIN cache'
               PROVE  \E q \in Params : k = CacheKey(q) /\ Accepted(q) /\ Answers(q, cache[k])'
    BY DEF CachedResultsMatch
  <2>1. CASE k = CacheKey(p)
    <3>1. cache'[k] = e
      BY <1>1, <1>2, <2>1
    <3>2. Answers(p, cache[k])'
      BY <1>6, <3>1 DEF Answers
    <3> QED
      BY <1>3, <2>1, <3>2
  <2>2. CASE k # CacheKey(p)
    <3>1. k \in DOMAIN cache /\ cache'[k] = cache[k]
      BY <1>1, <2>2
    <3>2. PICK q \in Params : k = CacheKey(q) /\ Accepted(q) /\ Answers(q, cache[k])
      BY <3>1 DEF IInv, CachedResultsMatch
    <3>3. past' = past
      BY <1>3, <3>1
    <3>4. PICK c : c = cache[k]
      OBVIOUS
    <3>5. Answers(q, c)
      BY <3>2, <3>4 DEF Answers
    <3>6. Answers(q, c)'
      BY <1>3, <3>3, <3>5, AnswersKept
    <3>7. Answers(q, cache[k])'
      BY <3>1, <3>4, <3>6 DEF Answers
    <3> QED
      BY <3>2, <3>7
  <2> QED
    BY <2>1, <2>2
<1> QED
  BY <1>7, <1>8, <1>9 DEF IInv

LEMMA ExpireKeeps ==
    ASSUME IInv, NEW k \in DOMAIN cache, Expire(k)
    PROVE  IInv'
<1>1. /\ DOMAIN cache' = DOMAIN cache \ {k}
      /\ \A j \in DOMAIN cache' : cache'[j] = cache[j]
      /\ UNCHANGED <<table, asked, answer, past>>
  BY DEF Expire
<1>2. TypeOK'
  <2>1. IsFiniteSet(DOMAIN cache') /\ Cardinality(DOMAIN cache') <= MaxCached
    <3>1. IsFiniteSet(DOMAIN cache) /\ Cardinality(DOMAIN cache) \in Nat
          /\ Cardinality(DOMAIN cache) <= MaxCached
      BY FS_CardinalityType DEF IInv, TypeOK
    <3>2. IsFiniteSet(DOMAIN cache') /\ Cardinality(DOMAIN cache') = Cardinality(DOMAIN cache) - 1
      BY <1>1, <3>1, FS_RemoveElement
    <3> QED
      BY <3>1, <3>2, QueryAssumption
  <2>2. cache' \in [DOMAIN cache' -> Seq(Listed)]
    BY DEF Expire, IInv, TypeOK
  <2> QED
    BY <1>1, <2>1, <2>2 DEF IInv, TypeOK
<1>3. AnswersMatchTheQuery'
  BY <1>1, SameAnswer
<1>4. CachedResultsMatch'
  BY <1>1, CacheKept
<1> QED
  BY <1>2, <1>3, <1>4 DEF IInv

LEMMA GoneKeeps ==
    ASSUME IInv, NEW i \in DOMAIN table, ListingGone(i)
    PROVE  IInv'
<1>1. /\ DOMAIN table' = DOMAIN table \ {i} /\ \A j \in DOMAIN table' : table'[j] = table[j]
      /\ table' = [j \in DOMAIN table \ {i} |-> table[j]]
      /\ asked' = NoQuery /\ answer' = <<>> /\ UNCHANGED <<cache, past>>
  BY DEF ListingGone
<1>2. TypeOK'
  <2>1. IsFiniteSet(DOMAIN table') /\ table' \in [DOMAIN table' -> Row]
    BY <1>1, FS_RemoveElement DEF IInv, TypeOK
  <2> QED
    BY <1>1, <2>1 DEF IInv, TypeOK
<1>3. CachedResultsMatch'
  BY <1>1, CacheKept
<1> QED
  BY <1>1, <1>2, <1>3, NoAnswer DEF IInv

LEMMA EditedRow ==
    ASSUME TypeOK, NEW i \in DOMAIN table, Edited(i)
    PROVE  /\ DOMAIN table' = DOMAIN table /\ table' \in [DOMAIN table -> Row]
           /\ \A j \in DOMAIN table : j # i => table'[j] = table[j]
           /\ asked' = NoQuery /\ answer' = <<>>
<1>1. PICK row \in RowsOf(i) : table' = [table EXCEPT ![i] = [row EXCEPT !.created = table[i].created]]
  BY DEF Edited
<1>2. row \in Row
  BY QueryAssumption DEF RowsOf
<1>3. table \in [DOMAIN table -> Row]
  BY DEF TypeOK
<1>4. [row EXCEPT !.created = table[i].created] \in Row
  BY <1>2, <1>3 DEF Row
<1> QED
  BY <1>1, <1>3, <1>4 DEF Edited

\* A write that clears leaves nothing to judge.
LEMMA ClearedKeeps ==
    ASSUME IInv, Cleared, asked' = NoQuery, answer' = <<>>,
           IsFiniteSet(DOMAIN table'), DOMAIN table' \subseteq Ids,
           table' \in [DOMAIN table' -> Row]
    PROVE  IInv'
<1>1. cache' = <<>> /\ past' = {} /\ DOMAIN cache' = {}
  BY DEF Cleared
<1>2. TypeOK'
  <2>1. IsFiniteSet({}) /\ Cardinality({}) = 0
    BY FS_EmptySet
  <2> QED
    BY <1>1, <2>1, QueryAssumption DEF TypeOK
<1>3. CachedResultsMatch'
  BY <1>1 DEF CachedResultsMatch
<1> QED
  BY <1>2, <1>3, NoAnswer DEF IInv

\* A write past the cache takes its listing out of what the results that are
\* cached are judged by.
LEMMA PastTheCacheKeeps ==
    ASSUME IInv, NEW i \in Ids, PastTheCache(i), asked' = NoQuery, answer' = <<>>,
           IsFiniteSet(DOMAIN table'), DOMAIN table' \subseteq Ids,
           table' \in [DOMAIN table' -> Row],
           \A j \in DOMAIN table' : j # i => j \in DOMAIN table /\ table'[j] = table[j]
    PROVE  IInv'
<1>1. cache' = cache /\ past' = (IF cache = <<>> THEN {} ELSE past \cup {i})
  BY DEF PastTheCache
<1>2. TypeOK'
  BY <1>1 DEF IInv, TypeOK
<1>3. CachedResultsMatch'
  <2>1. CASE cache = <<>>
    BY <1>1, <2>1 DEF CachedResultsMatch
  <2>2. CASE cache # <<>>
    BY <1>1, <2>2, CacheKept
  <2> QED
    BY <2>1, <2>2
<1> QED
  BY <1>2, <1>3, NoAnswer DEF IInv

LEMMA EditedKeeps ==
    ASSUME IInv, NEW i \in DOMAIN table, ListingEdited(i) \/ ListingEditedPastCache(i)
    PROVE  IInv'
<1>1. Edited(i) /\ TypeOK /\ i \in Ids /\ IsFiniteSet(DOMAIN table) /\ DOMAIN table \subseteq Ids
  BY DEF ListingEdited, ListingEditedPastCache, IInv, TypeOK
<1>2. /\ DOMAIN table' = DOMAIN table /\ table' \in [DOMAIN table -> Row]
      /\ \A j \in DOMAIN table : j # i => table'[j] = table[j]
      /\ asked' = NoQuery /\ answer' = <<>>
  BY <1>1, EditedRow
<1> QED
  BY <1>1, <1>2, ClearedKeeps, PastTheCacheKeeps DEF ListingEdited, ListingEditedPastCache

LEMMA AppearedRow ==
    ASSUME TypeOK, NEW i \in Ids, Appeared(i)
    PROVE  /\ DOMAIN table' = DOMAIN table \cup {i} /\ table' \in [DOMAIN table' -> Row]
           /\ IsFiniteSet(DOMAIN table') /\ DOMAIN table' \subseteq Ids
           /\ \A j \in DOMAIN table' : j # i => j \in DOMAIN table /\ table'[j] = table[j]
           /\ asked' = NoQuery /\ answer' = <<>>
<1>1. PICK row \in RowsOf(i) :
        table' = [j \in DOMAIN table \cup {i} |-> IF j = i THEN row ELSE table[j]]
  BY DEF Appeared
<1>2. row \in Row
  BY QueryAssumption DEF RowsOf
<1>3. table \in [DOMAIN table -> Row] /\ IsFiniteSet(DOMAIN table) /\ DOMAIN table \subseteq Ids
  BY DEF TypeOK
<1>4. IsFiniteSet(DOMAIN table \cup {i})
  BY <1>3, FS_AddElement
<1> QED
  BY <1>1, <1>2, <1>3, <1>4 DEF Appeared

LEMMA AppearedKeeps ==
    ASSUME IInv, NEW i \in Ids, ListingCreated(i) \/ ListingAddedPastCache(i)
    PROVE  IInv'
<1>1. Appeared(i) /\ TypeOK
  BY DEF ListingCreated, ListingAddedPastCache, IInv
<1> QED
  BY <1>1, AppearedRow, ClearedKeeps, PastTheCacheKeeps DEF ListingCreated, ListingAddedPastCache

LEMMA StepIInv == IInv /\ [Next]_vars => IInv'
<1> SUFFICES ASSUME IInv, [Next]_vars PROVE IInv'
  OBVIOUS
<1>1. CASE UNCHANGED vars
  <2>1. UNCHANGED <<table, cache, asked, answer, past>>
    BY <1>1 DEF vars
  <2>2. TypeOK'
    BY <2>1 DEF IInv, TypeOK
  <2>3. AnswersMatchTheQuery'
    BY <2>1, SameAnswer
  <2>4. CachedResultsMatch'
    BY <2>1, CacheKept
  <2> QED
    BY <2>2, <2>3, <2>4 DEF IInv
<1>2. ASSUME NEW p \in Params, Refuse(p) \/ Hit(p) \/ Miss(p) PROVE IInv'
  BY <1>2, RefuseKeeps, HitKeeps, MissKeeps
<1>3. ASSUME NEW k \in DOMAIN cache, Expire(k) PROVE IInv'
  BY <1>3, ExpireKeeps
<1>4. ASSUME NEW i \in DOMAIN table,
             ListingGone(i) \/ ListingEdited(i) \/ ListingEditedPastCache(i)
      PROVE  IInv'
  BY <1>4, GoneKeeps, EditedKeeps
<1>5. ASSUME NEW i \in Ids \ DOMAIN table, ListingCreated(i) \/ ListingAddedPastCache(i)
      PROVE  IInv'
  BY <1>5, AppearedKeeps
<1> QED
  BY <1>1, <1>2, <1>3, <1>4, <1>5 DEF Next

\* Rows, answers and cached results stay well formed, and right.
THEOREM Invariance == Spec => []IInv
BY InitIInv, StepIInv, PTL DEF Spec

\* Rows, answers and cached results stay well formed, and no more results are
\* cached than there is room for.
THEOREM TypeCorrectness == Spec => []TypeOK
<1>1. IInv => TypeOK
  BY DEF IInv
<1> QED
  BY <1>1, Invariance, PTL

\* Every answer, from the table or from the cache, lists live listings and is what
\* its query asks for, with the exception of listings that were added, restored or
\* edited past a cached result (ListingService.search).
THEOREM AnswersMatchTheQueryAlways == Spec => []AnswersMatchTheQuery
<1>1. IInv => AnswersMatchTheQuery
  BY DEF IInv
<1> QED
  BY <1>1, Invariance, PTL

-----------------------------------------------------------------------------
(* The same search again.                                                  *)

LEMMA AnswersAreExact ==
    ASSUME NEW p, NEW s, past = {}, Answers(p, s), \A n \in DOMAIN s : s[n].id \in DOMAIN table
    PROVE  Exact(p, s)
BY DEF Exact, Answers

\* What an answer gets that is asked for again.
AskedAgain == SameUpToTies(asked, answer, answer') /\ (StampsDiffer => answer' = answer)

LEMMA StepSameAnswer ==
    ASSUME IInv, [Next]_vars, asked' = asked, asked # NoQuery, past = {}
    PROVE  AskedAgain
<1>1. ASSUME answer' = answer PROVE AskedAgain
  BY <1>1 DEF AskedAgain, SameUpToTies
<1>2. ASSUME NEW p \in Params, Hit(p) \/ Miss(p) PROVE AskedAgain
  <2>1. table' = table /\ past' = {} /\ asked = p
    BY <1>2 DEF Hit, Miss
  <2>2. IInv'
    BY <1>2, HitKeeps, MissKeeps
  <2>3. PICK s, t : s = answer /\ t = answer'
    OBVIOUS
  <2>4. /\ Accepted(p) /\ Answers(p, s) /\ s \in Seq(Listed)
        /\ \A n \in DOMAIN s : s[n].id \in DOMAIN table
    BY <2>1, <2>3 DEF IInv, TypeOK, AnswersMatchTheQuery
  <2>5. Answers(p, t)'
    BY <2>1, <2>2, <2>3 DEF IInv, AnswersMatchTheQuery, Answers
  <2>6. /\ t \in Seq(Listed)
        /\ \A n \in DOMAIN t : t[n].id \in DOMAIN table
    BY <2>1, <2>2, <2>3 DEF IInv, TypeOK, AnswersMatchTheQuery, Listed, Ids
  <2>7. Answers(p, t)
    BY <2>1, <2>5 DEF Answers, Matches, Distance, HasGeo, Entry, SortKey
  <2>8. Exact(p, s) /\ Exact(p, t)
    BY <2>4, <2>6, <2>7, AnswersAreExact
  <2>9. Typed
    BY DEF IInv, TypeOK, Typed
  <2>10. SameUpToTies(p, s, t) /\ (StampsDiffer => s = t)
    BY <2>4, <2>6, <2>8, <2>9, ExactResultsTie
  <2> QED
    BY <2>1, <2>3, <2>10 DEF AskedAgain, SameUpToTies
<1>3. ASSUME NEW k \in DOMAIN cache, Expire(k) PROVE answer' = answer
  BY <1>3 DEF Expire
<1>4. ASSUME NEW p \in Params, Refuse(p) PROVE FALSE
  BY <1>4 DEF Refuse
<1>5. ASSUME NEW i \in DOMAIN table,
             ListingGone(i) \/ ListingEdited(i) \/ ListingEditedPastCache(i)
      PROVE  FALSE
  BY <1>5 DEF ListingGone, ListingEdited, ListingEditedPastCache, Edited
<1>6. ASSUME NEW i \in Ids \ DOMAIN table, ListingCreated(i) \/ ListingAddedPastCache(i)
      PROVE  FALSE
  BY <1>6 DEF ListingCreated, ListingAddedPastCache, Appeared
<1> QED
  BY <1>1, <1>2, <1>3, <1>4, <1>5, <1>6 DEF Next, vars

\* A search asked again over the same table, while no cached result is past its
\* listings, answers the same listings, cached or not, in the same order but for
\* those that tie; and without ties the same answer (ORDERING_MAP).
THEOREM SameSearchSameAnswerEver == Spec => SameSearchSameAnswer
<1>1. IInv /\ [Next]_vars =>
        [asked' = asked /\ asked # NoQuery /\ past = {} =>
            SameUpToTies(asked, answer, answer') /\ (StampsDiffer => answer' = answer)]_vars
  BY StepSameAnswer DEF AskedAgain, vars
<1> QED
  BY <1>1, Invariance, PTL DEF Spec, SameSearchSameAnswer

-----------------------------------------------------------------------------
(* Pages.                                                                  *)

LEMMA PageSizeType ==
    ASSUME NEW sent \in Int \cup {Unset}
    PROVE  PageSizeOf(sent) \in 1..MaxPageSize
BY PagingAssumption, QueryAssumption DEF PageSizeOf

\* There are as many pages as it takes, and not one more.
LEMMA PagesEnough ==
    ASSUME NEW count \in Nat, NEW size \in Nat \ {0}
    PROVE  /\ NumPages(count, size) \in Nat \ {0}
           /\ count <= NumPages(count, size) * size
           /\ count # 0 => (NumPages(count, size) - 1) * size < count
<1>1. CASE count = 0
  BY <1>1 DEF NumPages
<1>2. CASE count # 0
  <2> DEFINE a == count + size - 1
             q == a \div size
  <2>1. a \in Nat /\ size \in Nat /\ size > 0 /\ a >= size
    BY <1>2
  <2>2. q \in Int /\ q * size <= a /\ a < (q + 1) * size
    BY <2>1
  <2> QED
    BY <1>2, <2>1, <2>2 DEF NumPages
<1> QED
  BY <1>1, <1>2

\* A page starts where the pages before it end, holds something if anything is
\* answered, and no more than its size.
LEMMA PageEnds ==
    ASSUME NEW count \in Nat, NEW size \in Nat \ {0}, NEW n \in 1..NumPages(count, size)
    PROVE  /\ EndOf(count, size, n) \in 0..count /\ EndOf(count, size, n - 1) \in 0..count
           /\ EndOf(count, size, n - 1) <= EndOf(count, size, n)
           /\ EndOf(count, size, n) - EndOf(count, size, n - 1) <= size
           /\ count # 0 => /\ EndOf(count, size, n - 1) = (n - 1) * size
                           /\ EndOf(count, size, n - 1) < EndOf(count, size, n)
           /\ count = 0 => EndOf(count, size, n) = 0 /\ n = 1
<1>1. n \in Nat \ {0} /\ NumPages(count, size) \in Nat /\ n <= NumPages(count, size)
  BY PagesEnough
<1>2. /\ (n - 1) * size \in Nat /\ n * size \in Nat /\ n * size = (n - 1) * size + size
      /\ (n - 1) * size <= (NumPages(count, size) - 1) * size
  <2>1. n - 1 \in Nat /\ NumPages(count, size) - 1 \in Nat /\ n - 1 <= NumPages(count, size) - 1
    BY <1>1
  <2> QED
    BY <1>1, <2>1
<1>3. count # 0 => (n - 1) * size < count
  <2> SUFFICES ASSUME count # 0 PROVE (n - 1) * size < count
    OBVIOUS
  <2>1. (NumPages(count, size) - 1) * size < count
    BY PagesEnough
  <2>2. (NumPages(count, size) - 1) * size \in Int
    BY <1>1
  <2> QED
    BY <1>2, <2>1, <2>2
<1>4. count = 0 => n = 1
  BY DEF NumPages
<1> QED
  BY <1>1, <1>2, <1>3, <1>4 DEF EndOf

\* Whatever page_size a client sends, the pages are the result cut in order: each
\* listing is on one page, no page is empty unless the result is, and none is
\* longer than the limit (StandardResultsSetPagination).
THEOREM PagesAreTheResult ==
    ASSUME NEW S, NEW s \in Seq(S), NEW sent \in Int \cup {Unset}
    PROVE  /\ CutInto(s, Pages(s, sent))
           /\ \A n \in DOMAIN Pages(s, sent) :
                 /\ Len(Pages(s, sent)[n]) <= MaxPageSize
                 /\ s # <<>> => Pages(s, sent)[n] # <<>>
<1> DEFINE size == PageSizeOf(sent)
           count == Len(s)
           total == NumPages(count, size)
           pages == Pages(s, sent)
           end == [n \in 0..total |-> EndOf(count, size, n)]
<1>1. count \in Nat /\ size \in Nat \ {0} /\ size <= MaxPageSize
  BY PageSizeType, PagingAssumption
<1>2. total \in Nat \ {0} /\ count <= total * size
  BY <1>1, PagesEnough
<1>3. pages = [n \in 1..total |-> Page(s, size, n)] /\ DOMAIN pages = 1..total /\ Len(pages) = total
  BY <1>2 DEF Pages
<1>4. /\ end[0] = 0 /\ end[total] = count
      /\ \A n \in 1..total : end[n - 1] = EndOf(count, size, n - 1) /\ end[n] = EndOf(count, size, n)
  <2>1. EndOf(count, size, 0) = 0 /\ EndOf(count, size, total) = count
    <3>1. total * size \in Nat /\ 0 * size = 0
      BY <1>1, <1>2
    <3> QED
      BY <1>1, <1>2, <3>1 DEF EndOf
  <2>2. 0 \in 0..total /\ total \in 0..total /\ \A n \in 1..total : n \in 0..total /\ n - 1 \in 0..total
    BY <1>2
  <2> QED
    BY <2>1, <2>2
<1>5. end \in [0..total -> 0..count]
  <2> SUFFICES ASSUME NEW n \in 0..total PROVE EndOf(count, size, n) \in 0..count
    OBVIOUS
  <2>1. n * size \in Nat
    BY <1>1, <1>2
  <2> QED
    BY <1>1, <2>1 DEF EndOf
<1> HIDE DEF end, total, pages, size, count
<1>6. ASSUME NEW n \in 1..total
      PROVE  /\ end[n - 1] <= end[n] /\ pages[n] = SubSeq(s, end[n - 1] + 1, end[n])
             /\ Len(pages[n]) <= MaxPageSize /\ (s # <<>> => pages[n] # <<>>)
  <2>1. /\ end[n - 1] \in 0..count /\ end[n] \in 0..count /\ end[n - 1] <= end[n]
        /\ end[n] - end[n - 1] <= size
        /\ count # 0 => end[n - 1] = (n - 1) * size /\ end[n - 1] < end[n]
        /\ count = 0 => end[n] = 0 /\ n = 1
    BY <1>1, <1>4, PageEnds DEF total
  <2>2. pages[n] = SubSeq(s, (n - 1) * size + 1, end[n])
    BY <1>3, <1>4 DEF Page, count
  <2>3. pages[n] = SubSeq(s, end[n - 1] + 1, end[n])
    <3>1. CASE count # 0
      BY <2>1, <2>2, <3>1
    <3>2. CASE count = 0
      <4>1. (n - 1) * size = 0 /\ end[n - 1] = 0
        BY <1>1, <2>1, <3>2
      <4> QED
        BY <2>2, <4>1
    <3> QED
      BY <3>1, <3>2
  <2>4. Len(pages[n]) = end[n] - end[n - 1]
    <3>1. \A i \in (end[n - 1] + 1)..end[n] : s[i] \in S
      BY <2>1 DEF count
    <3>2. end[n - 1] + 1 \in Int /\ end[n] \in Int
      BY <1>1, <2>1
    <3>3. Len(SubSeq(s, end[n - 1] + 1, end[n])) =
            IF end[n - 1] + 1 <= end[n] THEN end[n] - (end[n - 1] + 1) + 1 ELSE 0
      BY <3>1, <3>2, SubSeqProperties
    <3>4. PICK a \in Nat, b \in Nat : a = end[n - 1] /\ b = end[n] /\ a <= b
      BY <1>1, <2>1
    <3>5. Len(pages[n]) = IF a + 1 <= b THEN b - (a + 1) + 1 ELSE 0
      BY <2>3, <3>3, <3>4
    <3> QED
      BY <3>4, <3>5
  <2>5. s # <<>> => pages[n] # <<>>
    <3> SUFFICES ASSUME s # <<>>, pages[n] = <<>> PROVE FALSE
      OBVIOUS
    <3>1. count # 0
      BY EmptySeq DEF count
    <3>2. Len(pages[n]) = 0
      OBVIOUS
    <3> QED
      BY <1>1, <2>1, <2>4, <3>1, <3>2
  <2> QED
    BY <1>1, <2>1, <2>3, <2>4, <2>5, PagingAssumption
<1>7. CutInto(s, pages)
  BY <1>3, <1>4, <1>5, <1>6 DEF CutInto, count
<1> QED
  BY <1>3, <1>6, <1>7 DEF pages

\* The pages of every answer are the answer, cut in order.
THEOREM PagesAreTheAnswerAlways == Spec => []PagesAreTheAnswer
<1>1. TypeOK => PagesAreTheAnswer
  <2> SUFFICES ASSUME TypeOK, NEW sent \in {Unset} \cup (-1)..(MaxPageSize + 1)
               PROVE  LET pages == Pages(answer, sent) IN
                      /\ CutInto(answer, pages)
                      /\ \A n \in DOMAIN pages :
                            Len(pages[n]) <= MaxPageSize /\ (answer # <<>> => pages[n] # <<>>)
    BY DEF PagesAreTheAnswer
  <2>1. answer \in Seq(Listed) /\ sent \in Int \cup {Unset}
    BY PagingAssumption DEF TypeOK
  <2> QED
    BY <2>1, PagesAreTheResult
<1> QED
  BY <1>1, TypeCorrectness, PTL
=============================================================================
