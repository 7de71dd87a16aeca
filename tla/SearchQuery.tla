---------------------------- MODULE SearchQuery ----------------------------
(***************************************************************************)
(* What one search answers: the validation of its parameters, the filters, *)
(* the radius, the four orderings, the key its result is cached under, the *)
(* rebuilding of a cached result, and its pages.                           *)
(*                                                                         *)
(* ListingSearch has the races between searches and writers.  Here a       *)
(* search is one step and the rows change under it.  The API's creates and *)
(* edits clear the cache.  Other writes go past it: the admin site adds,   *)
(* edits, restores and deletes rows, the seed command adds them, and a     *)
(* write of the API clears before it commits, so that a search in between  *)
(* caches what the commit changes.  A hit has to cope by itself with rows  *)
(* that are gone; of those that appeared or were edited past a cached      *)
(* result, nothing is promised before it expires or is cleared.            *)
(***************************************************************************)
EXTENDS Integers, Sequences, FiniteSets, SequencesExt

CONSTANTS
    Tables,         \* the tables of live listings to search: ids -> Row
    Params,         \* the query parameters clients send
    Types,          \* ListingType
    DefaultRadius,  \* DEFAULT_SEARCH_RADIUS_KM
    PageSize,       \* StandardResultsSetPagination.page_size
    MaxPageSize,    \* StandardResultsSetPagination.max_page_size
    MaxCached,      \* bound: results in the cache at a time
    Unset, NoListing

VARIABLES
    table,  \* the live listings
    cache,  \* cached results by key
    asked,  \* the parameters of the last search, if any
    answer, \* what it answered, before paging
    past    \* history: the listings that appeared or were edited past cached results

vars == <<table, cache, asked, answer, past>>

Ids == UNION {DOMAIN t : t \in Tables}

\* No search since the table changed, or one that was refused.
NoQuery == [refused |-> TRUE]

Orderings == {"distance", "newest", "price_asc", "price_desc"}

Row == [type : Types, price : Nat, bedrooms : Nat, lat : Int, lng : Int, created : Nat]

Optional(values) == values \cup {Unset}

\* The fields of ListingSearchQuerySerializer, none of them required.
Param == [type : Optional(Types), min_price : Optional(Nat), max_price : Optional(Nat),
          bedrooms : Optional(Nat), bedrooms_min : Optional(Nat), lat : Optional(Int),
          lng : Optional(Int), radius : Optional(Nat \ {0}), ordering : Optional(Orderings)]

\* A listing in a result: its id and, if the search had a centre, its distance.
Listed == [id : Ids, distance : Optional(Nat)]

ASSUME QueryAssumption ==
    /\ Ids \subseteq Nat /\ DefaultRadius \in Nat \ {0} /\ MaxCached \in Nat
    /\ \A t \in Tables : IsFiniteSet(DOMAIN t) /\ t \in [DOMAIN t -> Row]
    /\ Params \subseteq Param
    /\ Unset \notin Types \cup Orderings \cup Int

ASSUME PagingAssumption == MaxPageSize \in Nat /\ PageSize \in 1..MaxPageSize

-----------------------------------------------------------------------------
(* Parameters.                                                             *)

HasGeo(p) == p.lat # Unset

\* ListingSearchQuerySerializer.validate.
Valid(p) ==
    /\ (p.lat = Unset) = (p.lng = Unset)
    /\ p.radius # Unset => HasGeo(p)
    /\ p.min_price # Unset /\ p.max_price # Unset => p.min_price <= p.max_price

Ordering(p) ==
    IF p.ordering # Unset THEN p.ordering ELSE IF HasGeo(p) THEN "distance" ELSE "newest"

\* The query cannot order by a distance it does not have.
Accepted(p) == Valid(p) /\ (Ordering(p) = "distance" => HasGeo(p))

Radius(p) == IF p.radius = Unset THEN DefaultRadius ELSE p.radius

\* Mutant of CacheKey: parameters are dropped when falsy, zero included.
CacheKeyOfTruthy(p) ==
    {<<name, p[name]>> : name \in {n \in DOMAIN p :
        p[n] # Unset /\ (n \in {"min_price", "max_price", "bedrooms", "bedrooms_min"} => p[n] # 0)}}

\* The parts that are hashed into the key: a set, as their order is fixed.
CacheKey(p) == {<<name, p[name]>> : name \in {n \in DOMAIN p : p[n] # Unset}}

-----------------------------------------------------------------------------
(* The query.                                                              *)

Abs(n) == IF n < 0 THEN -n ELSE n

\* Stands for the geodesic distance PostGIS computes.
Distance(p, row) == Abs(row.lat - p.lat) + Abs(row.lng - p.lng)

Matches(p, row) ==
    /\ p.type \in {Unset, row.type}
    /\ p.min_price # Unset => row.price >= p.min_price
    /\ p.max_price # Unset => row.price <= p.max_price
    /\ p.bedrooms \in {Unset, row.bedrooms}
    /\ p.bedrooms_min # Unset => row.bedrooms >= p.bedrooms_min
    /\ HasGeo(p) => Distance(p, row) <= Radius(p)

Found(p) == {i \in DOMAIN table : Matches(p, table[i])}

\* Mutant of SortKey: prices are the whole order.
SortKeyUntied(p, i) ==
    CASE Ordering(p) = "distance"   -> <<Distance(p, table[i]), i>>
      [] Ordering(p) = "newest"     -> <<-table[i].created>>
      [] Ordering(p) = "price_asc"  -> <<table[i].price>>
      [] Ordering(p) = "price_desc" -> <<-table[i].price>>

SortKey(p, i) ==
    CASE Ordering(p) = "distance"   -> <<Distance(p, table[i]), i>>
      [] Ordering(p) = "newest"     -> <<-table[i].created>>
      [] Ordering(p) = "price_asc"  -> <<table[i].price, -table[i].created>>
      [] Ordering(p) = "price_desc" -> <<-table[i].price, -table[i].created>>

Before(s, t) ==
    \E n \in 1..Len(s) : s[n] < t[n] /\ \A m \in 1..(n - 1) : s[m] = t[m]

\* ORDER BY: rows with equal sort keys come in any order.
Ordered(p) ==
    {s \in SetToSeqs(Found(p)) :
        \A m, n \in DOMAIN s : m < n => ~Before(SortKey(p, s[n]), SortKey(p, s[m]))}

\* What is cached and answered of a listing.
Entry(p, i) == [id |-> i, distance |-> IF HasGeo(p) THEN Distance(p, table[i]) ELSE Unset]

Entries(p, s) == [n \in 1..Len(s) |-> Entry(p, s[n])]

\* Mutant of Materialise: a listing that is gone leaves a hole.
MaterialiseGaps(entries) ==
    [n \in 1..Len(entries) |->
        IF entries[n].id \in DOMAIN table THEN entries[n] ELSE [entries[n] EXCEPT !.id = NoListing]]

\* A set of positions in their order.
Ascending(positions) ==
    CHOOSE f \in SetToSeqs(positions) : \A m, n \in DOMAIN f : m < n => f[m] < f[n]

\* A hit: the cached order and distances, without the rows that are gone.
Materialise(entries) ==
    LET kept == Ascending({n \in DOMAIN entries : entries[n].id \in DOMAIN table}) IN
    [n \in DOMAIN kept |-> entries[kept[n]]]

-----------------------------------------------------------------------------
(* Pages.                                                                  *)

\* Mutant of PageSizeOf: no max_page_size.
PageSizeOfUncapped(sent) == IF sent = Unset \/ sent <= 0 THEN PageSize ELSE sent

\* page_size as the client sent it; what is not a positive number is ignored.
PageSizeOf(sent) ==
    IF sent = Unset \/ sent <= 0 THEN PageSize
    ELSE IF sent > MaxPageSize THEN MaxPageSize ELSE sent

\* Django's Paginator: an empty result has one page, which is empty.
NumPages(count, size) == IF count = 0 THEN 1 ELSE (count + size - 1) \div size

\* Where the first `number` pages end.
EndOf(count, size, number) == IF number * size < count THEN number * size ELSE count

Page(s, size, number) == SubSeq(s, (number - 1) * size + 1, EndOf(Len(s), size, number))

Pages(s, sent) ==
    LET size == PageSizeOf(sent) IN
    [n \in 1..NumPages(Len(s), size) |-> Page(s, size, n)]

-----------------------------------------------------------------------------
Init ==
    /\ table \in Tables
    /\ cache = <<>>
    /\ asked = NoQuery /\ answer = <<>> /\ past = {}

\* By the serializer, or by the ordering, which is applied after a miss only.
Refuse(p) ==
    /\ ~Valid(p) \/ (~Accepted(p) /\ CacheKey(p) \notin DOMAIN cache)
    /\ asked' = NoQuery /\ answer' = <<>>
    /\ UNCHANGED <<table, cache, past>>

Hit(p) ==
    /\ Valid(p) /\ CacheKey(p) \in DOMAIN cache
    /\ asked' = p /\ answer' = Materialise(cache[CacheKey(p)])
    /\ UNCHANGED <<table, cache, past>>

Miss(p) ==
    /\ Accepted(p) /\ CacheKey(p) \notin DOMAIN cache
    /\ Cardinality(DOMAIN cache) < MaxCached
    /\ \E s \in Ordered(p) :
          /\ answer' = Entries(p, s)
          /\ cache' = [k \in DOMAIN cache \cup {CacheKey(p)} |->
                          IF k = CacheKey(p) THEN Entries(p, s) ELSE cache[k]]
    /\ asked' = p /\ past' = IF cache = <<>> THEN {} ELSE past
    /\ UNCHANGED table

Expire(k) ==
    /\ cache' = [j \in DOMAIN cache \ {k} |-> cache[j]]
    /\ UNCHANGED <<table, asked, answer, past>>

\* A delete of the API commits, or the admin site removes the row.  The service
\* clears the cache before that, which Expire does of every key: a search between
\* the two, or any before the admin site's, leaves a result that lists the row.
ListingGone(i) ==
    /\ table' = [j \in DOMAIN table \ {i} |-> table[j]]
    /\ asked' = NoQuery /\ answer' = <<>>
    /\ UNCHANGED <<cache, past>>

\* Bound: a row is, or changes to, what it is in one of the tables.
RowsOf(i) == {t[i] : t \in {tab \in Tables : i \in DOMAIN tab}}

Edited(i) ==
    /\ \E row \in RowsOf(i) :
          table' = [table EXCEPT ![i] = [row EXCEPT !.created = table[i].created]]
    /\ asked' = NoQuery /\ answer' = <<>>

\* Bound: a new row takes the id of any listing that is not live.
Appeared(i) ==
    /\ \E row \in RowsOf(i) :
          table' = [j \in DOMAIN table \cup {i} |-> IF j = i THEN row ELSE table[j]]
    /\ asked' = NoQuery /\ answer' = <<>>

Cleared == cache' = <<>> /\ past' = {}

\* What was cached before row i changed is no longer judged by that row.
PastTheCache(i) ==
    /\ past' = IF cache = <<>> THEN {} ELSE past \cup {i}
    /\ UNCHANGED cache

\* Mutant of ListingEdited: the service forgets to clear.
ListingEditedUncleared(i) == Edited(i) /\ past' = {} /\ UNCHANGED cache

\* Through the API, which clears the search results.
ListingEdited(i) == Edited(i) /\ Cleared

ListingCreated(i) == Appeared(i) /\ Cleared

\* By a form of the admin site, which does not clear, or by a commit that a
\* search came before although it followed the clear.
ListingEditedPastCache(i) == Edited(i) /\ PastTheCache(i)

\* Likewise a row the admin site adds or restores, or the seed command adds.
ListingAddedPastCache(i) == Appeared(i) /\ PastTheCache(i)

Next ==
    \/ \E p \in Params : Refuse(p) \/ Hit(p) \/ Miss(p)
    \/ \E k \in DOMAIN cache : Expire(k)
    \/ \E i \in DOMAIN table :
          ListingGone(i) \/ ListingEdited(i) \/ ListingEditedPastCache(i)
    \/ \E i \in Ids \ DOMAIN table : ListingCreated(i) \/ ListingAddedPastCache(i)

Spec == Init /\ [][Next]_vars

-----------------------------------------------------------------------------
TypeOK ==
    /\ DOMAIN table \subseteq Ids /\ IsFiniteSet(DOMAIN table) /\ past \subseteq Ids
    /\ table \in [DOMAIN table -> Row]
    /\ asked \in Params \cup {NoQuery}
    /\ answer \in Seq(Listed)
    /\ cache \in [DOMAIN cache -> Seq(Listed)]
    /\ IsFiniteSet(DOMAIN cache) /\ Cardinality(DOMAIN cache) <= MaxCached

\* What makes a result right for p, as far as the live listings are concerned
\* that neither appeared nor were edited past the cache.
Answers(p, s) ==
    LET sure == DOMAIN table \ past
        at == {n \in DOMAIN s : s[n].id \in sure} IN
    /\ \A m, n \in DOMAIN s : m # n => s[m].id # s[n].id
    /\ \A i \in sure : Matches(p, table[i]) <=> \E n \in DOMAIN s : s[n].id = i
    /\ \A n \in at : s[n] = Entry(p, s[n].id)
    /\ \A m, n \in at : m < n => ~Before(SortKey(p, s[n].id), SortKey(p, s[m].id))

\* Whether it comes from the table or from the cache, and whatever was searched
\* before, an answer lists live listings only, each once, and is wrong about no
\* other listing than those that the admin site or the seed command added,
\* restored or edited past a cached result, or whose write committed after a
\* search had followed its clear.  Of the rest it holds exactly those that pass
\* the filters, in the order asked for, each with its own distance: no two
\* searches that differ share a key, and a listing that is gone, that a hit
\* misses, or whose old distance a hit attaches to its new row, leaves the rest
\* of a cached result right (ListingService.search, _search_cache_key,
\* _materialise_search_results).
AnswersMatchTheQuery ==
    asked # NoQuery =>
        /\ Accepted(asked) /\ Answers(asked, answer)
        /\ \A n \in DOMAIN answer : answer[n].id \in DOMAIN table

\* Why they do: what is cached under a key is right for the search the key was
\* made from, however many listings are gone, or came, by now.
CachedResultsMatch ==
    \A k \in DOMAIN cache : \E p \in Params :
        k = CacheKey(p) /\ Accepted(p) /\ Answers(p, cache[k])

IInv == TypeOK /\ AnswersMatchTheQuery /\ CachedResultsMatch

\* No two live listings were created at the same instant.
StampsDiffer == \A i, j \in DOMAIN table : table[i].created = table[j].created => i = j

\* The same listings, and each in its place but for those that tie.
SameUpToTies(p, s, t) ==
    /\ DOMAIN s = DOMAIN t
    /\ {s[n] : n \in DOMAIN s} = {t[n] : n \in DOMAIN t}
    /\ \A n \in DOMAIN s : SortKey(p, s[n].id) = SortKey(p, t[n].id)

\* Asked again while the table stands still, and while no cached result is past
\* its listings, a search answers the same listings with the same distances,
\* cached or not, even if the result expires in between; and two of them trade
\* places only if the order asked for does not tell them apart.  All but
\* "distance" rely on created_at for that: an answer, and with it every page that
\* is cut from it, is the same again if no two listings were created at the same
\* instant (ORDERING_MAP, and the pages a client asks for one by one).
SameSearchSameAnswer ==
    [][asked' = asked /\ asked # NoQuery /\ past = {} =>
        /\ SameUpToTies(asked, answer, answer')
        /\ StampsDiffer => answer' = answer]_vars

\* The pages of an answer are the answer, cut in order: nothing is lost or
\* repeated between two pages, none is empty unless the answer is, and none is
\* longer than the limit (StandardResultsSetPagination).
CutInto(s, pages) ==
    \E end \in [0..Len(pages) -> 0..Len(s)] :
        /\ end[0] = 0 /\ end[Len(pages)] = Len(s)
        /\ \A n \in 1..Len(pages) :
              end[n - 1] <= end[n] /\ pages[n] = SubSeq(s, end[n - 1] + 1, end[n])

PagesAreTheAnswer ==
    \A sent \in {Unset} \cup (-1)..(MaxPageSize + 1) :
        LET pages == Pages(answer, sent) IN
        /\ CutInto(answer, pages)
        /\ \A n \in DOMAIN pages :
              Len(pages[n]) <= MaxPageSize /\ (answer # <<>> => pages[n] # <<>>)
=============================================================================
