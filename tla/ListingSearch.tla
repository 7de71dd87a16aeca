---------------------------- MODULE ListingSearch ----------------------------
(***************************************************************************)
(* Search over the listings table through the result cache: the table and  *)
(* its writers are ListingStore, the cache is CacheManager, and the same   *)
(* server threads write, clear and search.  A result is the set of ids the *)
(* cache entry lists; their order and distances are left out.              *)
(***************************************************************************)
EXTENDS CacheManager

\* The clients of the cache are the server threads, its keys the queries (for
\* each column, the values that pass), its values sets of ids.
CONSTANTS
    Ids, Users, Admins, Fields, LocationField, Values, AdminSite,
    NoUser, NoRow, NoTxn, NoWorker, NoSearch

VARIABLES
    rows, issued, lock, txn, granted,    \* ListingStore
    search,     \* the search each thread is running
    window,     \* history: the results the table would have given since then
    mixed,      \* history: has it met a write since it read the table?
    overlapped  \* history: queries whose cached result met a write between the
                \* table and the cache, or one of the admin site since then

Table == INSTANCE ListingStore WITH Workers <- Clients

tableVars == <<rows, issued, lock, txn, granted>>
cacheVars == <<entries, index, indexTTL, call, suspect>>
searchVars == <<tableVars, cacheVars, search, window, mixed, overlapped>>

Search == [pc : {"query", "store", "register", "materialise"},
           query : Keys, found : SUBSET Ids]

ASSUME SearchAssumption ==
    /\ Keys \subseteq [Fields -> SUBSET Values] /\ Content = SUBSET Ids
    /\ NoSearch \notin Search

\* The assumptions of ListingStore, of the instance.
ASSUME TableAssumption ==
    /\ Admins \subseteq Users
    /\ NoUser \notin Users /\ NoWorker \notin Clients
    /\ NoRow \notin Table!Row /\ NoTxn \notin Table!Txn

OwnTypes ==
    /\ search \in [Clients -> Search \cup {NoSearch}]
    /\ window \in [Clients -> [some : SUBSET Ids, every : SUBSET Ids, trusted : BOOLEAN]]
    /\ mixed \in [Clients -> BOOLEAN]
    /\ overlapped \in SUBSET Keys

SearchTypeOK == Table!TypeOK /\ TypeOK /\ OwnTypes

-----------------------------------------------------------------------------
Matches(row, q) == \A f \in Fields : row.fields[f] \in q[f]

LiveIds == {i \in Ids : Table!Live(i)}

\* Mutant of Result: the search reads through all_objects.
ResultOfAll(q) == {i \in Ids : Table!Exists(i) /\ Matches(rows[i], q)}
Result(q) == {i \in LiveIds : Matches(rows[i], q)}

Searching(w, pc) == search[w] # NoSearch /\ search[w].pc = pc
Idle(w) == Table!Idle(w) /\ search[w] = NoSearch

Goes(w, pc, q, found) ==
    search' = [search EXCEPT ![w] = [pc |-> pc, query |-> q, found |-> found]]
Ends(w) == search' = [search EXCEPT ![w] = NoSearch]

SearchHit(w, q) ==
    /\ Idle(w) /\ Cached(q)
    /\ Goes(w, "materialise", q, Get(q))
    /\ UNCHANGED <<tableVars, cacheVars, overlapped>>

SearchMiss(w, q) ==
    /\ Idle(w) /\ (~Cached(q) \/ Faulty)
    /\ Goes(w, "query", q, {})
    /\ UNCHANGED <<tableVars, cacheVars, overlapped>>

SearchQuery(w) ==
    /\ Searching(w, "query")
    /\ Goes(w, "store", search[w].query, Result(search[w].query))
    /\ UNCHANGED <<tableVars, cacheVars, overlapped>>

SearchStore(w) ==
    /\ Searching(w, "store")
    /\ Store(w, search[w].query, search[w].found)
    /\ Goes(w, "register", search[w].query, search[w].found)
    /\ overlapped' = IF mixed[w] THEN overlapped \cup {search[w].query}
                                 ELSE overlapped \ {search[w].query}
    /\ UNCHANGED tableVars

\* _register_key, then the answer.
SearchRegister(w) ==
    /\ Searching(w, "register")
    /\ \/ RegisterRead(w) /\ UNCHANGED search
       \/ RegisterWrite(w) /\ Ends(w)
    /\ UNCHANGED <<tableVars, overlapped>>

\* The answer: the rows of the query, or those of a hit that one query by
\* primary key finds again, live but not filtered again.
Answer(w) == IF Searching(w, "materialise") THEN search[w].found \cap LiveIds
             ELSE search[w].found

SearchMaterialise(w) ==
    /\ Searching(w, "materialise")
    /\ Ends(w)
    /\ UNCHANGED <<tableVars, cacheVars, overlapped>>

SearchCrash(w) ==
    /\ Faulty /\ search[w] # NoSearch /\ Ends(w)
    /\ IF Free(w) THEN UNCHANGED cacheVars ELSE Crash(w)
    /\ UNCHANGED <<tableVars, overlapped>>

-----------------------------------------------------------------------------
(* Writes: ListingStore's steps, with _invalidate_search_cache spelled out *)
(* as the clear it is.                                                     *)

ByService(w) == txn[w] # NoTxn /\ txn[w].actor # NoUser

WriteStep(w) ==
    /\ search[w] = NoSearch
    /\ \/ Table!ApiRequest(w) \/ Table!AdminRequest(w)
       \/ Table!Save(w) \/ Table!Insert(w) \/ Table!Commit(w)
    /\ overlapped' = IF rows' = rows \/ ByService(w) THEN overlapped ELSE Keys
    /\ UNCHANGED <<cacheVars, search>>

\* Mutant of ClearForWrite: the service forgets to clear.
ClearForgotten(w) ==
    /\ Table!Invalidate(w)
    /\ UNCHANGED <<cacheVars, search, overlapped>>

ClearForWrite(w) ==
    /\ Table!At(w, "invalidate")
    /\ \/ (ClearRead(w) \/ ClearDelete(w)) /\ UNCHANGED tableVars
       \/ ClearIndex(w) /\ Table!Invalidate(w)
    /\ UNCHANGED <<search, overlapped>>

\* A failed write rolls back the table; what it cleared stays cleared.
AbortWrite(w) ==
    /\ Table!Abort(w)
    /\ IF Free(w) THEN UNCHANGED cacheVars ELSE Crash(w)
    /\ UNCHANGED <<search, overlapped>>

Time == Tick /\ UNCHANGED <<tableVars, search, overlapped>>

\* The listings that matched a search's query at some moment since it began,
\* those that matched at every moment, and whether it got its result from the
\* table or from an entry no race has touched.
NoWindow == [some |-> {}, every |-> Ids, trusted |-> TRUE]

Seen(w) ==
    LET q == search[w].query
        hit == search[w] = NoSearch /\ search'[w].pc = "materialise" IN
    [some |-> window[w].some \cup Result(q)',
     every |-> window[w].every \cap Result(q)',
     trusted |-> window[w].trusted /\ (hit => q' \notin suspect \cup overlapped)]

History ==
    /\ window' = [w \in Clients |-> IF search'[w] = NoSearch THEN NoWindow ELSE Seen(w)]
    /\ mixed' = [w \in Clients |->
         IF search'[w] = NoSearch \/ search'[w].pc # "store" THEN FALSE
         ELSE mixed[w] \/ rows' # rows \/ \E v \in Clients : txn'[v] # NoTxn]

-----------------------------------------------------------------------------
SearchInit ==
    /\ Table!Init /\ Init
    /\ search = [w \in Clients |-> NoSearch]
    /\ window = [w \in Clients |-> NoWindow]
    /\ mixed = [w \in Clients |-> FALSE]
    /\ overlapped = {}

SearchStep(w) ==
    \/ \E q \in Keys : SearchHit(w, q) \/ SearchMiss(w, q)
    \/ SearchQuery(w) \/ SearchStore(w) \/ SearchRegister(w)
    \/ SearchMaterialise(w) \/ SearchCrash(w)

SearchNext ==
    /\ \/ \E w \in Clients :
             SearchStep(w) \/ WriteStep(w) \/ ClearForWrite(w) \/ AbortWrite(w)
       \/ Time
    /\ History

SearchSpec == SearchInit /\ [][SearchNext]_searchVars

\* Time passes at the cache server; requests may stop anywhere.
FairSearchSpec == SearchSpec /\ WF_searchVars(Time /\ History)

-----------------------------------------------------------------------------
\* A search answers for its own time: it lists no listing that did not match at
\* some moment while it ran, and misses none that matched all along, whether it
\* came from the table or from a cached entry no race has touched, although a
\* hit reads the cache and the table at different moments
\* (ListingService.search, _materialise_search_results).
AnswersAreTimely ==
    [][\A w \in Clients :
         /\ SearchMaterialise(w) \/ SearchRegister(w)
         /\ search'[w] = NoSearch
         /\ window[w].trusted
         => /\ Answer(w) \subseteq window[w].some
            /\ window[w].every \subseteq Answer(w)]_searchVars

\* A cached result that differs from what the table would answer now was read
\* or stored while a write was in progress, or the admin site has written since,
\* or its own set() met another call, or a command that set it, listed it or was
\* to delete it got lost: without that, clearing inside the writing transaction
\* is enough (_invalidate_search_cache).
StaleOnlyByOverlap ==
    \A q \in Keys \ (suspect \cup overlapped) :
        Cached(q) => entries[q].value = Result(q)

-----------------------------------------------------------------------------
(* Why the two hold.                                                       *)

\* A thread searches or writes, and its cache commands are those of the one or
\* the other.
CallsBelong ==
    \A w \in Clients :
        /\ search[w] # NoSearch => Table!Idle(w)
        /\ \/ Free(w)
           \/ Searching(w, "register") /\ Setting(w)
           \/ Table!At(w, "invalidate") /\ Clearing(w)

\* A write of the service that is about to commit leaves no result cached that
\* it could make stale unnoticed.
CommitsAreCleared ==
    \A w \in Clients : Table!At(w, "commit") /\ ByService(w) =>
        \A q \in Keys : Cached(q) => q \in suspect \cup overlapped

\* A search that has met no write is about to store what the table holds.
ReadsAreCurrent ==
    \A w \in Clients : Searching(w, "store") /\ ~mixed[w] =>
        /\ search[w].found = Result(search[w].query)
        /\ \A v \in Clients : Table!Idle(v)

\* What a search has found lies between the two ends of its window, and what
\* matched all along matches now.
WindowsBound ==
    \A w \in Clients :
        IF search[w] = NoSearch THEN window[w] = NoWindow
        ELSE /\ window[w].every \subseteq Result(search[w].query)
             /\ \/ Searching(w, "query")
                \/ Searching(w, "materialise") /\ ~window[w].trusted
                \/ /\ search[w].found \subseteq window[w].some
                   /\ window[w].every \subseteq search[w].found

\* What the proofs use of the types of ListingStore.
TxnsAreRecords ==
    /\ DOMAIN txn = Clients
    /\ \A w \in Clients : ~Table!Idle(w) => {"pc", "actor"} \subseteq DOMAIN txn[w]

SearchIInv ==
    /\ IInv /\ OwnTypes /\ TxnsAreRecords /\ CallsBelong
    /\ StaleOnlyByOverlap /\ CommitsAreCleared /\ ReadsAreCurrent /\ WindowsBound

-----------------------------------------------------------------------------
\* Once the table changes no more, searches become right and stay right, even if
\* cache commands get lost and processes die: an entry lives for one lifetime
\* and only a result that was read before the last write can be stale
\* (LISTING_SEARCH_TTL).
Current == \A q \in Keys : Cached(q) => entries[q].value = Result(q)

EventuallyCurrent == <>[][FALSE]_rows => <>[]Current

\* "Any create, update or delete clears the namespace, so cached results cannot
\* outlive a write." (listing_service.py, search): with no request in progress,
\* a cached result is what the table would answer.
CachedResultsAreCurrent == (\A w \in Clients : Idle(w)) => Current
=============================================================================
