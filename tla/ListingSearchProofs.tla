------------------------ MODULE ListingSearchProofs ------------------------
(***************************************************************************)
(* Theorems about ListingSearch: the composition is a behaviour of its two *)
(* parts, a cached result is stale only by an overlap, and a search        *)
(* answers for its own time.  What the clears know of the cache is proved  *)
(* in CacheManagerProofs; of the table little is needed, and nothing of    *)
(* its rows but that they change at a commit.                              *)
(***************************************************************************)
EXTENDS ListingSearch, CacheManagerProofs

-----------------------------------------------------------------------------
(* What the steps do to the table.                                         *)

\* A request that begins is not about to commit.
LEMMA BeginStep ==
    ASSUME TxnsAreRecords, NEW w \in Clients, NEW first \in {"save", "insert"},
           NEW op, NEW actor, NEW i, NEW supplied, NEW inst,
           Table!Begin(w, first, op, actor, i, supplied, inst)
    PROVE  /\ TxnsAreRecords' /\ ~Table!At(w, "commit")' /\ rows' = rows
           /\ \A v \in Clients \ {w} : txn'[v] = txn[v]
<1> DEFINE t == [pc |-> first, op |-> op, actor |-> actor, id |-> i,
                 supplied |-> supplied, inst |-> inst]
<1>1. rows' = rows /\ txn' = [txn EXCEPT ![w] = t]
  BY DEF Table!Begin
<1>2. t.pc # "commit" /\ {"pc", "actor"} \subseteq DOMAIN t
  OBVIOUS
<1> HIDE DEF t
<1>3. DOMAIN txn' = Clients /\ txn'[w] = t /\ \A v \in Clients \ {w} : txn'[v] = txn[v]
  BY <1>1 DEF TxnsAreRecords
<1>4. QED BY <1>1, <1>2, <1>3 DEF TxnsAreRecords, Table!At, Table!Idle

\* A refused request changes nothing.
LEMMA AnswerStep ==
    ASSUME TxnsAreRecords, NEW w \in Clients, NEW status, Table!Answer(w, status)
    PROVE  /\ TxnsAreRecords' /\ ~Table!At(w, "commit")' /\ rows' = rows
           /\ \A v \in Clients \ {w} : txn'[v] = txn[v]
  BY DEF Table!Answer, Table!vars, Table!Idle, Table!At, TxnsAreRecords

\* A transaction that ends leaves its thread idle.
LEMMA FinishStep ==
    ASSUME TxnsAreRecords, NEW w \in Clients, Table!Finish(w)
    PROVE  /\ TxnsAreRecords' /\ Table!Idle(w)'
           /\ \A v \in Clients \ {w} : txn'[v] = txn[v]
  BY DEF Table!Finish, Table!Idle, TxnsAreRecords

\* A transaction moves on.
LEMMA PcStep ==
    ASSUME TxnsAreRecords, NEW w \in Clients, ~Table!Idle(w), NEW pc,
           txn' = [txn EXCEPT ![w].pc = pc]
    PROVE  /\ TxnsAreRecords' /\ txn'[w].pc = pc /\ txn'[w].actor = txn[w].actor
           /\ \A v \in Clients \ {w} : txn'[v] = txn[v]
<1> DEFINE t == [txn[w] EXCEPT !.pc = pc]
<1>1. {"pc", "actor"} \subseteq DOMAIN txn[w] /\ DOMAIN txn = Clients
  BY DEF TxnsAreRecords
<1>2. DOMAIN t = DOMAIN txn[w] /\ t.pc = pc /\ t.actor = txn[w].actor
  BY <1>1
<1>3. txn' = [txn EXCEPT ![w] = t]
  OBVIOUS
<1> HIDE DEF t
<1>4. DOMAIN txn' = Clients /\ txn'[w] = t /\ \A v \in Clients \ {w} : txn'[v] = txn[v]
  BY <1>1, <1>3
<1>5. QED BY <1>1, <1>2, <1>4 DEF TxnsAreRecords, Table!Idle

\* What a step of a write, or of the admin site, tells the cache of the table:
\* rows change when a transaction commits, or behind the service's back.
LEMMA WriteShape ==
    ASSUME TxnsAreRecords, NEW w \in Clients, WriteStep(w)
    PROVE  /\ TxnsAreRecords' /\ ~(Table!At(w, "commit")' /\ ByService(w)')
           /\ \A v \in Clients \ {w} : txn'[v] = txn[v]
           /\ \/ rows' = rows
              \/ Table!At(w, "commit") /\ ByService(w)
              \/ overlapped' = Keys
           /\ ~Table!At(w, "invalidate")
<1> DEFINE Goal == /\ TxnsAreRecords' /\ ~(Table!At(w, "commit")' /\ ByService(w)')
                   /\ \A v \in Clients \ {w} : txn'[v] = txn[v]
<1>0. ASSUME NEW actor, NEW i, Table!Idle(w), Table!SoftDelete(w, actor, i) PROVE Goal
  <2>1. CASE UNCHANGED Table!vars
    BY <1>0, <2>1 DEF Table!vars, Table!Idle, Table!At, TxnsAreRecords
  <2>2. QED BY <1>0, <2>1, BeginStep DEF Table!SoftDelete
<1>1. CASE Table!ApiRequest(w)
  <2>1. ASSUME Table!Refuse(w) PROVE Goal
    BY <2>1, AnswerStep DEF Table!Refuse
  <2>2. ASSUME NEW actor \in Users, NEW new \in Table!Payload, NEW wanted \in Table!MaybeUser,
               Table!Create(w, actor, new, wanted)
        PROVE  Goal
    BY <2>2, AnswerStep, BeginStep DEF Table!Create
  <2>3. ASSUME NEW actor \in Users, NEW i \in Ids, NEW partial \in BOOLEAN,
               NEW new \in Table!PartialPayload, NEW wanted \in Table!MaybeUser,
               Table!Update(w, actor, i, partial, new, wanted)
        PROVE  Goal
    BY <2>3, AnswerStep, BeginStep DEF Table!Update
  <2>4. ASSUME NEW actor \in Users, NEW i \in Ids, Table!Delete(w, actor, i)
        PROVE  Goal
    BY <1>0, <2>4, AnswerStep DEF Table!Delete
  <2>5. Table!Idle(w)
    BY <1>1 DEF Table!ApiRequest, Table!Refuse, Table!Create, Table!Update, Table!Delete
  <2>6. Goal
    BY <1>1, <2>1, <2>2, <2>3, <2>4 DEF Table!ApiRequest
  <2>7. QED BY <2>5, <2>6 DEF WriteStep, ByService, Table!Idle, Table!At
<1>2. CASE Table!AdminRequest(w)
  <2>1. ASSUME NEW agent \in Users, NEW new \in Table!Payload, Table!AdminAdd(w, agent, new)
        PROVE  Goal
    BY <2>1, BeginStep DEF Table!AdminAdd
  <2>2. ASSUME NEW i \in Ids, NEW agent \in Users, NEW new \in Table!Payload,
               Table!AdminChange(w, i, agent, new)
        PROVE  Goal
    BY <2>2, BeginStep DEF Table!AdminChange
  <2>3. ASSUME NEW i \in Ids, Table!AdminDelete(w, i)
        PROVE  Goal
    BY <1>0, <2>3 DEF Table!AdminDelete
  <2>4. ASSUME NEW S \in SUBSET Ids, Table!AdminRestore(w, S) \/ Table!AdminHardDelete(w, S)
        PROVE  Goal
    BY <2>4 DEF Table!AdminRestore, Table!AdminHardDelete, Table!AdminStatement,
                Table!Idle, Table!At, TxnsAreRecords
  <2>5. Table!Idle(w)
    BY <1>2 DEF Table!AdminRequest, Table!AdminAdd, Table!AdminChange, Table!AdminDelete,
                Table!AdminRestore, Table!AdminHardDelete, Table!AdminStatement
  <2>6. Goal
    BY <1>2, <2>1, <2>2, <2>3, <2>4 DEF Table!AdminRequest
  <2>7. QED BY <2>5, <2>6 DEF WriteStep, ByService, Table!Idle, Table!At
<1>3. ASSUME Table!Wrote(w), ~Table!Idle(w)
      PROVE  Goal
  <2> DEFINE pc == Table!AfterWrite(txn[w])
  <2>1. txn' = [txn EXCEPT ![w].pc = pc]
    BY <1>3 DEF Table!Wrote
  <2> HIDE DEF pc
  <2>2. /\ TxnsAreRecords' /\ txn'[w].pc = pc /\ txn'[w].actor = txn[w].actor
        /\ \A v \in Clients \ {w} : txn'[v] = txn[v]
    BY <1>3, <2>1, PcStep
  <2>3. QED BY <2>2 DEF pc, Table!AfterWrite, Table!At, ByService
<1>4. ASSUME Table!Finish(w)
      PROVE  Goal
  BY <1>4, FinishStep DEF Table!Idle, Table!At
<1>5. CASE Table!Save(w)
  <2>1. ~Table!Idle(w) /\ ~Table!At(w, "invalidate")
    BY <1>5 DEF Table!Save, Table!At, Table!Idle
  <2>2. rows' = rows
    BY <1>5 DEF Table!Save, Table!Wrote, Table!Rollback
  <2>3. Goal
    BY <1>3, <1>4, <1>5, <2>1, PcStep DEF Table!Save, Table!Rollback, Table!At
  <2>4. QED BY <2>1, <2>2, <2>3
<1>6. CASE Table!Insert(w)
  <2>1. ~Table!Idle(w) /\ ~Table!At(w, "invalidate")
    BY <1>6 DEF Table!Insert, Table!At, Table!Idle
  <2>2. rows' = rows
    BY <1>6 DEF Table!Insert, Table!Wrote, Table!Rollback
  <2>3. Goal
    BY <1>3, <1>4, <1>6, <2>1 DEF Table!Insert, Table!Rollback
  <2>4. QED BY <2>1, <2>2, <2>3
<1>7. CASE Table!Commit(w)
  <2>1. Goal
    BY <1>4, <1>7 DEF Table!Commit
  <2>2. QED BY <1>7, <2>1 DEF Table!Commit, WriteStep, Table!At
<1>8. QED BY <1>1, <1>2, <1>5, <1>6, <1>7 DEF WriteStep

-----------------------------------------------------------------------------
(* What the steps do to the cache.                                         *)

\* The commands that cache nothing.
Quiet ==
    /\ suspect \subseteq suspect'
    /\ \A q \in Keys : Cached(q)' => Cached(q) /\ entries'[q].value = entries[q].value

\* Of the commands, only the first of a set() caches anything or clears a key of
\* suspicion.
LEMMA QuietSteps ==
    ASSUME TypeOK, NEW w \in Clients,
           \/ RegisterRead(w) \/ RegisterWrite(w)
           \/ ClearRead(w) \/ ClearDelete(w) \/ ClearIndex(w)
           \/ Crash(w) \/ UNCHANGED cacheVars
    PROVE  Quiet
<1>1. CASE RegisterRead(w) \/ RegisterWrite(w)
  BY <1>1 DEF TypeOK, RegisterRead, RegisterWrite, Quiet, Cached
<1>2. CASE ClearRead(w) \/ ClearIndex(w)
  BY <1>2 DEF TypeOK, ClearRead, ClearIndex, SuspectOnClear, Quiet, Cached
<1>3. CASE ClearDelete(w)
  <2>1. entries' = entries \/ \E k \in call[w].keys : entries' = [entries EXCEPT ![k] = Absent]
    BY <1>3 DEF ClearDelete
  <2>2. suspect \subseteq suspect'
    BY <1>3 DEF ClearDelete, TypeOK
  <2>3. QED BY <2>1, <2>2 DEF TypeOK, Quiet, Cached
<1>4. CASE Crash(w)
  BY <1>4 DEF Crash, Quiet, Cached
<1>5. CASE UNCHANGED cacheVars
  BY <1>5 DEF cacheVars, Quiet, Cached
<1>6. QED BY <1>1, <1>2, <1>3, <1>4, <1>5

\* Time passing caches nothing either.
LEMMA QuietTick == TypeOK /\ Tick => Quiet
<1> SUFFICES ASSUME TypeOK, Tick, NEW q \in Keys, Cached(q)'
             PROVE  Cached(q) /\ entries'[q].value = entries[q].value
  BY DEF Tick, Quiet
<1>1. entries'[q] = Aged(q) /\ Aged(q) # Absent
  BY DEF Tick, Cached
<1>2. Cached(q) /\ entries[q] \in Entry /\ Aged(q) = [entries[q] EXCEPT !.ttl = @ - 1]
  BY <1>1 DEF Aged, Cached, TypeOK
<1>3. QED BY <1>1, <1>2 DEF Entry

-----------------------------------------------------------------------------
(* What the steps do to the searches.                                      *)

Found(pc, q, found) == [pc |-> pc, query |-> q, found |-> found]

\* How a search goes on, from nothing or from where it is, to s.
Becomes(w, s) ==
    \/ s = NoSearch
    \/ \E q \in Keys :
          \/ SearchHit(w, q) /\ Cached(q) /\ s = Found("materialise", q, entries[q].value)
          \/ SearchMiss(w, q) /\ s = Found("query", q, {})
    \/ SearchQuery(w) /\ s = Found("store", search[w].query, Result(search[w].query))
    \/ SearchStore(w) /\ s = Found("register", search[w].query, search[w].found)

\* A search is a record of its place, its query and what it has found.
LEMMA SearchRecord ==
    ASSUME NEW pc \in {"query", "store", "register", "materialise"},
           NEW q \in Keys, NEW found \in SUBSET Ids
    PROVE  /\ Found(pc, q, found) \in Search
           /\ Found(pc, q, found).pc = pc /\ Found(pc, q, found).query = q
           /\ Found(pc, q, found).found = found
  BY DEF Found, Search

\* Each step takes at most one search further.
LEMMA SearchShape ==
    ASSUME TypeOK, OwnTypes, SearchNext
    PROVE  \/ search' = search
           \/ \E w \in Clients, s \in Search \cup {NoSearch} :
                 search' = [search EXCEPT ![w] = s] /\ Becomes(w, s)
<1> DEFINE Goal == \E w \in Clients, s \in Search \cup {NoSearch} :
                      search' = [search EXCEPT ![w] = s] /\ Becomes(w, s)
<1>1. ASSUME NEW w \in Clients, NEW q \in Keys, SearchHit(w, q)
      PROVE  Goal
  <2>1. Get(q) = entries[q].value /\ entries[q].value \in SUBSET Ids
    BY <1>1, SearchAssumption DEF SearchHit, Get, Cached, TypeOK, Entry
  <2>2. search' = [search EXCEPT ![w] = Found("materialise", q, entries[q].value)]
    BY <1>1, <2>1 DEF SearchHit, Goes, Found
  <2>3. Becomes(w, Found("materialise", q, entries[q].value))
    BY <1>1 DEF Becomes, SearchHit
  <2>4. QED BY <2>1, <2>2, <2>3, SearchRecord
<1>2. ASSUME NEW w \in Clients, NEW q \in Keys, SearchMiss(w, q)
      PROVE  Goal
  <2>1. search' = [search EXCEPT ![w] = Found("query", q, {})]
    BY <1>2 DEF SearchMiss, Goes, Found
  <2>2. Becomes(w, Found("query", q, {}))
    BY <1>2 DEF Becomes
  <2>3. QED BY <2>1, <2>2, SearchRecord
<1>3. ASSUME NEW w \in Clients, SearchQuery(w)
      PROVE  Goal
  <2> DEFINE q == search[w].query
  <2>1. q \in Keys /\ Result(q) \in SUBSET Ids
    BY <1>3 DEF SearchQuery, Searching, OwnTypes, Search, Result, LiveIds
  <2>2. search' = [search EXCEPT ![w] = Found("store", q, Result(q))]
    BY <1>3 DEF SearchQuery, Goes, Found
  <2>3. Becomes(w, Found("store", q, Result(q)))
    BY <1>3 DEF Becomes
  <2>4. QED BY <2>1, <2>2, <2>3, SearchRecord
<1>4. ASSUME NEW w \in Clients, SearchStore(w)
      PROVE  Goal
  <2> DEFINE q == search[w].query
             found == search[w].found
  <2>1. q \in Keys /\ found \in SUBSET Ids
    BY <1>4 DEF SearchStore, Searching, OwnTypes, Search
  <2>2. search' = [search EXCEPT ![w] = Found("register", q, found)]
    BY <1>4 DEF SearchStore, Goes, Found
  <2>3. Becomes(w, Found("register", q, found))
    BY <1>4 DEF Becomes
  <2>4. QED BY <2>1, <2>2, <2>3, SearchRecord
<1>5. ASSUME NEW w \in Clients, SearchRegister(w) \/ SearchMaterialise(w) \/ SearchCrash(w)
      PROVE  search' = search \/ Goal
  BY <1>5 DEF SearchRegister, SearchMaterialise, SearchCrash, Ends, Becomes
<1>6. ASSUME NEW w \in Clients, WriteStep(w) \/ ClearForWrite(w) \/ AbortWrite(w)
      PROVE  search' = search
  BY <1>6 DEF WriteStep, ClearForWrite, AbortWrite
<1>7. Time => search' = search
  BY DEF Time
<1>8. QED BY <1>1, <1>2, <1>3, <1>4, <1>5, <1>6, <1>7 DEF SearchNext, SearchStep

\* The types of what a thread keeps while it searches.
LEMMA OwnTypeStep == TypeOK /\ OwnTypes /\ [SearchNext]_searchVars => OwnTypes'
<1> SUFFICES ASSUME TypeOK, OwnTypes, SearchNext PROVE OwnTypes'
  BY DEF OwnTypes, searchVars
<1>1. search' \in [Clients -> Search \cup {NoSearch}]
  BY SearchShape DEF OwnTypes
<1>2. \A q : Result(q)' \subseteq Ids
  BY DEF Result, LiveIds
<1>3. ASSUME NEW w \in Clients
      PROVE  Seen(w) \in [some : SUBSET Ids, every : SUBSET Ids, trusted : BOOLEAN]
  BY <1>2 DEF Seen, OwnTypes
<1>4. NoWindow \in [some : SUBSET Ids, every : SUBSET Ids, trusted : BOOLEAN]
  BY DEF NoWindow
<1>5. window' \in [Clients -> [some : SUBSET Ids, every : SUBSET Ids, trusted : BOOLEAN]]
  BY <1>3, <1>4 DEF SearchNext, History
<1>6. mixed' \in [Clients -> BOOLEAN]
  BY DEF SearchNext, History, OwnTypes
<1>7. overlapped' \in SUBSET Keys
  <2>1. ASSUME NEW w \in Clients, SearchStore(w)
        PROVE  overlapped' \in SUBSET Keys
    <3>1. search[w].query \in Keys
      BY <2>1 DEF SearchStore, Searching, OwnTypes, Search
    <3>2. QED BY <2>1, <3>1 DEF SearchStore, OwnTypes
  <2>2. QED BY <2>1 DEF SearchNext, SearchStep, SearchHit, SearchMiss, SearchQuery, SearchRegister,
                        SearchMaterialise, SearchCrash, WriteStep, ClearForWrite, AbortWrite,
                        Time, OwnTypes
<1>8. QED BY <1>1, <1>5, <1>6, <1>7 DEF OwnTypes

-----------------------------------------------------------------------------
(* Whose commands the cache receives.                                      *)

\* Where the commands leave the call of their client.
LEMMA CallSteps ==
    ASSUME TypeOK, NEW w \in Clients
    PROVE  /\ \A k \in Keys, v \in Content : Store(w, k, v) => Aside(w) /\ Setting(w)'
           /\ RegisterRead(w) => Aside(w) /\ Setting(w)'
           /\ ClearRead(w) \/ ClearDelete(w) => Aside(w) /\ Clearing(w)'
           /\ RegisterWrite(w) \/ ClearIndex(w) \/ Crash(w) => Aside(w) /\ Free(w)'
<1>1. ASSUME NEW k \in Keys, NEW v \in Content, Store(w, k, v)
      PROVE  Aside(w) /\ Setting(w)'
  <2> DEFINE new == [pc |-> "register_read", key |-> k, keys |-> {}]
  <2>1. new \in Call /\ new.pc = "register_read"
    BY NewCalls
  <2>2. call' = [call EXCEPT ![w] = new]
    BY <1>1 DEF Store
  <2> HIDE DEF new
  <2>3. QED BY <2>1, <2>2, OthersUntouched, CacheAssumption DEF Setting, At, Free
<1>2. ASSUME RegisterRead(w)
      PROVE  Aside(w) /\ Setting(w)'
  <2>1. PICK seen \in SUBSET Keys :
          call' = [call EXCEPT ![w].pc = "register_write", ![w].keys = seen]
    BY <1>2 DEF RegisterRead, IndexReads, TypeOK
  <2> DEFINE new == [pc |-> "register_write", key |-> call[w].key, keys |-> seen]
  <2>2. call[w] \in SetCall /\ call[w].key \in Keys
    BY <1>2, CallShape DEF RegisterRead, Setting
  <2>3. new \in Call /\ new.pc = "register_write"
    BY <2>2, NewCalls
  <2>4. [call[w] EXCEPT !.pc = "register_write", !.keys = seen] = new
    BY <2>2, ReadCall
  <2>5. call' = [call EXCEPT ![w] = new]
    BY <2>1, <2>4
  <2> HIDE DEF new
  <2>6. QED BY <2>3, <2>5, OthersUntouched, CacheAssumption DEF Setting, At, Free
<1>3. ASSUME ClearRead(w)
      PROVE  Aside(w) /\ Clearing(w)'
  <2>1. PICK seen \in SUBSET Keys : call' = [call EXCEPT ![w] = [pc |-> "clear", keys |-> seen]]
    BY <1>3 DEF ClearRead, IndexReads, TypeOK
  <2> DEFINE new == [pc |-> "clear", keys |-> seen]
  <2>2. new \in Call /\ new.pc = "clear" /\ call' = [call EXCEPT ![w] = new]
    BY <2>1, NewCalls
  <2> HIDE DEF new
  <2>3. QED BY <2>2, OthersUntouched, CacheAssumption DEF Clearing, At, Free
<1>4. ASSUME ClearDelete(w)
      PROVE  Aside(w) /\ Clearing(w)'
  <2>1. PICK k \in call[w].keys : call' = [call EXCEPT ![w].keys = @ \ {k}]
    BY <1>4 DEF ClearDelete
  <2> DEFINE new == [pc |-> "clear", keys |-> call[w].keys \ {k}]
  <2>2. call[w] \in ClearCall /\ call[w].keys \subseteq Keys
    BY <1>4, CallShape DEF ClearDelete
  <2>3. [call[w] EXCEPT !.keys = @ \ {k}] = new
    BY <2>2 DEF ClearCall
  <2>4. new \in Call /\ new.pc = "clear"
    BY <2>2, NewCalls
  <2>5. call' = [call EXCEPT ![w] = new]
    BY <2>1, <2>3
  <2> HIDE DEF new
  <2>6. QED BY <2>4, <2>5, OthersUntouched, CacheAssumption DEF Clearing, At, Free
<1>5. RegisterWrite(w) \/ ClearIndex(w) \/ Crash(w) => Aside(w) /\ Free(w)'
  BY OthersUntouched DEF RegisterWrite, ClearIndex, Crash, Free
<1>6. QED BY <1>1, <1>2, <1>3, <1>4, <1>5

\* A thread between requests, or that has just begun a search, has no cache call
\* in progress.
LEMMA FreeThreads ==
    ASSUME CallsBelong, NEW w \in Clients
    PROVE  /\ ~Searching(w, "register") /\ ~Table!At(w, "invalidate") => Free(w)
           /\ search[w] # NoSearch => ~Table!At(w, "invalidate")
  BY DEF CallsBelong, Table!At, Table!Idle

\* Every step of the composition is a step of the cache, or none.
LEMMA CacheStep ==
    TypeOK /\ OwnTypes /\ CallsBelong /\ [SearchNext]_searchVars => [Next]_vars
<1> SUFFICES ASSUME TypeOK, OwnTypes, CallsBelong, SearchNext PROVE [Next]_vars
  BY DEF searchVars, cacheVars, vars
<1>1. UNCHANGED cacheVars => UNCHANGED vars
  BY DEF cacheVars, vars
<1>2. ASSUME NEW w \in Clients, SearchStore(w)
      PROVE  Next
  <2>1. search[w].query \in Keys /\ search[w].found \in Content
    BY <1>2, SearchAssumption DEF SearchStore, Searching, OwnTypes, Search
  <2>2. Free(w)
    BY <1>2, FreeThreads DEF SearchStore, Searching
  <2>3. Set(w, search[w].query, search[w].found)
    BY <1>2, <2>2 DEF SearchStore, Set
  <2>4. QED BY <2>1, <2>3 DEF Next
<1>3. ASSUME NEW w \in Clients, SearchStep(w)
      PROVE  [Next]_vars
  BY <1>1, <1>2, <1>3 DEF SearchStep, SearchHit, SearchMiss, SearchQuery, SearchRegister,
                          SearchMaterialise, SearchCrash, Next, Continue
<1>4. ASSUME NEW w \in Clients, WriteStep(w) \/ ClearForWrite(w) \/ AbortWrite(w)
      PROVE  [Next]_vars
  BY <1>1, <1>4 DEF WriteStep, ClearForWrite, AbortWrite, Next, Continue
<1>5. Time => Next
  BY DEF Time, Next
<1>6. QED BY <1>3, <1>4, <1>5 DEF SearchNext

\* Every step of the composition is a step of the table, or none.
LEMMA TableStep == [SearchNext]_searchVars => [Table!Next]_tableVars
<1> SUFFICES ASSUME SearchNext PROVE [Table!Next]_tableVars
  BY DEF searchVars, tableVars
<1>1. ASSUME NEW w \in Clients, SearchStep(w)
      PROVE  UNCHANGED tableVars
  BY <1>1 DEF SearchStep, SearchHit, SearchMiss, SearchQuery, SearchStore, SearchRegister,
              SearchMaterialise, SearchCrash
<1>2. ASSUME NEW w \in Clients, WriteStep(w) \/ ClearForWrite(w) \/ AbortWrite(w)
      PROVE  [Table!Next]_tableVars
  BY <1>2 DEF WriteStep, ClearForWrite, AbortWrite, Table!Next, Table!Continue
<1>3. Time => UNCHANGED tableVars
  BY DEF Time
<1>4. QED BY <1>1, <1>2, <1>3 DEF SearchNext

\* What one step does to transactions: at most one changes, and one that comes to
\* its commit has cleared the cache.
LEMMA TxnStep ==
    ASSUME TxnsAreRecords, SearchNext
    PROVE  /\ TxnsAreRecords'
           /\ \/ UNCHANGED tableVars
              \/ \E w \in Clients :
                    /\ \A v \in Clients \ {w} : txn'[v] = txn[v]
                    /\ \/ WriteStep(w) /\ ~(Table!At(w, "commit")' /\ ByService(w)')
                       \/ AbortWrite(w) /\ Table!Idle(w)' /\ rows' = rows
                       \/ ClearForWrite(w) /\ ClearIndex(w) /\ rows' = rows
<1>1. ASSUME NEW w \in Clients, WriteStep(w)
      PROVE  /\ TxnsAreRecords' /\ ~(Table!At(w, "commit")' /\ ByService(w)')
             /\ \A v \in Clients \ {w} : txn'[v] = txn[v]
  BY <1>1, WriteShape
<1>2. ASSUME NEW w \in Clients, AbortWrite(w)
      PROVE  /\ TxnsAreRecords' /\ Table!Idle(w)' /\ rows' = rows
             /\ \A v \in Clients \ {w} : txn'[v] = txn[v]
  BY <1>2, FinishStep DEF AbortWrite, Table!Abort, Table!Rollback
<1>3. ASSUME NEW w \in Clients, ClearForWrite(w), ClearIndex(w), Table!Invalidate(w)
      PROVE  /\ TxnsAreRecords' /\ rows' = rows
             /\ \A v \in Clients \ {w} : txn'[v] = txn[v]
  <2>1. ~Table!Idle(w) /\ txn' = [txn EXCEPT ![w].pc = "commit"] /\ rows' = rows
    BY <1>3 DEF Table!Invalidate, Table!At, Table!Idle
  <2>2. QED BY <2>1, PcStep
<1>4. ASSUME UNCHANGED tableVars
      PROVE  TxnsAreRecords'
  BY <1>4 DEF tableVars, TxnsAreRecords, Table!Idle
<1>5. ASSUME NEW w \in Clients, ClearForWrite(w)
      PROVE  \/ UNCHANGED tableVars
             \/ ClearIndex(w) /\ Table!Invalidate(w)
  BY <1>5 DEF ClearForWrite
<1>6. ASSUME NEW w \in Clients, SearchStep(w)
      PROVE  UNCHANGED tableVars
  BY <1>6 DEF SearchStep, SearchHit, SearchMiss, SearchQuery, SearchStore, SearchRegister,
              SearchMaterialise, SearchCrash
<1>7. Time => UNCHANGED tableVars
  BY DEF Time
<1>8. QED BY <1>1, <1>2, <1>3, <1>4, <1>5, <1>6, <1>7 DEF SearchNext

\* A step of one thread leaves the calls, the search and the write of the others,
\* and its own call belongs to what it is doing.
LEMMA BelongStep ==
    TypeOK /\ OwnTypes /\ TxnsAreRecords /\ CallsBelong /\ [SearchNext]_searchVars
        => CallsBelong'
<1> DEFINE Belongs(v) == /\ search[v] # NoSearch => Table!Idle(v)
                         /\ \/ Free(v)
                            \/ Searching(v, "register") /\ Setting(v)
                            \/ Table!At(v, "invalidate") /\ Clearing(v)
<1>1. UNCHANGED searchVars /\ CallsBelong => CallsBelong'
  BY DEF searchVars, tableVars, cacheVars, CallsBelong, Table!Idle, Table!At, Free, At, Setting,
         Clearing, Searching
<1> SUFFICES ASSUME TypeOK, OwnTypes, TxnsAreRecords, CallsBelong, SearchNext
             PROVE  CallsBelong'
  BY <1>1
<1>2. \A v \in Clients : Belongs(v)
  BY DEF CallsBelong
<1>3. ASSUME NEW v \in Clients, UNCHANGED <<txn[v], search[v]>>,
             call'[v] = call[v]
      PROVE  Belongs(v)'
  BY <1>2, <1>3 DEF Table!Idle, Table!At, Free, At, Setting, Clearing, Searching
<1>4. UNCHANGED cacheVars => call' = call
  BY DEF cacheVars
<1>5. UNCHANGED tableVars => txn' = txn
  BY DEF tableVars
<1>6. ASSUME NEW w \in Clients,
             \A v \in Clients \ {w} : UNCHANGED <<txn[v], search[v]>> /\ call'[v] = call[v],
             Belongs(w)'
      PROVE  CallsBelong'
  BY <1>3, <1>6 DEF CallsBelong
<1>7. ASSUME NEW w \in Clients, NEW q \in Keys, SearchHit(w, q) \/ SearchMiss(w, q)
      PROVE  CallsBelong'
  <2>1. /\ txn' = txn /\ call' = call /\ Table!Idle(w) /\ Free(w)
        /\ \A v \in Clients \ {w} : search'[v] = search[v]
    BY <1>2, <1>4, <1>5, <1>7 DEF SearchHit, SearchMiss, Goes, OwnTypes, Idle, Table!Idle,
                                  Table!At, Searching
  <2>2. Belongs(w)'
    BY <2>1 DEF Table!Idle, Free
  <2>3. QED BY <1>6, <2>1, <2>2
<1>8. ASSUME NEW w \in Clients, SearchQuery(w) \/ SearchMaterialise(w)
      PROVE  CallsBelong'
  <2>1. /\ txn' = txn /\ call' = call /\ Table!Idle(w) /\ Free(w)
        /\ \A v \in Clients \ {w} : search'[v] = search[v]
    BY <1>2, <1>4, <1>5, <1>8 DEF SearchQuery, SearchMaterialise, Goes, Ends, OwnTypes,
                                  Table!Idle, Table!At, Searching
  <2>2. Belongs(w)'
    BY <2>1 DEF Table!Idle, Free
  <2>3. QED BY <1>6, <2>1, <2>2
<1>9. ASSUME NEW w \in Clients, SearchStore(w)
      PROVE  CallsBelong'
  <2>1. search[w].query \in Keys /\ search[w].found \in Content /\ Table!Idle(w)
    BY <1>2, <1>9, SearchAssumption DEF SearchStore, Searching, OwnTypes, Search
  <2>2. Aside(w) /\ Setting(w)' /\ txn' = txn
    BY <1>5, <1>9, <2>1, CallSteps DEF SearchStore
  <2>3. search' = [search EXCEPT ![w] = Found("register", search[w].query, search[w].found)]
    BY <1>9 DEF SearchStore, Goes, Found
  <2>4. Searching(w, "register")' /\ \A v \in Clients \ {w} : search'[v] = search[v]
    BY <2>1, <2>3, SearchRecord, SearchAssumption DEF OwnTypes, Searching
  <2>5. QED BY <1>6, <2>1, <2>2, <2>4 DEF Aside, Table!Idle
<1>10. ASSUME NEW w \in Clients, SearchRegister(w)
       PROVE  CallsBelong'
  <2>1. Aside(w) /\ txn' = txn /\ Table!Idle(w) /\ Searching(w, "register")
        /\ \A v \in Clients \ {w} : search'[v] = search[v]
    BY <1>2, <1>5, <1>10, CallSteps DEF SearchRegister, Ends, OwnTypes, Searching
  <2>2. Belongs(w)'
    BY <1>10, <2>1, CallSteps DEF SearchRegister, Table!Idle, Searching
  <2>3. QED BY <1>6, <2>1, <2>2 DEF Aside
<1>11. ASSUME NEW w \in Clients, SearchCrash(w)
       PROVE  CallsBelong'
  <2>1. txn' = txn /\ Table!Idle(w) /\ Free(w)'
        /\ \A v \in Clients \ {w} : search'[v] = search[v] /\ call'[v] = call[v]
    BY <1>2, <1>4, <1>5, <1>11, CallSteps DEF SearchCrash, Ends, OwnTypes, Aside, Free
  <2>2. QED BY <1>6, <2>1 DEF Table!Idle
<1>12. ASSUME NEW w \in Clients, WriteStep(w)
       PROVE  CallsBelong'
  <2>1. search' = search /\ call' = call /\ search[w] = NoSearch
    BY <1>4, <1>12 DEF WriteStep
  <2>2. /\ \A v \in Clients \ {w} : txn'[v] = txn[v]
        /\ ~Table!At(w, "invalidate")
    BY <1>12, WriteShape
  <2>3. Free(w)
    BY <1>2, <2>1, <2>2 DEF Searching
  <2>4. QED BY <1>6, <2>1, <2>2, <2>3 DEF Free
<1>13. ASSUME NEW w \in Clients, AbortWrite(w)
       PROVE  CallsBelong'
  <2>1. search' = search /\ search[w] = NoSearch /\ Free(w)'
        /\ \A v \in Clients \ {w} : call'[v] = call[v]
    BY <1>2, <1>4, <1>13, CallSteps DEF AbortWrite, Table!Abort, Aside, Free
  <2>2. \A v \in Clients \ {w} : txn'[v] = txn[v]
    BY <1>13, FinishStep DEF AbortWrite, Table!Abort, Table!Rollback
  <2>3. QED BY <1>6, <2>1, <2>2
<1>14. ASSUME NEW w \in Clients, ClearForWrite(w)
       PROVE  CallsBelong'
  <2>1. search' = search /\ search[w] = NoSearch /\ Aside(w) /\ Table!At(w, "invalidate")
    BY <1>2, <1>14, CallSteps DEF ClearForWrite, Table!At, Table!Idle
  <2>2. CASE ClearIndex(w) /\ Table!Invalidate(w)
    <3>1. \A v \in Clients \ {w} : txn'[v] = txn[v]
      BY <2>1, <2>2, PcStep DEF Table!Invalidate, Table!At, Table!Idle
    <3>2. QED BY <1>6, <2>1, <2>2, <3>1, CallSteps DEF Aside
  <2>3. CASE (ClearRead(w) \/ ClearDelete(w)) /\ UNCHANGED tableVars
    <3>1. Belongs(w)'
      BY <1>5, <2>1, <2>3, CallSteps DEF Table!At
    <3>2. QED BY <1>5, <1>6, <2>1, <2>3, <3>1 DEF Aside
  <2>4. QED BY <1>14, <2>2, <2>3 DEF ClearForWrite
<1>15. Time => CallsBelong'
  BY <1>2, <1>3, <1>5 DEF Time, Tick, CallsBelong
<1>16. QED BY <1>7, <1>8, <1>9, <1>10, <1>11, <1>12, <1>13, <1>14, <1>15
           DEF SearchNext, SearchStep

-----------------------------------------------------------------------------
(* Stale results.                                                          *)

Calm == Quiet /\ overlapped \subseteq overlapped'

\* Every other step than the storing of a result makes no result look better
\* than it is.
LEMMA CalmSteps ==
    ASSUME TypeOK, OwnTypes, SearchNext
    PROVE  Calm \/ \E w \in Clients : SearchStore(w)
<1>1. ASSUME NEW w \in Clients, SearchStep(w), ~SearchStore(w)
      PROVE  Calm
  <2>1. overlapped' = overlapped
    BY <1>1 DEF SearchStep, SearchHit, SearchMiss, SearchQuery, SearchRegister,
                SearchMaterialise, SearchCrash
  <2>2. Quiet
    BY <1>1, QuietSteps DEF SearchStep, SearchHit, SearchMiss, SearchQuery, SearchRegister,
                            SearchMaterialise, SearchCrash
  <2>3. QED BY <2>1, <2>2 DEF Calm
<1>2. ASSUME NEW w \in Clients, WriteStep(w) \/ ClearForWrite(w) \/ AbortWrite(w)
      PROVE  Calm
  <2>1. overlapped \subseteq overlapped'
    BY <1>2 DEF WriteStep, ClearForWrite, AbortWrite, OwnTypes
  <2>2. Quiet
    BY <1>2, QuietSteps DEF WriteStep, ClearForWrite, AbortWrite
  <2>3. QED BY <2>1, <2>2 DEF Calm
<1>3. Time => Calm
  BY QuietTick DEF Time, Calm
<1>4. QED BY <1>1, <1>2, <1>3 DEF SearchNext

\* What storing a result does to the cache.
LEMMA StoredResult ==
    ASSUME SearchIInv, NEW w \in Clients, SearchStore(w)
    PROVE  /\ rows' = rows /\ search[w].query \in Keys
           /\ suspect \ {search[w].query} \subseteq suspect'
           /\ \A k \in Keys \ {search[w].query} : entries'[k] = entries[k]
           /\ \/ search[w].query \in suspect'
              \/ entries'[search[w].query].value = search[w].found
<1> DEFINE q == search[w].query
           found == search[w].found
<1>1. q \in Keys /\ Store(w, q, found) /\ rows' = rows
  BY DEF SearchStore, Searching, SearchIInv, OwnTypes, Search, tableVars
<1> HIDE DEF q, found
<1>2. ASSUME entries' = [entries EXCEPT ![q] = [value |-> found, ttl |-> EntryTTL]]
      PROVE  /\ entries'[q].value = found
             /\ \A k \in Keys \ {q} : entries'[k] = entries[k]
  BY <1>1, <1>2 DEF SearchIInv, IInv, TypeOK
<1>3. suspect \ {q} \subseteq SuspectOnSet(w, q) /\ suspect \cup {q} \subseteq Raced(w, q)
  BY DEF SuspectOnSet, Raced
<1>4. QED BY <1>1, <1>2, <1>3 DEF Store, Lifetime, q, found

\* A clear that ends inside a write leaves no result that the commit could make
\* stale; one that is stored between the two has met the write.
LEMMA CommitsStep ==
    ASSUME SearchIInv, SearchNext
    PROVE  CommitsAreCleared'
<1>0. /\ TypeOK /\ OwnTypes /\ TxnsAreRecords /\ CommitsAreCleared /\ ReadsAreCurrent
      /\ suspect \subseteq Keys
  BY DEF SearchIInv, IInv, TypeOK
<1> SUFFICES ASSUME NEW v \in Clients, Table!At(v, "commit")', ByService(v)',
                    NEW k \in Keys, Cached(k)'
             PROVE  k \in suspect' \cup overlapped'
  BY DEF CommitsAreCleared
<1>1. CASE Table!At(v, "commit") /\ ByService(v)
  <2>1. CASE Calm
    BY <1>0, <1>1, <2>1 DEF Calm, Quiet, CommitsAreCleared
  <2>2. ASSUME NEW w \in Clients, SearchStore(w)
        PROVE  k \in suspect' \cup overlapped'
    <3>1. mixed[w]
      BY <1>0, <1>1, <2>2 DEF ReadsAreCurrent, SearchStore, Table!Idle, Table!At
    <3>2. overlapped' = overlapped \cup {search[w].query}
      BY <2>2, <3>1 DEF SearchStore
    <3>3. QED BY <1>0, <1>1, <2>2, <3>2, StoredResult DEF CommitsAreCleared, Cached
  <2>3. QED BY <1>0, <2>1, <2>2, CalmSteps
<1>2. CASE ~(Table!At(v, "commit") /\ ByService(v))
  <2>1. txn'[v] # txn[v]
    BY <1>2 DEF Table!At, ByService
  <2>2. ClearIndex(v) /\ ClearForWrite(v)
    BY <1>0, <2>1, TxnStep DEF tableVars, Table!At, Table!Idle
  <2>3. Cached(k) /\ suspect \subseteq suspect'
    BY <1>0, <2>2, QuietSteps DEF Quiet
  <2>4. QED BY <2>2, <2>3, NothingLeftToClear DEF SearchIInv
<1>3. QED BY <1>1, <1>2

\* A row changes only at a commit, which has cleared the cache, or in the admin
\* site, which puts every result under suspicion.
LEMMA StaleStep ==
    ASSUME SearchIInv, SearchNext
    PROVE  StaleOnlyByOverlap'
<1>0. /\ TypeOK /\ OwnTypes /\ TxnsAreRecords /\ CommitsAreCleared /\ ReadsAreCurrent
      /\ StaleOnlyByOverlap
  BY DEF SearchIInv, IInv
<1> SUFFICES ASSUME NEW k \in Keys, k \notin suspect', k \notin overlapped', Cached(k)'
             PROVE  entries'[k].value = Result(k)'
  BY DEF StaleOnlyByOverlap
<1>1. rows' = rows => Result(k)' = Result(k)
  BY DEF Result, LiveIds, Table!Live, Table!Exists
<1>2. CASE Calm
  <2>1. Cached(k) /\ k \notin suspect \cup overlapped /\ entries'[k].value = entries[k].value
    BY <1>2 DEF Calm, Quiet
  <2>2. rows' = rows
    <3>1. ASSUME NEW w \in Clients, WriteStep(w) PROVE rows' = rows
      BY <1>0, <2>1, <3>1, WriteShape DEF CommitsAreCleared
    <3>2. QED BY <1>0, <3>1, TxnStep DEF tableVars
  <2>3. QED BY <1>0, <1>1, <2>1, <2>2 DEF StaleOnlyByOverlap
<1>3. ASSUME NEW w \in Clients, SearchStore(w)
      PROVE  entries'[k].value = Result(k)'
  <2>1. CASE k = search[w].query
    <3>1. ~mixed[w] /\ Searching(w, "store")
      BY <1>3, <2>1 DEF SearchStore
    <3>2. QED BY <1>0, <1>1, <1>3, <2>1, <3>1, StoredResult DEF ReadsAreCurrent
  <2>2. CASE k # search[w].query
    <3>1. k \notin overlapped
      BY <1>3, <2>2 DEF SearchStore
    <3>2. QED BY <1>0, <1>1, <1>3, <2>2, <3>1, StoredResult DEF StaleOnlyByOverlap, Cached
  <2>3. QED BY <2>1, <2>2
<1>4. QED BY <1>0, <1>2, <1>3, CalmSteps

\* A read that meets no write stays current until it is stored.
LEMMA ReadsStep ==
    ASSUME SearchIInv, SearchNext
    PROVE  ReadsAreCurrent'
<1>0. TypeOK /\ OwnTypes /\ ReadsAreCurrent
  BY DEF SearchIInv, IInv
<1> SUFFICES ASSUME NEW v \in Clients, Searching(v, "store")', ~mixed'[v]
             PROVE  /\ search'[v].found = Result(search[v].query)'
                    /\ \A u \in Clients : Table!Idle(u)'
  BY DEF ReadsAreCurrent
<1>1. ~mixed[v] /\ rows' = rows /\ \A u \in Clients : Table!Idle(u)'
  BY DEF SearchNext, History, Searching, Table!Idle
<1>2. Result(search[v].query)' = {i \in LiveIds : Matches(rows[i], search'[v].query)}
  BY <1>1 DEF Result, LiveIds, Table!Live, Table!Exists, Matches
<1>3. CASE search'[v] = search[v]
  BY <1>0, <1>1, <1>2, <1>3 DEF ReadsAreCurrent, Searching, Result
<1>4. CASE search'[v] # search[v]
  <2>1. PICK w \in Clients, s \in Search \cup {NoSearch} :
          search' = [search EXCEPT ![w] = s] /\ Becomes(w, s)
    BY <1>0, <1>4, SearchShape
  <2>2. w = v /\ search'[v] = s /\ s # NoSearch /\ s.pc = "store"
    BY <1>0, <1>4, <2>1 DEF OwnTypes, Searching
  <2>3. SearchQuery(v) /\ s = Found("store", search[v].query, Result(search[v].query))
    BY <2>1, <2>2 DEF Becomes, Found
  <2>4. QED BY <1>1, <1>2, <2>2, <2>3 DEF Found, Result
<1>5. QED BY <1>3, <1>4

-----------------------------------------------------------------------------
(* Answers.                                                                *)

\* A window opens with the table as it is, and only ever gets wider.
LEMMA WindowsStep ==
    ASSUME SearchIInv, SearchNext
    PROVE  WindowsBound'
<1>0. TypeOK /\ OwnTypes /\ WindowsBound /\ StaleOnlyByOverlap
  BY DEF SearchIInv, IInv
<1> DEFINE Bound(v) ==
      IF search[v] = NoSearch THEN window[v] = NoWindow
      ELSE /\ window[v].every \subseteq Result(search[v].query)
           /\ \/ Searching(v, "query")
              \/ Searching(v, "materialise") /\ ~window[v].trusted
              \/ /\ search[v].found \subseteq window[v].some
                 /\ window[v].every \subseteq search[v].found
<1> SUFFICES ASSUME NEW v \in Clients PROVE Bound(v)'
  BY DEF WindowsBound
<1>1. CASE search'[v] = NoSearch
  BY <1>1 DEF SearchNext, History
<1>2. CASE search'[v] # NoSearch
  <2> DEFINE now == Result(search[v].query)'
             hit == search[v] = NoSearch /\ search'[v].pc = "materialise"
  <2>1. /\ window'[v].some = window[v].some \cup now
        /\ window'[v].every = window[v].every \cap now
        /\ window'[v].trusted <=>
             window[v].trusted /\ (hit => search'[v].query \notin suspect \cup overlapped)
    BY <1>2 DEF SearchNext, History, Seen
  <2>2. rows' = rows => now = Result(search'[v].query)
    BY DEF Result, LiveIds, Table!Live, Table!Exists, Matches
  <2> HIDE DEF now
  <2>3. window'[v].every \subseteq now
    BY <2>1
  <2>4. \/ Searching(v, "query")'
        \/ Searching(v, "materialise")' /\ ~window'[v].trusted
        \/ /\ search'[v].found \subseteq window'[v].some
           /\ window'[v].every \subseteq search'[v].found
    <3>1. CASE search'[v] = search[v]
      BY <1>0, <1>2, <2>1, <3>1 DEF WindowsBound, Searching
    <3>2. CASE search'[v] # search[v]
      <4>1. PICK w \in Clients, s \in Search \cup {NoSearch} :
              search' = [search EXCEPT ![w] = s] /\ Becomes(w, s)
        BY <1>0, <3>2, SearchShape
      <4>2. w = v /\ search'[v] = s /\ s # NoSearch
        BY <1>0, <1>2, <3>2, <4>1 DEF OwnTypes
      <4>3. ASSUME NEW q \in Keys, SearchHit(v, q), Cached(q),
                   s = Found("materialise", q, entries[q].value)
            PROVE  \/ Searching(v, "materialise")' /\ ~window'[v].trusted
                   \/ /\ search'[v].found \subseteq window'[v].some
                      /\ window'[v].every \subseteq search'[v].found
        <5>1. hit /\ rows' = rows /\ search'[v].query = q
          BY <4>2, <4>3 DEF SearchHit, Idle, Found, tableVars
        <5>2. CASE q \in suspect \cup overlapped
          BY <1>2, <2>1, <4>2, <4>3, <5>1, <5>2 DEF Searching, Found
        <5>3. CASE q \notin suspect \cup overlapped
          <6>1. search'[v].found = now
            BY <1>0, <2>2, <4>2, <4>3, <5>1, <5>3 DEF StaleOnlyByOverlap, Found
          <6>2. QED BY <2>1, <6>1
        <5>4. QED BY <5>2, <5>3
      <4>4. ASSUME NEW q \in Keys, s = Found("query", q, {})
            PROVE  Searching(v, "query")'
        BY <4>2, <4>4 DEF Searching, Found
      <4>5. ASSUME SearchQuery(v), s = Found("store", search[v].query, Result(search[v].query))
            PROVE  search'[v].found = now
        BY <2>2, <4>2, <4>5 DEF SearchQuery, Found, tableVars
      <4>6. ASSUME SearchStore(v), s = Found("register", search[v].query, search[v].found)
            PROVE  /\ search'[v].found \subseteq window'[v].some
                   /\ window'[v].every \subseteq search'[v].found
        BY <1>0, <2>1, <4>2, <4>6 DEF WindowsBound, SearchStore, Searching, Found
      <4>7. QED BY <2>1, <4>1, <4>2, <4>3, <4>4, <4>5, <4>6 DEF Becomes
    <3>3. QED BY <3>1, <3>2
  <2>5. QED BY <1>2, <2>3, <2>4 DEF now
<1>3. QED BY <1>1, <1>2

-----------------------------------------------------------------------------
(* The theorems.                                                           *)

\* Before the first request nothing is cached and nobody searches.
LEMMA InitSearchIInv == SearchInit => SearchIInv
<1> SUFFICES ASSUME SearchInit PROVE SearchIInv
  OBVIOUS
<1>1. IInv
  BY InitIInv DEF SearchInit
<1>2. OwnTypes /\ WindowsBound /\ ReadsAreCurrent
  BY DEF SearchInit, OwnTypes, WindowsBound, ReadsAreCurrent, NoWindow, Searching
<1>3. TxnsAreRecords /\ CommitsAreCleared /\ StaleOnlyByOverlap /\ CallsBelong
  BY DEF SearchInit, Init, Table!Init, TxnsAreRecords, CommitsAreCleared, StaleOnlyByOverlap,
         CallsBelong, Table!Idle, Table!At, Cached, Free
<1>4. QED BY <1>1, <1>2, <1>3 DEF SearchIInv

\* Every step of searches, writes and the cache keeps the invariant.
LEMMA StepSearchIInv == SearchIInv /\ [SearchNext]_searchVars => SearchIInv'
<1> SUFFICES ASSUME SearchIInv, [SearchNext]_searchVars PROVE SearchIInv'
  OBVIOUS
<1>1. IInv'
  BY CacheStep, StepIInv DEF SearchIInv, IInv
<1>2. OwnTypes' /\ CallsBelong'
  BY OwnTypeStep, BelongStep DEF SearchIInv, IInv
<1>3. CASE SearchNext
  <2>1. TxnsAreRecords'
    BY <1>3, TxnStep DEF SearchIInv
  <2>2. QED BY <1>1, <1>2, <1>3, <2>1, CommitsStep, StaleStep, ReadsStep, WindowsStep DEF SearchIInv
<1>4. CASE UNCHANGED searchVars
  BY <1>1, <1>2, <1>4
     DEF searchVars, tableVars, cacheVars, SearchIInv, TxnsAreRecords, CommitsAreCleared,
         StaleOnlyByOverlap, ReadsAreCurrent, WindowsBound, Searching, ByService, Cached,
         Result, LiveIds, Matches, Table!Live, Table!Exists, Table!Idle, Table!At
<1>5. QED BY <1>3, <1>4

\* The invariant holds in every behaviour of searches, writes and the admin site,
\* with lost commands and crashes or without.
THEOREM SearchInvariance == SearchSpec => []SearchIInv
  BY InitSearchIInv, StepSearchIInv, PTL DEF SearchSpec

\* Seen from the cache, the threads of the API make calls as CacheManager has
\* them: one at a time each, whole or cut short by a crash.
THEOREM ImplementsCache == SearchSpec => Spec
<1>1. SearchInit => Init
  BY DEF SearchInit
<1>2. SearchIInv /\ [SearchNext]_searchVars => [Next]_vars
  BY CacheStep DEF SearchIInv, IInv
<1>3. QED BY <1>1, <1>2, SearchInvariance, PTL DEF SearchSpec, Spec

\* Seen from the table, they are the requests of ListingStore.
THEOREM ImplementsTable == SearchSpec => Table!Spec
<1>1. SearchInit => Table!Init
  BY DEF SearchInit
<1>2. [SearchNext]_searchVars => [Table!Next]_(Table!vars)
  BY TableStep DEF tableVars, Table!vars
<1>3. QED BY <1>1, <1>2, PTL DEF SearchSpec, Table!Spec

\* Clearing inside the writing transaction is enough, but for reads and stores
\* that overlap a write, the admin site, and calls that went wrong.
THEOREM StaleOnlyByOverlapAlways == SearchSpec => []StaleOnlyByOverlap
<1>1. SearchIInv => StaleOnlyByOverlap
  BY DEF SearchIInv
<1>2. QED BY <1>1, SearchInvariance, PTL

\* A search answers for its own time, from the table or from a cached entry that
\* no race has touched (_materialise_search_results).
THEOREM AnswersAreTimelyEver == SearchSpec => AnswersAreTimely
<1>1. SearchIInv /\ [SearchNext]_searchVars =>
        [\A w \in Clients :
           /\ SearchMaterialise(w) \/ SearchRegister(w)
           /\ search'[w] = NoSearch
           /\ window[w].trusted
           => /\ Answer(w) \subseteq window[w].some
              /\ window[w].every \subseteq Answer(w)]_searchVars
  <2> SUFFICES ASSUME SearchIInv, NEW w \in Clients, window[w].trusted,
                      SearchMaterialise(w) \/ SearchRegister(w)
               PROVE  /\ Answer(w) \subseteq window[w].some
                      /\ window[w].every \subseteq Answer(w)
    OBVIOUS
  <2>1. /\ search[w].found \subseteq window[w].some
        /\ window[w].every \subseteq search[w].found
        /\ window[w].every \subseteq Result(search[w].query)
    BY DEF SearchIInv, WindowsBound, SearchMaterialise, SearchRegister, Searching
  <2>2. Result(search[w].query) \subseteq LiveIds
    BY DEF Result
  <2>3. QED BY <2>1, <2>2 DEF Answer
<1>2. QED BY <1>1, SearchInvariance, PTL DEF SearchSpec, AnswersAreTimely
=============================================================================
