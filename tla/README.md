# eListing: a verification project

TLA+ models of the eListing API (Django, PostGIS, Redis), checked with TLC and
proved with TLAPS. Every definition is translated from the Python source; the
file `PROJECT.json` gives the lines each one stands for.

## 1. The system

An HTTP API over one table of property listings. Agents create, update and
soft delete their own listings, administrators any listing; everybody reads and
searches. Search results are cached in Redis.

| component | state it keeps | operations | talks to |
|---|---|---|---|
| `ListingService` writes (`apps/listings/services/listing_service.py`) | rows of `listings`, a transaction per request | `create`, `update` (PUT, PATCH), `delete` | PostgreSQL, `UserService.is_admin`, `CacheManager.clear_namespace` |
| `ListingService.search` (same file) | nothing of its own | cache lookup, query, store, rebuilding a hit | PostgreSQL, `CacheManager` |
| `CacheManager` (`core/cache.py`) | entries with a lifetime, one index key per namespace | `get`, `set`, `get_or_set`, `delete`, `clear_namespace` | Redis |
| base model and managers (`core/models.py`, `core/managers.py`) | `deleted_at`, `deleted_by`, audit columns | `soft_delete`, `restore`, `delete`, bulk `restore`, `hard_delete` | PostgreSQL |
| admin site of listings (`apps/listings/admin.py`) | - | forms, `restore_selected`, `hard_delete_selected`, `delete_selected` | the table, and not the cache |
| views, permissions, serializers (`apps/listings/`) | - | who reaches the service, and with which payload | `ListingService` |
| accounts (`apps/accounts/`) | rows of `users` | `create`, `get`, `is_admin`, the user admin | PostgreSQL |
| seed command | - | `handle`, with `--flush` | users, listings, and not the cache |
| errors, envelope, pagination (`core/`) | - | exception to status, page arithmetic | - |
| tokens (simplejwt) | refresh tokens, their blacklist | library code, configured only | - |

### What is hard

* **Unlocked read, check, save.** `update` and `delete` read a row with no
  `SELECT ... FOR UPDATE`, decide on that snapshot and write later.
  `listing.save()` writes *every* column, `soft_delete` three of them, a bulk
  restore two. PostgreSQL runs these under READ COMMITTED.
* **UPDATE that becomes INSERT.** When the row is gone, `save()` inserts it
  again; `save(update_fields=...)` fails.
* **Invalidation before commit.** `_invalidate_search_cache` is called inside
  the transaction, and a search stores what it read some time ago.
* **A non-atomic index.** `_register_key` reads and rewrites the list of keys
  that `clear_namespace` relies on.
* **Swallowed failures.** With `IGNORE_EXCEPTIONS`, a Redis error is a miss or
  does nothing.
* **A second writer.** The admin site changes the same table without the
  ownership rules, the audit stamps or the invalidation.
* **Deleted users keep their names.** A soft deleted user is hidden from every
  lookup, and still in the way of `username` and `email`, which are unique over
  all rows. A user with listings cannot be removed, a listing cannot be given to
  a deleted user, and each check reads what the other is about to change.
* **One long transaction.** `seed_demo` runs dozens of statements in one
  transaction, next to everybody else, and is meant to be run again.

The hazards, each at its line and with the properties that cover it, are listed
in `PROJECT.json`.

## 2. Modules

An arrow goes from a module to one that builds on it.

    ListingRegistry --> ListingSerial --> ListingOverlap
                              ^             ApiErrors --> Accounts --> SeedDemo
                              |                                           |
    ListingStore -------------+                                           v
              \                                                       MCSeedDemo
               +--> ListingSearch --> MCListingSearch
              /
    CacheManager                            SearchQuery --> MCSearchQuery

`ListingStoreProofs`, `ListingSerialProofs`, `ListingOverlapProofs`,
`CacheManagerProofs`, `ListingSearchProofs`, `ListingSearchTableProofs`,
`SearchQueryProofs` and `SeedDemoProofs` hold the theorems (section 4). The invariants they rest on are in
the modules themselves, where the runs check them.

**ListingStore** is the table and everything that writes it.

* `rows` maps an id to its committed row or `NoRow`; `issued` holds the ids
  handed out; `lock` the transaction that holds each row; `txn` the transaction of each
  worker with the model instance (`inst`) it loaded; `granted` is history.
* A request is answered from `Idle` with a refusal (`Answer`), or begins a
  transaction (`Begin`) and continues with `Save` or `Insert`, `Invalidate` and
  `Commit`. `Abort` is any exception, a lost connection or a dead process.
* `Create`, `Update`, `Delete` hold the checks of the service in its order:
  live row, ownership, location of a PUT, reassignment. They read the row once.
* `SoftDelete` is `soft_delete` with its own test of `deleted_at`, which a delete
  of the service, having found the row live, always passes, and the delete button
  of the admin site need not.
* `Save` is the UPDATE: it waits for `lock`, falls back to `Insert` when the row
  is gone and the save is a full one, and fails otherwise. What it writes is
  computed at `Commit` (`Written`): every column of the snapshot, or the
  deletion columns of the committed row; while the lock is held nobody else can
  change that row, so the moment makes no difference.
* `AdminAdd`, `AdminChange`, `AdminDelete` are the forms, with `NoUser` as actor;
  `AdminRestore`, `AdminHardDelete` are single statements on a set of rows.
  `hard_delete_selected` ends in a `TypeError` after its statement (see Findings).

Columns other than agent, audit and deletion are a set `Fields` with abstract
`Values`; `LocationField` is the one a PUT must contain. `created_at` and
`updated_at` are left out. `Admins` is what `UserService.is_admin` accepts.

**ListingRegistry** is what the service promises: a table, every write of it
one step (`Add`, `Change`, `Withdraw` through the API, the `Site` actions in the
admin site) by somebody who may make it, judged by the row as it is at that
moment. **ListingSerial** instantiates it with the `rows` of `ListingStore`: a
`Commit` is the abstract write, every other statement of a request a stutter.
`SnapshotsAreCurrent` is why that holds of requests that do not overlap: `Current`
and `Fresh` say what a request decided when it read its row, and `Snapshot` that it
still holds. With two workers it fails, as the two violated runs of the store show.
`OneWorker` and `Undisturbed` are two hypotheses that exclude overlaps: there is one
worker, or there are any number but nobody changes a listing between another's read
of it and the commit.

**ListingOverlap** is the store without such a hypothesis. `overtaken` is history: the
requests whose row somebody has changed since they read it.
`SnapshotsOutdatedOnlyByOverlap` says that every other request still knows its row, and
`OnlyOvertakenCommitsBreakRules` that every change of the table is one `ListingRegistry`
allows, or the commit of an overtaken request. So there is one way only for a deleted
listing to be live again, for a removed one to be inserted again, for an agent or a
column to be set back, and for a deleter to be overwritten.

**CacheManager** is one namespace: `entries` with the ticks each has left,
`index` with its own lifetime, `call` with the command each client has reached.
`set` is store, read index, write index; `clear_namespace` is read index, one
deletion per key, delete index; `get_or_set` runs the factory between a miss and
`set`. With `Faulty`, any command may get lost and clients may die. `suspect`
is history: the keys whose last `set` met another call, a lost command or a crash, the
keys that a lost read of the index hides from a registration or a clear (`IndexReads`),
and those whose deletion got lost. A command lost for one key casts no doubt on another.
`SettersAreAlone`, `RegistrationsKeepListings` and `ClearsReachListings` say what a
call in progress knows of the other keys.

**ListingSearch** composes the two. It extends `CacheManager` (the clients are the
server threads, the keys the queries, a cached value a set of ids) and instantiates
`ListingStore` as `Table`, the workers being the clients. `ClearForWrite` is
`Invalidate` with the clear spelled out command by command; `SearchHit`,
`SearchMiss`, `SearchQuery`, `SearchStore`, `SearchRegister`,
`SearchMaterialise` are the statements of `search`. `window`, `mixed` and
`overlapped` are history: what the table would have answered while a search
ran, whether its read met a write, and which cached results come from such a
search or are older than a write of the admin site. `CallsBelong`,
`CommitsAreCleared`, `ReadsAreCurrent` and `WindowsBound` are the parts of
`SearchIInv` that tie a thread's cache call, its transaction and its search
together. **MCListingSearch** names the
queries of the runs.

**SearchQuery** is what one search answers. `Param` has the fields of the query
serializer, `Valid` and `Accepted` are the serializer's and the ordering's
conditions, `Matches` the filters, `SortKey` and `Ordered` the ORDER BY (a set of
sequences: ties come in any order), `CacheKey` the parts that go into the key, `Entry`
and `Materialise` what is cached of a listing and how a hit is rebuilt (`Ascending`
puts the positions that are kept in order), `PageSizeOf`, `NumPages` and `Pages` the
pagination. A search is one step here (`Refuse`, `Hit` or `Miss`), since `ListingSearch` has the
races; between searches entries expire, and rows change. Through the API they are
created and edited with the results cleared (`ListingCreated`, `ListingEdited`). The
others go past the cache: the admin site's forms (`ListingEditedPastCache`,
`ListingAddedPastCache`), its `restore_selected` and the seed command
(`ListingAddedPastCache`), and also a create or an edit of the API whose clear a search
follows before it commits. A row may go at any time (`ListingGone`): its delete clears
the results before it commits, which is `Expire` here, and the admin site removes it
without. `past` is history: the listings that appeared or were edited past cached
results. `Answers` says what makes a result right for a search, as far as the other
listings are concerned; `AnswersMatchTheQuery` says it of answers, and
`CachedResultsMatch` of what is cached. Distances are on a small grid. The
hash of the key is left out: a key is the set of its parts. **MCSearchQuery** has the tables
and the parameters of the run.

**ApiErrors** is the exception handler, a function from exceptions to a status
and a code (`Handled`).

**Accounts** lets users come and go. `users` and `listings` are the committed
rows, `txn` the write each worker has in progress. A write has two steps here:
what it reads and decides (`Create`, `Update`, `Delete`, `AdminAssign`,
`ChangeUser`, `RetireUser`), and its end (`CommitListing`, `CommitUser`, `Abort`);
`ListingStore` has the statements and the locks in between. `Objection` is the
exception a request raises before it writes, in the order of the code; a request
with an objection changes nothing and is no step. `Failure` is what the database
raises at the end, `Unstamped` is SET_NULL, `HasListings` PROTECT. A name stands
for a username and the e-mail address that goes with it; a change form may set
the username alone. The history field `met` says that somebody else has
committed a change of a row the transaction relies on.

**SeedDemo** runs `seed_demo` beside that. `seed` is the run under way: the
statement it has reached and what it has removed and added so far (`newUsers` and
`newListings` map every key to the row the run adds under it, or to `NoRow`).
`SeenUsers` and `SeenListings` are what a statement sees; others see the result at
`SeedCommit`, and wait (`WaitsForSeed`) for rows and names the run holds. A title is
its index and how much the random stream had given before it (`SeedTitle`), so
a run that drew differently would write other titles. The number of demo agents
is a parameter. `RunsProgress` to `UnmetHold` are the parts of the inductive
invariant. **MCSeedDemo** has the bounds of the run.

History variables are written by the actions and read by properties only.

## 3. Runs

| run | instance | what it shows |
|---|---|---|
| `store_serial` | 1 worker, 3 users, 1 id, 2 columns, 2 values | the table implements `ListingRegistry`; requests that do not overlap keep the promises of delete, reassignment and PATCH |
| `store_concurrent` | 2 workers, 2 users, 1 id | what survives any overlap: ownership, stamps, creator, deletion columns; that nothing but the commit of an overtaken request breaks a rule of `ListingRegistry`; every request ends; also the inductive invariant `IInv` |
| `store_deleted_returns` | 2 workers, violated | a stale update makes a soft deleted listing live again |
| `store_reassign_reverted` | 2 workers, violated | a stale update of the former owner takes back a reassignment |
| `cache_calls` | 2 clients, 2 keys, lifetimes 2 and 3, faults | registration is reliable for calls that do not overlap, a clear leaves only entries that raced, the rest expires; also `IInv` |
| `cache_lost_key` | same, no faults, violated | two overlapping calls leave an entry no clear finds |
| `search_overlap` | 2 threads, 1 listing, 2 queries | a cached result is stale only if a write was under way between its read and its store; undisturbed searches are regular reads; `SearchTypeOK` has the types of all three modules |
| `search_faults` | 2 threads, 1 query, faults, admin site | the same with lost commands, crashes and expiry, and stale results end when the writes end; `SearchIInv` includes `StaleOnlyByOverlap` |
| `search_stale` | 2 threads, violated | a search stores, after a write's clear, what it read before the commit |
| `search_admin_stale` | 1 thread, violated | the admin site leaves cached results stale with no overlap at all |
| `search_query` | tables of 3 and 2 listings, 51 combinations of parameters | a hit and a miss answer exactly the query, up to the listings added, restored or edited past a cached result; no two queries share a key; a search asked again of the same table lists the same in the same order but for ties, as long as no cached result is past its listings; pages cut the answer exactly; also `IInv` |
| `seed_accounts` | 2 users, up to 3 listings, 2 workers and the command, in 8 combinations | references hold and names stay unique; conflicts and server errors only by overlap; deleted accounts stay out and agents are live, but for overlaps; seeding delivers, repeats nothing, and fails alone only for a name somebody else holds; also `IInv` |

### Findings

The five violated runs show where the code differs from its own documentation:
"no longer appears in read endpoints" (`views.py:207`), "Only administrators can
reassign a listing" (`listing_service.py:106`), "clearing works on any cache
backend" (`cache.py:121`), "cached results cannot outlive a write"
(`listing_service.py:182`) and "invalidated on every write" (`README.md:29`).
They are races and gaps of bounded effect, apart from the first two: the cache
entries concerned live for 60 seconds.

`store_concurrent` adds that stale saves are the only way to the first two and their
kin: a removed listing inserted again, a column of another PATCH or a deleter
overwritten.

One thing the models only take note of: `hard_delete_selected` (`admin.py:103`) unpacks
the number `hard_delete()` returns as a pair, so it answers every call with a `TypeError`,
after the rows are gone. `AdminHardDelete` has the effect on the table; the error page is
no state.

### Bounds

* One listing (`Ids = {l1}`). Requests for different listings share no state but
  the cache: every check, lock and column belongs to one row, and the bulk
  actions act row by row. The theorems cover any number.
* Two workers: every race here is between one snapshot and one other writer.
  `cache_calls` was also explored once with three clients.
* Two users, one of them an administrator, are enough for an owner to lose a
  listing and for a stranger to try; `store_serial` has three, so that a
  reassignment can go to somebody who is neither the owner nor the administrator.
* `EntryTTL` and `IndexTTL` are 60 s and 3600 s in the code. Only their order
  matters (`CacheAssumption`); the runs use 2 and 3, or 1 and 2, and `search_faults`
  the tightest case, 1 and 1.
* `ListingSearch` runs have one user, the administrator: ownership is decided
  in `ListingStore` and adds nothing to what the cache holds. The two queries
  are the empty filter, which only a deletion makes a row leave, and one that a
  change of a column makes it enter and leave.
* `search_query` caches one result at a time (`MaxCached = 1`): two searches that
  share a key need no third one. Its parameters are each alone, each with a
  centre, and the price range; zero is among the prices, the bedrooms and the
  coordinates, as Python takes it for false. The tables have listings that tie in
  price and distance, and the second has a tie in the creation time, which an edit or
  an added row can also bring into the first.
  A row that is added or edited gets the columns it has in one of the tables, and a
  new one the id of any listing that is not live, be it a new listing or one restored.
* `seed_accounts` explores several small worlds in one run, the elements of
  `Bounds`: how many listings and transactions there may be at a time, the kinds
  of users, what transactions do, and the largest `--count`. They are chosen so that
  each pair of operations that touch the same rows overlaps in one of them, and
  so that two runs of the command with two listings each follow one another with
  deletions, changes and removals between them. One demo agent stands for three;
  `staff` is in the instance where requests do not overlap. Keys of rows that are
  gone and that no request names are used again (uuid4 never repeats one, but a
  key nobody remembers cannot be told from a new one), which keeps the instance
  finite without a bound on its length.
* `search_overlap` declares the two threads symmetric, `seed_accounts` the threads,
  users and listings; neither checks liveness.

### Fairness

* `ListingStore`: a thread runs its request to the end, so `Invalidate` and
  `Commit` are weakly fair. `Save` and `Insert` can be blocked again and again by
  other transactions; PostgreSQL queues the waiters of a row, so they are
  strongly fair. Nothing forces a request to begin, or to fail.
* `CacheManager`, `ListingSearch`: only time is fair (`Tick`, `Time`). No client has to
  continue, so what is shown of expiry holds even when processes hang.

## 4. Proofs

Eight modules of theorems, all about every choice of the constants: any sets of
listings, users, columns, threads, queries, search parameters and names, any
lifetimes and page sizes, any number of demo agents. The assumptions on the
constants are `StoreAssumption` and `NullAssumption` (administrators are users, the
location is a column), `CacheAssumption` (an index key lives at least as long as an
entry), `SearchAssumption` (queries are filters by column, cached values are sets of
ids), `TableAssumption` (those of `ListingStore`, of its instance),
`QueryAssumption` (ids and times are numbers, tables are finite, a search has the
fields of the serializer and `Unset` is no value of one), `PagingAssumption` (the
usual page is not longer than the longest), `KindsAssumption`, `AccountsAssumption`
and `SeedAssumption` (the demo names are names, there is at least one demo agent,
the titles the stream gives are titles), and in each that a null value is none of
the things it stands apart from. The code has no state outside them, and TLC
evaluates them in every run.

### The table: `ListingStoreProofs`

| theorem | states |
|---|---|
| `Invariance` | `Spec => []IInv` |
| `TypeCorrectness` | `Spec => []TypeOK` |
| `LiveRowsCarryNoDeleterAlways` | a live row names no deleter |
| `OwnerWasGrantedAlways` | an agent is the creator or was put there by an administrator |
| `StampsAreAuthorisedAlways` | the audit columns name entitled users only |
| `CreatorNeverRewrittenEver` | `created_by` never changes while the row exists |

None of these is inductive: a commit writes a *snapshot*, so what
matters is what the snapshots in `txn` can contain. `IInv` adds just that:

1. `WritersHoldTheirRow`, `DeletesNeverInsert`: who has written holds the lock, and a
   deletion that has written still has its row, because a permanent deletion
   waits for locks. Hence `Written` is always a row.
2. `IdsAreIssued`, `CreatesAreAlone`: the id of a create is in no row and in no other
   request until it commits.
3. `CreatorsAgree`: the row and all snapshots of one listing name one creator.
   With 2 this is why even the INSERT fallback cannot change `created_by`.
4. `InstancesCarryNoDeleter`: a snapshot that is not deleted names no deleter.
5. `WritersAreEntitled`: who passed the checks is an administrator or has been an
   agent of the listing. It stays true because `granted` only grows, which is why
   checks on a stale snapshot are still good enough for ownership and stamps.

The proof does not go through all actions for each conjunct. `StepShapes`
first shows that each step has one of a few shapes (a request starts, moves on,
rolls back or commits, or a bulk statement runs); `RequestStep` and `RowStep` say what
a shape can do to one request and to one row; then there is one lemma per group
of conjuncts. A shape also says what a request that begins has decided
(`Fresh`, `Current`), which is what the next module needs.

### The promise of the service: `ListingSerialProofs`

| theorem | states |
|---|---|
| `SnapshotsAreCurrentUndisturbed` | what a request decided still holds of the row it overwrites |
| `ImplementsRegistryUndisturbed` | the store implements `ListingRegistry` |
| `SoftDeletedStaysDeletedUndisturbed` | a soft deletion lasts until a restore |
| `OnlyAdminsReassignUndisturbed` | only administrators give a listing away |
| `PatchTouchesOnlySuppliedUndisturbed` | a PATCH leaves the columns it was not sent as they are |
| `OneWorkerIsUndisturbed` | `Spec /\ OneWorker => Undisturbed` |
| `ImplementsRegistrySerial` | the refinement for one worker |

These are the promises that overlaps break, so they need a hypothesis, and
`Undisturbed` says what the code relies on: while a worker's request is open, only its
own commit changes the row it read. Any number of workers may be busy at once, and
even two with one listing, if the first to end does not change it.
`Undisturbed` is no property of the store (the two violated runs
break it), but `OneWorkerIsUndisturbed` shows it of the store with one worker, the
instance of `store_serial`, so the other theorems hold there outright.
`SnapshotsAreCurrent` is inductive with `IInv` under it (`SnapshotsKept`): a request
begins current (the shapes), and no step but its own commit touches its row. Then
`StepImplements` maps each step: a commit of a create, an update or a deletion,
and the two bulk statements, to the action of `ListingRegistry` that allows it at that
moment, all others to a stutter. The three action properties follow from what a
commit writes (`CommittedRow`).

### Overlapping requests: `ListingOverlapProofs`

| theorem | states |
|---|---|
| `SnapshotsOutdatedOnlyByOverlapAlways` | a request that was not overtaken still knows its row |
| `OnlyOvertakenCommitsBreakRulesEver` | a change of the table is one of the registry, or the commit of an overtaken request |

Here there is no hypothesis. The module uses the lemmas of `ListingSerialProofs` one
request at a time: a step that does not overtake a request leaves its row alone
(`NotOvertaken`), so its snapshot stays good (`SnapshotKept`), and its commit is the
action of the registry it was there.

### The cache: `CacheManagerProofs`

| theorem | states |
|---|---|
| `Invariance`, `TypeCorrectness` | `Spec => []IInv`, `Spec => []TypeOK` |
| `KeysSetAloneAreIndexedAlways` | an entry that was set alone is in an index that outlives it |
| `ClearIsCompleteEver` | a clear leaves only suspect entries |
| `EntriesAreRegisteredInTurns` | `~Faulty => (Spec /\ []CallsInTurn => []EntriesAreRegistered)` |

The first two properties are about the index at rest, and both are broken, if at all, by a
call that has read the index and not yet written it. Hence three conjuncts about calls:
`SettersAreAlone` (a `set` beside another call is under suspicion),
`RegistrationsKeepListings` (what a registration writes back still lists everything
that counts: no other such registration came in between, for it would be under
suspicion) and `ClearsReachListings` (what counts and is still there is among the
keys a clear has yet to delete). The lifetimes need `EntryTTL <= IndexTTL` only.

`EntriesAreRegistered` is the docstring that `cache_lost_key` refutes. The last theorem
says when it is right: while no two calls are in progress at a time (`CallsInTurn`, of any
number of clients) and no command is lost, no key is ever suspect (`NobodySuspect`).

### Search and writes: `ListingSearchProofs`

| theorem | states |
|---|---|
| `SearchInvariance` | `SearchSpec => []SearchIInv` |
| `ImplementsCache`, `ImplementsTable` | the composition is a behaviour of `CacheManager` and of `ListingStore` |
| `StaleOnlyByOverlapAlways` | a cached result is wrong only through an overlap, the admin site, or a cache call that raced or failed |
| `AnswersAreTimelyEver` | a search answers for the time it ran |

The module extends `CacheManagerProofs`, whose lemmas it uses. `CallsBelong` says that a
thread's cache call is that of its search or of its write, never both; with it every
step is a step of the cache (`CacheStep`) and of the table (`TableStep`), so what is
proved of the parts holds here: all of `CacheManagerProofs`, and through
`ImplementsTable` all of `ListingStoreProofs`. A result is right when it is stored because
`ReadsAreCurrent` (no write since it was read, none under way), and stays right
because `CommitsAreCleared`: when a write is about to commit, its clear has
returned, and `ClearIsComplete` leaves only what is suspect or was stored meanwhile,
hence `overlapped`. `WindowsBound` relates what a search has found to its window;
a hit starts from `StaleOnlyByOverlap`, the one place where the second
property needs the first.

### Search and the rows: `ListingSearchTableProofs`

| theorem | states |
|---|---|
| `SearchTypeCorrectness` | `SearchSpec => []SearchTypeOK` |
| `CachedResultsAreCurrentInTurns` | `~Faulty /\ ~AdminSite => (SearchSpec /\ []TurnTaking => []CachedResultsAreCurrent)` |

TLAPS 1.4 cannot cite a theorem of an instantiated module, so although behaviours of the
composition are behaviours of `Table`, what is known of its rows has to be proved of the
instance. `TableIInv` is the part of `ListingStore!IInv` that the types need (a
soft deletion that has written still has its row), `TableShape` what a step can do.

`CachedResultsAreCurrent` is the promise that `search_stale` and `search_admin_stale`
refute. With `TurnTaking`, a request begins when the last one has ended, in whichever
thread; then nothing becomes suspect or overlapped (`Clean`), and
`StaleOnlyByOverlap` leaves no stale result at all. So it is the overlaps, the lost
commands and the admin site that break the promise, and nothing else. The
hypothesis is one that a single thread meets; TLC was used once to check it with two
threads taking turns.

### What a search answers: `SearchQueryProofs`

| theorem | states |
|---|---|
| `KeysTellSearchesApart` | searches with equal keys are equal |
| `Invariance`, `TypeCorrectness` | `Spec => []IInv`, `Spec => []TypeOK` |
| `AnswersMatchTheQueryAlways` | a hit and a miss answer exactly the query, up to listings that came or changed past a cached result |
| `SameSearchSameAnswerEver` | a search asked again has the same answer, up to the order of ties |
| `PagesAreTheResult` | any sequence is cut exactly, by any `page_size` sent |
| `PagesAreTheAnswerAlways` | the pages of an answer are the answer |

`AnswersMatchTheQuery` is about the last answer; a hit takes it from the cache, so the
induction needs `CachedResultsMatch`: what is cached under a key is right for an
accepted search that has this key. Since keys tell searches apart, that search is the one
that hits (`CachedSearch`); this is also why a hit never answers a search that a miss
would refuse. `CachedResultsMatch` is kept because the listings it speaks of only
become fewer: a row that goes, and one that appears or is edited past the cache
(`past`), are no longer judged, and a write that clears empties the cache.

For a hit, `Materialise` has to keep the order (`AnswersKept`). `AscendingOrder` says that a
set of positions can be put in order, by giving each the number of kept positions up to
it. `SameSearchSameAnswer` is uniqueness up to ties. With nothing past the cache, two results
that are right for one search list the same ids, each once. Were their sort keys to differ
at some position n, say smaller in the first, then the first n listings of the first would
all have to be among the first n - 1 of the second (`NoneComesBefore`, `SortKeysOrder`),
and they do not fit (`NotAllFit`). So the keys agree position by position
(`ExactResultsTie`), and where keys tell listings apart (`SortKeysDiffer`, from
`StampsDiffer`) so do the results. The pages are arithmetic (`PagesEnough`, `PageEnds`).

### Accounts and the seed command: `SeedDemoProofs`

| theorem | states |
|---|---|
| `Invariance`, `TypeCorrectness` | `Spec => []IInv`, `Spec => []StateOK` |
| `ReferencesExistAlways` | every user a listing names exists, names are unique over all rows |
| `FailuresOnlyByOverlapAlways` | a conflict or server error needs another writer |
| `AccountsKeepOutEver` | a deleted account returns only by a form that loaded it before |
| `AgentsAreLiveEver` | a listing gets an agent who is not live only by an overlap |
| `DuplicatesOnlyByOverlapEver` | a run repeats no index, unless somebody wrote next to it |
| `SeedDeliversEver` | a run alone leaves what it was asked for |
| `SeedFailsOnlyForNamesEver` | a run alone fails only for a name somebody else holds |

`Accounts` has no specification of its own: `SeedDemo` has all its steps beside the
command's, and a run need not begin, so the theorems cover the accounts without it.
The conjuncts of `IInv`:

1. `UnmetHold`: what a transaction read when it decided still holds until somebody
   changes a row it relies on, which is when `met` is set. `FailuresOnlyByOverlap`,
   `AccountsKeepOut` and `AgentsAreLive` follow from it at a commit.
2. `RemovedRowsStay`: the rows a run removes are there until it commits, since whoever
   wants to change them waits; and no listing it leaves names an account it removes.
   With `NewAccountsAreOwn` (the names a run adds are nobody else's, because the
   unique indexes make the others wait) this gives `ReferencesExist` after `SeedCommit`.
3. `RunsProgress`: how far each part of the run has come. `drawn = 2 * (index - 1)` is
   the reason for drawing before looking: with `TitlesAreDrawn` an index determines
   its title, in this run and in every earlier one, so that "has this index a listing" is
   "is this title taken", which is what the code asks.
4. `UndisturbedRuns`: a run nobody wrote next to still sees what its statements found.
   `SeedDelivers` and `SeedFailsOnlyForNames` are what it says at the end.

As for the table, steps come in shapes (`RequestsBegin`, `FailsKeeps`, `EndsShape`,
`Writes...`, `UncommittedKeeps`), and each statement of the command and each write of the
others has one lemma that it keeps `IInv`.

### Only model-checked

* Liveness (`RequestsFinish`, `OrphansExpire`, `EventuallyCurrent`): TLAPS 1.4 has no
  rules for fairness and ENABLED.

Every other property of a passing run is a theorem for every value of the constants. The
violated properties have theorems too, under the hypotheses that exclude what breaks
them: `Undisturbed`, `CallsInTurn`, `TurnTaking`.

The models avoid `SelectSeq` and `FlattenSeq` and define what they need by sets of
positions: the provers do not know these recursive operators, and what they compute
would need an induction over sequences.

## 5. Not modelled

* Wording, JSON, OpenAPI, logging, the response envelope; geometry; column types.
* Tokens: simplejwt's own code.
* Passwords, groups, `is_active`, the audit columns of users, and users whose
  username and address are changed to those of two others.
* Two runs of the seed command at a time. `SeedDemo` has no cache: that the command
  adds listings without clearing the search results is in `SearchQuery`.
* The error page of `hard_delete_selected`.
* The handlers for URLs outside the API (`api_not_found` and its kin): constants.
* Deadlock between transactions: a request of the API writes one row, and the
  admin's bulk statement is taken as one atomic step.
* A process-local cache (`LocMemCache`): the models have one cache server.

## 6. Plan

Done: all modules of section 2, and the proofs of section 4.

Left for a time when somebody needs it: two runs of the seed command at a time, and bulk
statements of the admin site that lock their rows one by one.

## 7. Running

    tlc -workers 2 -config StoreSerial.cfg ListingSerial
    tlc -workers 2 -config StoreConcurrent.cfg ListingOverlap
    tlc -workers 2 -config SearchOverlap.cfg MCListingSearch
    tlapm ListingStoreProofs.tla
    tlapm ListingSerialProofs.tla
    tlapm ListingOverlapProofs.tla
    tlapm CacheManagerProofs.tla
    tlapm ListingSearchProofs.tla
    tlapm ListingSearchTableProofs.tla
    tlapm SearchQueryProofs.tla
    tlapm SeedDemoProofs.tla

The longest runs, `search_overlap`, `search_faults` and `seed_accounts`, take about
two minutes each; so do the longest proofs, those of `SeedDemoProofs`.
