------------------------------ MODULE SeedDemo ------------------------------
(***************************************************************************)
(* The management command seed_demo, run next to the requests and forms of *)
(* Accounts.  It is one transaction of many statements: with --flush it    *)
(* removes the listings and then the users, finds or creates the demo      *)
(* accounts, and goes through its listings, drawing each one's title from  *)
(* a random stream that starts the same way every time.  A statement sees  *)
(* what others have committed by then and the transaction's own changes;   *)
(* the others see none of those before it commits, and wait for the rows   *)
(* and the unique names it holds.  One run of the command at a time.       *)
(***************************************************************************)
EXTENDS Accounts, Sequences

CONSTANTS
    DemoAdmin,      \* the name of the demo administrator
    DemoAgents,     \* the sequence of the demo agents' names
    MaxCount,       \* the largest --count of them all
    Bounds,         \* the bounds to try: how many listings and transactions
                    \* at a time, the kinds of users, what the transactions
                    \* do, and the largest --count (0: no command is run)
    NoSeed

SeedRun ==
    [pc : {"flush_listings", "flush_users", "accounts", "listings"}, flush : BOOLEAN,
     count : 1..MaxCount, index : 1..(MaxCount + 1), drawn : Nat, agents : Seq(Uids),
     goneListings : SUBSET Lids, goneUsers : SUBSET Uids,
     newUsers : [Uids -> User \cup {NoRow}], newListings : [Lids -> Listing \cup {NoRow}],
     met : BOOLEAN]

ASSUME SeedAssumption ==
    /\ NoSeed \notin SeedRun
    /\ {"agent", "admin"} \subseteq Kinds
    /\ DemoAdmin \in Names /\ DemoAgents \in Seq(Names) /\ Len(DemoAgents) > 0
    /\ MaxCount \in Nat /\ \A n \in 1..MaxCount : <<n, 2 * (n - 1)>> \in Titles \ {OwnTitle}
    /\ Bounds \subseteq [listings : Nat, open : Nat, count : 0..MaxCount, kinds : SUBSET Kinds,
                        ops : SUBSET {"create", "update", "delete", "change", "retire"}]

VARIABLES
    bound,  \* the element of Bounds that applies
    seed    \* the run under way; its `met` is history: has anybody else
            \* committed anything since it began?

vars == <<accountVars, bound, seed>>

DemoNames == <<DemoAdmin>> \o DemoAgents

Seeding == seed # NoSeed
SeedAt(pc) == Seeding /\ seed.pc = pc

NewUsers == {u \in Uids : seed.newUsers[u] # NoRow}
NewListings == {l \in Lids : seed.newListings[l] # NoRow}

SeedOK == bound \in Bounds /\ seed \in SeedRun \cup {NoSeed}

-----------------------------------------------------------------------------
(* What the command sees: the committed tables with its own changes.       *)

SeenUsers ==
    [u \in Uids |-> IF u \in seed.goneUsers THEN NoRow
                    ELSE IF seed.newUsers[u] # NoRow THEN seed.newUsers[u] ELSE users[u]]

SeenListings ==
    [l \in Lids |-> IF l \in seed.goneListings THEN NoRow
                    ELSE IF seed.newListings[l] # NoRow THEN seed.newListings[l]
                    ELSE Unstamped(listings[l], seed.goneUsers)]

\* Statements of others that wait for it: they write a row it removed, name a
\* user it removed, or take a name it holds.
WaitsForSeed(w) ==
    /\ Seeding /\ ~Idle(w)
    /\ \/ txn[w].op \in {"create", "update", "delete"}
          /\ (txn[w].id \in seed.goneListings \/ UsersNamed(txn[w]) \cap seed.goneUsers # {})
       \/ txn[w].op \in {"change", "retire"}
          /\ \/ txn[w].id \in seed.goneUsers
             \/ \E u \in NewUsers :
                   \/ txn[w].row.username = seed.newUsers[u].username
                   \/ txn[w].row.email = seed.newUsers[u].email

-----------------------------------------------------------------------------
(* The statements of the command.                                          *)

Uncommitted == UNCHANGED <<accountVars, bound>>

FreeUser(u) ==
    /\ ~UserExists(u) /\ u \notin UsersHeld
    /\ Seeding => \A n \in 1..Len(seed.agents) : seed.agents[n] # u

\* Bound: so many listings at a time.
FreeListing(l) ==
    LET held == ListingsHeld \cup (IF Seeding THEN NewListings ELSE {}) IN
    l \notin held /\ Cardinality(held) < bound.listings

\* Bound: so many transactions at a time.
WithinBound(w) ==
    txn'[w] # NoTxn =>
        txn'[w].op \in bound.ops /\ \A l \in ListingsHeld' \ ListingsHeld : FreeListing(l)

Room == Cardinality({w \in Workers : ~Idle(w)}) + (IF Seeding THEN 1 ELSE 0) < bound.open

SeedStart(flush) ==
    /\ ~Seeding /\ Room /\ Uncommitted
    /\ \E count \in 1..bound.count : seed' =
               [pc |-> IF flush THEN "flush_listings" ELSE "accounts",
                flush |-> flush, count |-> count, index |-> 1, drawn |-> 0, agents |-> <<>>,
                goneListings |-> {}, goneUsers |-> {}, newUsers |-> [u \in Uids |-> NoRow],
                newListings |-> [l \in Lids |-> NoRow], met |-> FALSE]

\* Mutant of Flushable: --flush looks at live users.
FlushableLive(u) == LiveUser(u) /\ users[u].kind # "admin"

\* --flush keeps the users with the admin role, not those is_admin accepts.
Flushable(u) == UserExists(u) /\ users[u].kind # "admin"

FlushedListings == {l \in Lids : ListingExists(l)}

SeedFlushListings ==
    /\ SeedAt("flush_listings") /\ Uncommitted
    /\ seed' = [seed EXCEPT !.pc = "flush_users", !.goneListings = FlushedListings]

\* A listing committed in between protects its agent.
Protected(us) == \E l \in Lids : SeenListings[l] # NoRow /\ SeenListings[l].agent \in us

SeedFlushUsers ==
    /\ SeedAt("flush_users") /\ Uncommitted
    /\ ~Protected({u \in Uids : Flushable(u)})
    /\ seed' = [seed EXCEPT !.pc = "accounts", !.goneUsers = {u \in Uids : Flushable(u)}]

\* _create_admin and _create_agents, one account at a time.
SeedName == DemoNames[Len(seed.agents) + 1]

\* Mutant of FoundAccount: among all rows.
FoundAmongAll(name, u) == SeenUsers[u] # NoRow /\ SeenUsers[u].username = name
FoundAccount(name, u) ==
    SeenUsers[u] # NoRow /\ ~SeenUsers[u].deleted /\ SeenUsers[u].username = name

NewAccount(name) ==
    [username |-> name, email |-> name, deleted |-> FALSE,
     kind |-> IF name = DemoAdmin THEN "admin" ELSE "agent"]

AccountClash(name) ==
    \E u \in Uids : SeenUsers[u] # NoRow /\ name \in {SeenUsers[u].username, SeenUsers[u].email}

SeedAccount ==
    /\ SeedAt("accounts") /\ Len(seed.agents) < Len(DemoNames) /\ Uncommitted
    /\ \/ \E u \in Uids :
             /\ FoundAccount(SeedName, u)
             /\ seed' = [seed EXCEPT !.agents = Append(@, u)]
       \/ /\ ~\E u \in Uids : FoundAccount(SeedName, u)
          /\ ~AccountClash(SeedName)
          /\ \E u \in Uids : FreeUser(u) /\
                seed' = [seed EXCEPT !.agents = Append(@, u), !.newUsers[u] = NewAccount(SeedName)]

SeedAccountsDone ==
    /\ SeedAt("accounts") /\ Len(seed.agents) = Len(DemoNames) /\ Uncommitted
    /\ seed' = [seed EXCEPT !.pc = "listings"]

\* A title names the index and what the stream gave there, which is told by
\* how much was drawn before: once for the title, once for the street.
SeedTitle == <<seed.index, seed.drawn>>

\* Mutant of Known: the duplicate check reads live rows.
KnownLive(title) ==
    \E l \in Lids : SeenListings[l] # NoRow /\ ~SeenListings[l].deleted /\ SeenListings[l].title = title
Known(title) == \E l \in Lids : SeenListings[l] # NoRow /\ SeenListings[l].title = title

\* Mutant of Drawn: the street is drawn after the duplicate check.
DrawnLate == IF Known(SeedTitle) THEN seed.drawn + 1 ELSE seed.drawn + 2
Drawn == seed.drawn + 2

\* seed.agents starts with the administrator.
SeedAgent == seed.agents[((seed.index - 1) % Len(DemoAgents)) + 2]

SeedListing ==
    /\ SeedAt("listings") /\ seed.index <= seed.count /\ Uncommitted
    /\ \/ /\ Known(SeedTitle)
          /\ seed' = [seed EXCEPT !.index = @ + 1, !.drawn = Drawn]
       \/ /\ ~Known(SeedTitle)
          /\ \E l \in Lids : FreeListing(l) /\
                seed' = [seed EXCEPT !.index = @ + 1, !.drawn = Drawn,
                       !.newListings[l] = [agent |-> SeedAgent, createdBy |-> SeedAgent,
                                           title |-> SeedTitle, deleted |-> FALSE]]

\* What its new listings name must exist at the end.
SeedReferencesHold ==
    \A l \in NewListings : SeenUsers[seed.newListings[l].agent] # NoRow

SeedDone == SeedAt("listings") /\ seed.index > seed.count

SeedCommit ==
    /\ SeedDone /\ SeedReferencesHold
    /\ users' = SeenUsers /\ listings' = SeenListings
    /\ Ends(NoUser)
    /\ seed' = NoSeed /\ UNCHANGED bound

\* Any error ends the command and rolls back the transaction.
SeedFails ==
    /\ \/ SeedAt("flush_users") /\ Protected({u \in Uids : Flushable(u)})
       \/ /\ SeedAt("accounts") /\ Len(seed.agents) < Len(DemoNames)
          /\ ~\E u \in Uids : FoundAccount(SeedName, u)
          /\ AccountClash(SeedName)
       \/ SeedDone /\ ~SeedReferencesHold
    /\ seed' = NoSeed /\ Uncommitted

SeedAbort == Seeding /\ seed' = NoSeed /\ Uncommitted

-----------------------------------------------------------------------------
Init == AccountInit /\ seed = NoSeed /\ bound \in Bounds

\* A step of the others: the run under way notices what they commit.
Beside ==
    /\ seed' = IF Seeding /\ tables' # tables THEN [seed EXCEPT !.met = TRUE] ELSE seed
    /\ UNCHANGED bound

Request(w) == Room /\ ApiRequest(w) /\ WithinBound(w) /\ Beside
Form(w) == Room /\ AdminForm(w, bound.kinds) /\ WithinBound(w) /\ Beside
ListingCommit(w) == ~WaitsForSeed(w) /\ CommitListing(w) /\ Beside
UserCommit(w) == ~WaitsForSeed(w) /\ CommitUser(w) /\ Beside
RequestAbort(w) == Abort(w) /\ Beside

\* They wait too for the rows a run removed.
Restore(l) == (Seeding => l \notin seed.goneListings) /\ AdminRestore(l) /\ Beside
HardDelete(l) == (Seeding => l \notin seed.goneListings) /\ AdminHardDelete(l) /\ Beside
Remove(u) == (Seeding => u \notin seed.goneUsers) /\ RemoveUser(u) /\ Beside
Add(u, name) ==
    /\ Seeding => \A v \in NewUsers : seed.newUsers[v].username # name
    /\ FreeUser(u)
    /\ \E kind \in bound.kinds : AddUser(u, name, kind)
    /\ Beside

Others ==
    \/ \E w \in Workers :
          Request(w) \/ Form(w) \/ ListingCommit(w) \/ UserCommit(w) \/ RequestAbort(w)
    \/ \E l \in Lids : Restore(l) \/ HardDelete(l)
    \/ \E u \in Uids : Remove(u) \/ \E name \in Names : Add(u, name)

SeedStep ==
    \/ \E flush \in BOOLEAN : SeedStart(flush)
    \/ SeedFlushListings \/ SeedFlushUsers
    \/ SeedAccount \/ SeedAccountsDone \/ SeedListing
    \/ SeedCommit \/ SeedFails \/ SeedAbort

Next == Others \/ SeedStep

Spec == Init /\ [][Next]_vars

-----------------------------------------------------------------------------
StateOK == TypeOK /\ SeedOK

SameIndex(k, l) ==
    /\ ListingExists(k) /\ ListingExists(l) /\ k # l
    /\ OwnTitle \notin {listings[k].title, listings[l].title}
    /\ listings[k].title[1] = listings[l].title[1]

\* "Running it twice will not duplicate data": no run adds a listing for an
\* index that has one, deleted or not, though agents retitle, delete and remove
\* them between the runs.  Only a run somebody wrote next to, or a stale save
\* that brings an old listing back, leaves two (seed_demo.py, _create_listing).
DuplicatesOnlyByOverlap ==
    [][\A k, l \in Lids : SameIndex(k, l)' /\ ~SameIndex(k, l) =>
         \/ SeedCommit /\ seed.met
         \/ \E w \in Workers : Finishing(w) /\ txn[w].met]_vars

\* A run that nobody wrote next to and that commits has done what it was asked
\* to, whatever its table looked like: every demo account is live, and every
\* index has a listing, of an agent who is live (seed_demo.py, handle).
SeedDelivers ==
    [][SeedCommit /\ ~seed.met =>
         /\ \A n \in 1..Len(DemoNames) : \E u \in Uids :
               LiveUser(u)' /\ users'[u].username = DemoNames[n]
         /\ \A i \in 1..seed.count : \E l \in Lids :
               ListingExists(l)' /\ listings'[l].title # OwnTitle /\ listings'[l].title[1] = i
         /\ \A l \in Lids : ListingExists(l)' /\ ~ListingExists(l) =>
               \E u \in Uids : listings'[l].agent = u /\ LiveUser(u)']_vars

\* Alone at work, the command fails only because an account it did not find
\* has a name it needs, soft deleted or renamed, and with --flush only because
\* of one that has the admin role: everything else the flush clears away,
\* soft deleted rows included (_create_admin, _create_agents, --flush).
Squatter(u, name) ==
    /\ UserExists(u) /\ name \in {users[u].username, users[u].email}
    /\ users[u].deleted \/ users[u].username # name

SeedFailsOnlyForNames ==
    [][SeedFails =>
         \/ seed.met
         \/ \E u \in Uids, n \in 1..Len(DemoNames) :
               Squatter(u, DemoNames[n]) /\ (seed.flush => users[u].kind = "admin")]_vars

AccountsKeepOut == [][DeletedAccountsStayOut]_vars
AgentsAreLive == [][OrphansOnlyByOverlap(SeedCommit /\ seed.met)]_vars

-----------------------------------------------------------------------------
(* Why they hold.                                                          *)

\* How far a run has come.  It has drawn twice for every listing so far,
\* whether it added it or found it there.
RunsProgress ==
    Seeding =>
        /\ seed.pc \in {"flush_listings", "flush_users"} =>
              seed.flush /\ seed.agents = <<>> /\ seed.goneUsers = {} /\ NewUsers = {}
        /\ seed.pc # "listings" => NewListings = {} /\ seed.index = 1
        /\ seed.pc = "listings" => Len(seed.agents) = Len(DemoNames)
        /\ Len(seed.agents) <= Len(DemoNames)
        /\ seed.index <= seed.count + 1 /\ seed.drawn = 2 * (seed.index - 1)

\* Every title is an agent's or the one the stream gives at an index.
Drawable == {OwnTitle} \cup {<<n, 2 * (n - 1)>> : n \in 1..MaxCount}

TitlesAreDrawn ==
    /\ \A l \in Lids : ListingExists(l) => listings[l].title \in Drawable
    /\ \A w \in Workers : ~Idle(w) /\ txn[w].op \in {"create", "update", "delete"} =>
          txn[w].row.title \in Drawable
    /\ Seeding => \A l \in NewListings : seed.newListings[l].title \in Drawable \ {OwnTitle}

\* Accounts a run adds are its own until it commits: nobody else has the key,
\* or the name, which the unique indexes make the others wait for.
NewAccountsAreOwn ==
    Seeding => \A u \in NewUsers :
        /\ ~UserExists(u) /\ \E n \in 1..Len(seed.agents) : seed.agents[n] = u
        /\ \A w \in Workers : ~Idle(w) /\ txn[w].op \in {"change", "retire"} => txn[w].id # u
        /\ seed.newUsers[u].email = seed.newUsers[u].username /\ ~seed.newUsers[u].deleted
        /\ \A v \in Uids \ {u} : SeenUsers[v] # NoRow =>
              /\ SeenUsers[v].username # seed.newUsers[u].username
              /\ SeenUsers[v].email # seed.newUsers[u].username

\* Rows a run removes are there until it commits, for the others wait for
\* them; the listings it leaves have agents it leaves, although others go on
\* assigning agents; those it adds name an account of its own, twice.
RemovedRowsStay ==
    Seeding =>
        /\ \A u \in seed.goneUsers : UserExists(u)
        /\ \A l \in seed.goneListings : ListingExists(l)
        /\ \A l \in Lids \ seed.goneListings :
              ListingExists(l) => listings[l].agent \notin seed.goneUsers
        /\ \A l \in NewListings :
              /\ l \notin seed.goneListings
              /\ seed.newListings[l].createdBy = seed.newListings[l].agent
              /\ \E n \in 1..Len(seed.agents) : seed.agents[n] = seed.newListings[l].agent

\* A run that nobody wrote next to still sees what it found: its accounts,
\* live and with their names, nothing to flush, and a listing for every index
\* so far, alone with its title if it added it.
UndisturbedRuns ==
    Seeding /\ ~seed.met =>
        /\ \A n \in 1..Len(seed.agents) : FoundAccount(DemoNames[n], seed.agents[n])
        /\ seed.pc = "flush_users" => \A l \in Lids : ListingExists(l) => l \in seed.goneListings
        /\ seed.flush /\ seed.pc \in {"accounts", "listings"} =>
              \A u \in Uids : Flushable(u) => u \in seed.goneUsers
        /\ \A n \in 1..(seed.index - 1) : Known(<<n, 2 * (n - 1)>>)
        /\ \A l \in NewListings, k \in Lids : k # l /\ SeenListings[k] # NoRow =>
              SeenListings[k].title # seed.newListings[l].title

\* What a transaction has read still holds while nobody changes the rows it
\* relies on.
Holds(t) ==
    CASE t.op = "change" -> UserExists(t.id) /\ t.row.deleted = users[t.id].deleted
      [] t.op = "retire" -> LiveUser(t.id) /\ ~HasListings(t.id)
      [] OTHER -> /\ \A u \in UsersNamed(t) : UserExists(u)
                  /\ t.op # "create" => ListingExists(t.id)
                  /\ \/ t.op = "delete" \/ LiveUser(t.row.agent)
                     \/ t.op = "update" /\ t.row.agent = listings[t.id].agent
                  /\ \/ t.op = "delete" \/ t.row.title = OwnTitle
                     \/ t.op = "update" /\ t.row.title = listings[t.id].title

UnmetHold == \A w \in Workers : ~Idle(w) /\ ~txn[w].met => Holds(txn[w])

IInv ==
    /\ StateOK /\ ReferencesExist /\ TitlesAreDrawn /\ UnmetHold
    /\ RunsProgress /\ NewAccountsAreOwn /\ RemovedRowsStay /\ UndisturbedRuns
=============================================================================
