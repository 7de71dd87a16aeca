------------------------------ MODULE Accounts ------------------------------
(***************************************************************************)
(* User accounts and the listings that name them: authentication, the      *)
(* serializer's and the service's look at the users of a write, the admin  *)
(* site's forms for users, soft and permanent deletion, and the foreign    *)
(* keys, which PostgreSQL checks when a transaction commits.               *)
(*                                                                         *)
(* ListingStore has the users fixed and every step of a write; here users  *)
(* come and go, and a write has two steps: what it reads and decides when  *)
(* it begins, and what it leaves behind, or fails with, when it commits.   *)
(***************************************************************************)
EXTENDS Naturals, FiniteSets, ApiErrors

CONSTANTS
    Uids,       \* primary keys of users
    Lids,       \* primary keys of listings
    Names,      \* a name stands for a username and for the address with it
    Titles,     \* titles of listings
    OwnTitle,   \* the one that agents write
    Workers,    \* server threads
    BadId,      \* an id in a URL that is no UUID
    Kinds,      \* the kinds of users there are
    NoUser, NoRow, NoTxn

VARIABLES
    users,      \* Uids -> User or NoRow
    listings,   \* Lids -> Listing or NoRow
    txn         \* the write each worker has in progress

tables == <<users, listings>>
accountVars == <<tables, txn>>

-----------------------------------------------------------------------------
\* UserService.is_admin does not tell a superuser or a member of staff from a
\* user with the admin role; seed_demo --flush does.
ASSUME KindsAssumption == Kinds \subseteq {"agent", "staff", "admin"}

User == [username : Names, email : Names, kind : Kinds, deleted : BOOLEAN]

\* createdBy stands for the audit columns.
Listing == [agent : Uids, createdBy : Uids \cup {NoUser}, title : Titles, deleted : BOOLEAN]

\* `row` is the instance it loaded or built, of a listing or of a user; `met`
\* is history: has somebody else written what it relies on since it began?
Txn == [op : {"create", "update", "delete"}, actor : Uids \cup {NoUser}, id : Lids,
        row : Listing, met : BOOLEAN]
       \cup [op : {"change", "retire"}, actor : {NoUser}, id : Uids, row : User, met : BOOLEAN]

ASSUME AccountsAssumption ==
    /\ OwnTitle \in Titles /\ BadId \notin Lids /\ NoUser \notin Uids
    /\ NoRow \notin User \cup Listing /\ NoTxn \notin Txn

TypeOK ==
    /\ users \in [Uids -> User \cup {NoRow}]
    /\ listings \in [Lids -> Listing \cup {NoRow}]
    /\ txn \in [Workers -> Txn \cup {NoTxn}]

-----------------------------------------------------------------------------
UserExists(u) == u \in Uids /\ users[u] # NoRow
LiveUser(u) == UserExists(u) /\ ~users[u].deleted

\* The users a serializer or a form lets a client choose.
Selectable(u) == LiveUser(u)

ListingExists(l) == l \in Lids /\ listings[l] # NoRow
LiveListing(l) == ListingExists(l) /\ ~listings[l].deleted
IsAdmin(u) == users[u].kind # "agent"

\* Mutant of HasListings: soft deleted listings do not count.
HasLiveListings(u) == \E l \in Lids : LiveListing(l) /\ listings[l].agent = u

\* PROTECT counts every row.
HasListings(u) == \E l \in Lids : ListingExists(l) /\ listings[l].agent = u

\* Unique indexes span deleted rows.
NamesFree(u, row) ==
    \A v \in Uids \ {u} : UserExists(v) =>
        users[v].username # row.username /\ users[v].email # row.email

\* What a request raises before it writes, in the order of the checks: the
\* token, the payload, the lookup, the ownership and the agent it wants.
Objection(op, u, l, wanted) ==
    CASE u = NoUser -> "NotAuthenticated"
      [] ~LiveUser(u) -> "AuthenticationFailed"
      [] wanted # NoUser /\ ~Selectable(wanted) -> "DRFValidationError"
      [] op # "create" /\ l = BadId -> "DjangoValidationError"
      [] op # "create" /\ ~LiveListing(l) -> "NotFoundException"
      [] op # "create" /\ listings[l].agent # u /\ ~IsAdmin(u) -> "PermissionDeniedException"
      [] wanted \notin {NoUser, u} /\ ~IsAdmin(u) -> "PermissionDeniedException"
      [] op = "update" /\ wanted # NoUser /\ wanted # listings[l].agent /\ ~IsAdmin(u)
            -> "PermissionDeniedException"
      [] OTHER -> "none"

-----------------------------------------------------------------------------
(* Transactions.                                                           *)

Idle(w) == txn[w] = NoTxn

\* A key is free when no row and no request names it.  uuid4 gives no key out
\* twice; one that nobody remembers can stand for a new one.
UsersHeld ==
    UNION {IF Idle(w) THEN {}
           ELSE IF txn[w].op \in {"change", "retire"} THEN {txn[w].id}
           ELSE {txn[w].actor, txn[w].row.agent, txn[w].row.createdBy} : w \in Workers}
ListingsHeld == {l \in Lids : ListingExists(l) \/ \E w \in Workers : ~Idle(w) /\ txn[w].id = l}

Begin(w, op, actor, id, row) ==
    /\ Idle(w)
    /\ txn' = [txn EXCEPT ![w] = [op |-> op, actor |-> actor, id |-> id, row |-> row, met |-> FALSE]]
    /\ UNCHANGED tables

\* The users a committing listing names: all its columns, or after a soft
\* delete the one it stamps.
UsersNamed(t) ==
    (IF t.op = "delete" THEN {t.actor} ELSE {t.row.agent, t.row.createdBy, t.actor}) \ {NoUser}

\* History: does what has just been written concern this transaction?
Concerns(t, us, ls) ==
    IF t.op \in {"change", "retire"}
    THEN t.id \in us \/ \E l \in ls : ListingExists(l)' /\ listings'[l].agent = t.id
    ELSE t.id \in ls \/ ({t.actor, t.row.agent, t.row.createdBy} \cap us) # {}

ChangedUsers == {u \in Uids : users'[u] # users[u]}
ChangedListings == {l \in Lids : listings'[l] # listings[l]}

\* The end of a transaction, of worker w or of nobody's (NoUser).
Ends(w) ==
    txn' = [v \in Workers |->
              IF v = w THEN NoTxn
              ELSE IF ~Idle(v) /\ Concerns(txn[v], ChangedUsers, ChangedListings)
                   THEN [txn[v] EXCEPT !.met = TRUE] ELSE txn[v]]

\* It fails and rolls back.
Fails(w) == txn' = [txn EXCEPT ![w] = NoTxn] /\ UNCHANGED tables

-----------------------------------------------------------------------------
(* Writing listings.                                                       *)

\* Mutant of NewListing: no default to the actor.
NewListingAsSent(u, wanted) ==
    [agent |-> wanted, createdBy |-> u, title |-> OwnTitle, deleted |-> FALSE]
NewListing(u, wanted) ==
    [agent |-> IF wanted = NoUser THEN u ELSE wanted, createdBy |-> u,
     title |-> OwnTitle, deleted |-> FALSE]

\* A request that is refused changes nothing: it is no step.
Create(w, u, l, wanted) ==
    /\ Objection("create", u, l, wanted) = "none" /\ l \notin ListingsHeld
    /\ Begin(w, "create", u, l, NewListing(u, wanted))

\* It changes the title, or the agent.
Update(w, u, l, wanted) ==
    /\ Objection("update", u, l, wanted) = "none"
    /\ Begin(w, "update", u, l,
             IF wanted = NoUser THEN [listings[l] EXCEPT !.title = OwnTitle]
                                ELSE [listings[l] EXCEPT !.agent = wanted])

Delete(w, u, l) ==
    /\ Objection("delete", u, l, NoUser) = "none"
    /\ Begin(w, "delete", u, l, listings[l])

\* The admin site's form: any row, any live agent.
AdminAssign(w, l, agent) ==
    /\ ListingExists(l) /\ Selectable(agent)
    /\ Begin(w, "update", NoUser, l, [listings[l] EXCEPT !.agent = agent])

\* A soft delete saves its own columns, any other save the whole instance.
Written(t) == IF t.op = "delete" THEN [listings[t.id] EXCEPT !.deleted = TRUE] ELSE t.row

\* What committing raises: a soft delete of a row that is gone DatabaseError
\* (any other save inserts the row again), a foreign key IntegrityError.
Failure(w) ==
    IF txn[w].op = "delete" /\ ~ListingExists(txn[w].id) THEN "DatabaseError"
    ELSE IF \E u \in UsersNamed(txn[w]) : ~UserExists(u) THEN "IntegrityError" ELSE "none"

CommitListing(w) ==
    /\ ~Idle(w) /\ txn[w].op \in {"create", "update", "delete"}
    /\ \/ Failure(w) # "none" /\ Fails(w)
       \/ /\ Failure(w) = "none"
          /\ listings' = [listings EXCEPT ![txn[w].id] = Written(txn[w])]
          /\ UNCHANGED users
          /\ Ends(w)

\* The admin site's bulk actions on listings.
AdminRestore(l) ==
    /\ ListingExists(l) /\ listings[l].deleted
    /\ listings' = [listings EXCEPT ![l].deleted = FALSE]
    /\ UNCHANGED users /\ Ends(NoUser)

AdminHardDelete(l) ==
    /\ ListingExists(l)
    /\ listings' = [listings EXCEPT ![l] = NoRow]
    /\ UNCHANGED users /\ Ends(NoUser)

-----------------------------------------------------------------------------
(* Managing users: createsuperuser and the admin site.                     *)

\* A name in use by any row is refused, by the form or by the index.
AddUser(u, name, kind) ==
    /\ ~UserExists(u) /\ u \notin UsersHeld
    /\ LET row == [username |-> name, email |-> name, kind |-> kind, deleted |-> FALSE] IN
       /\ NamesFree(u, row)
       /\ users' = [users EXCEPT ![u] = row]
    /\ UNCHANGED listings /\ Ends(NoUser)

\* The change form, open to soft deleted users too.
ChangeUser(w, u, name, kind) ==
    /\ UserExists(u)
    /\ Begin(w, "change", NoUser, u, [users[u] EXCEPT !.username = name, !.kind = kind])

\* The delete button: Django looks for protected rows, then the model's
\* delete() soft deletes.
RetireUser(w, u) ==
    /\ LiveUser(u) /\ ~HasListings(u)
    /\ Begin(w, "retire", NoUser, u, users[u])

\* Mutant of SavedUser: the form's save clears the deletion.
SavedUserLive(t) ==
    IF t.op = "retire" THEN [users[t.id] EXCEPT !.deleted = TRUE] ELSE [t.row EXCEPT !.deleted = FALSE]

\* The form saves every column of the user it loaded, the soft delete its own.
SavedUser(t) == IF t.op = "retire" THEN [users[t.id] EXCEPT !.deleted = TRUE] ELSE t.row

CommitUser(w) ==
    /\ ~Idle(w) /\ txn[w].op \in {"change", "retire"}
    /\ LET saves == IF txn[w].op = "retire" THEN UserExists(txn[w].id)
                                            ELSE NamesFree(txn[w].id, txn[w].row) IN
       \/ ~saves /\ Fails(w)
       \/ /\ saves
          /\ users' = [users EXCEPT ![txn[w].id] = SavedUser(txn[w])]
          /\ UNCHANGED listings
          /\ Ends(w)

\* Mutant of Unstamped: on_delete leaves the audit columns alone.
UnstampedNot(row, us) == IF us = {} THEN row ELSE row

\* SET_NULL.
Unstamped(row, us) ==
    IF row # NoRow /\ row.createdBy \in us THEN [row EXCEPT !.createdBy = NoUser] ELSE row

\* "Delete selected users": all_objects removes rows, unless PROTECT objects.
RemoveUser(u) ==
    /\ UserExists(u) /\ ~HasListings(u)
    /\ users' = [users EXCEPT ![u] = NoRow]
    /\ listings' = [l \in Lids |-> Unstamped(listings[l], {u})]
    /\ Ends(NoUser)

Abort(w) == ~Idle(w) /\ Fails(w)

-----------------------------------------------------------------------------
AccountInit ==
    /\ users = [u \in Uids |-> NoRow]
    /\ listings = [l \in Lids |-> NoRow]
    /\ txn = [w \in Workers |-> NoTxn]

MaybeUser == Uids \cup {NoUser}

ApiRequest(w) ==
    \/ \E u \in Uids, wanted \in MaybeUser, l \in Lids : Create(w, u, l, wanted) \/ Update(w, u, l, wanted)
    \/ \E u \in Uids, l \in Lids : Delete(w, u, l)

AdminForm(w, kinds) ==
    \/ \E l \in Lids, u \in Uids : AdminAssign(w, l, u)
    \/ \E u \in Uids, name \in Names, kind \in kinds : ChangeUser(w, u, name, kind)
    \/ \E u \in Uids : RetireUser(w, u)

-----------------------------------------------------------------------------
\* Every user a listing names exists, and no two accounts share a username or
\* an address, soft deleted ones included: PROTECT on the agent, SET_NULL on
\* the audit columns and the checks at commit hold together although requests
\* save instances they loaded before a user was removed (Listing.agent,
\* BaseAbstractModel.created_by).
ReferencesExist ==
    /\ \A l \in Lids : ListingExists(l) =>
          {listings[l].agent, listings[l].createdBy} \ {NoUser} \subseteq {u \in Uids : UserExists(u)}
    /\ \A u \in Uids : UserExists(u) => NamesFree(u, users[u])

Finishing(w) == ~Idle(w) /\ Idle(w)'

Orphan(l) == ListingExists(l) /\ ~LiveUser(listings[l].agent)

\* The agent of a listing is a live user, unless two requests overlapped: a
\* user with listings cannot be soft deleted, and a soft deleted one is not
\* given any, but the two checks read what the other is about to change
\* (ListingWriteSerializer.agent_id, UserAdmin).
OrphansOnlyByOverlap(Excused) ==
    \A l \in Lids : Orphan(l)' /\ ~(Orphan(l) /\ listings'[l].agent = listings[l].agent) =>
        Excused \/ \E w \in Workers : Finishing(w) /\ txn[w].met

\* A soft deleted account stays shut out: no operation brings it back, but for
\* a change form that loaded the user before the deletion and saves every
\* column after it ("Soft-deleting a user also prevents login", README.md).
DeletedAccountsStayOut ==
    \A u \in Uids : UserExists(u) /\ users[u].deleted /\ LiveUser(u)' =>
        \E w \in Workers : Finishing(w) /\ txn[w].id = u /\ txn[w].met

\* A client is told of a conflict or a server error only when somebody else has
\* changed what its request relied on: whatever token, id and agent it sends, a
\* request alone succeeds or is answered with one of the documented errors
\* (LISTING_ERRORS: 400, 401, 403, 404).
Documented == {400, 401, 403, 404}

FailuresOnlyByOverlap ==
    /\ \A op \in {"create", "update", "delete"}, u, wanted \in MaybeUser,
          l \in {BadId} \cup {k \in Lids : ListingExists(k)} :
          LET exc == Objection(op, u, l, wanted) IN
          exc # "none" => Handled(exc).status \in Documented
    /\ \A w \in Workers :
          ~Idle(w) /\ txn[w].actor # NoUser /\ ~txn[w].met =>
              Failure(w) = "none" \/ Handled(Failure(w)).status \in Documented
=============================================================================
