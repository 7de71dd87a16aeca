--------------------------- MODULE SeedDemoProofs ---------------------------
(***************************************************************************)
(* Theorems about SeedDemo and Accounts: SeedDemo's IInv is an invariant,  *)
(* and with it references and names hold together, an account that was     *)
(* deleted stays out, an agent is live and a conflict appears only by an   *)
(* overlap, and a run of the command adds nothing twice, does what it was  *)
(* asked to or fails for a name, unless somebody wrote next to it.         *)
(***************************************************************************)
EXTENDS SeedDemo, TLAPS

-----------------------------------------------------------------------------
(* Types.                                                                  *)

\* What the constants' assumptions say of the types.
LEMMA RowTypes ==
    /\ NoRow \notin User /\ NoRow \notin Listing /\ NoTxn \notin Txn /\ NoSeed \notin SeedRun
    /\ NoUser \notin Uids
    /\ OwnTitle \in Titles /\ "agent" \in Kinds /\ "admin" \in Kinds
    /\ Drawable \subseteq Titles
  BY AccountsAssumption, SeedAssumption DEF Drawable

\* The fields of a transaction in progress.
LEMMA TxnFields ==
    ASSUME TypeOK, NEW w \in Workers, ~Idle(w)
    PROVE  /\ txn[w] \in Txn /\ txn[w].met \in BOOLEAN
           /\ txn[w].op \in {"create", "update", "delete", "change", "retire"}
           /\ txn[w].op \in {"create", "update", "delete"} =>
                 txn[w].id \in Lids /\ txn[w].row \in Listing /\ txn[w].actor \in Uids \cup {NoUser}
           /\ txn[w].op \in {"change", "retire"} =>
                 txn[w].id \in Uids /\ txn[w].row \in User /\ txn[w].actor = NoUser
<1>1. txn[w] \in Txn
  BY DEF TypeOK, Idle
<1>2. QED BY <1>1 DEF Txn

\* The run under way is a record.
LEMMA RunFields ==
    ASSUME SeedOK, Seeding
    PROVE  seed \in SeedRun
  BY DEF SeedOK, Seeding

\* The administrator and the agents.
LEMMA NamesOfRuns ==
    /\ DemoNames \in Seq(Names) /\ Len(DemoNames) = Len(DemoAgents) + 1
    /\ Len(DemoAgents) \in Nat \ {0}
<1>1. DemoAdmin \in Names /\ DemoAgents \in Seq(Names) /\ Len(DemoAgents) > 0
  BY SeedAssumption
<1>2. <<DemoAdmin>> \in Seq(Names) /\ Len(<<DemoAdmin>>) = 1
  BY <1>1
<1>3. QED BY <1>1, <1>2 DEF DemoNames

\* What a request that is not refused has found.
LEMMA NoObjection ==
    ASSUME NEW op, NEW u \in Uids, NEW l \in Lids, NEW wanted \in MaybeUser,
           Objection(op, u, l, wanted) = "none"
    PROVE  /\ LiveUser(u) /\ (wanted # NoUser => LiveUser(wanted))
           /\ op # "create" => LiveListing(l)
<1>1. u # NoUser /\ l # BadId
  BY AccountsAssumption
<1>2. QED BY <1>1 DEF Objection, Selectable

-----------------------------------------------------------------------------
(* Requests and forms that begin.                                          *)

\* Worker w begins with t, which holds of what it has read.
Begins(w, t) ==
    /\ Idle(w) /\ txn' = [txn EXCEPT ![w] = t]
    /\ UNCHANGED <<tables, bound, seed>>
    /\ t \in Txn /\ ~t.met /\ Holds(t)
    /\ t.op \in {"create", "update", "delete"} => t.row.title \in Drawable
    /\ t.op \in {"change", "retire"} => UserExists(t.id)

LEMMA BesideUnchanged ==
    ASSUME UNCHANGED tables, Beside
    PROVE  UNCHANGED <<tables, bound, seed>>
  BY DEF Beside

LEMMA CreateBegins ==
    ASSUME IInv, NEW w \in Workers, NEW u \in Uids, NEW l \in Lids, NEW wanted \in MaybeUser,
           Create(w, u, l, wanted), Beside
    PROVE  \E t : Begins(w, t)
<1> DEFINE row == NewListing(u, wanted)
           t == [op |-> "create", actor |-> u, id |-> l, row |-> row, met |-> FALSE]
<1>1. LiveUser(u) /\ (wanted # NoUser => LiveUser(wanted))
  BY NoObjection DEF Create
<1>2. Idle(w) /\ txn' = [txn EXCEPT ![w] = t] /\ UNCHANGED <<tables, bound, seed>>
  BY BesideUnchanged DEF Create, Begin
<1>3. /\ row \in Listing /\ row.createdBy = u /\ row.title = OwnTitle
      /\ row.agent \in {u, wanted} \ {NoUser} /\ LiveUser(row.agent)
  BY <1>1, RowTypes DEF NewListing, Listing, MaybeUser
<1> HIDE DEF row
<1>4. t \in Txn /\ t.op = "create" /\ t.row = row /\ t.actor = u /\ ~t.met
  BY <1>3 DEF Txn
<1> HIDE DEF t
<1>5. Holds(t)
  BY <1>1, <1>3, <1>4 DEF Holds, UsersNamed, LiveUser
<1>6. QED BY <1>2, <1>3, <1>4, <1>5 DEF Begins, Drawable

\* A listing's row names users who are there.
LEMMA RowNames ==
    ASSUME IInv, NEW l \in Lids, ListingExists(l)
    PROVE  /\ listings[l] \in Listing /\ listings[l].title \in Drawable
           /\ UserExists(listings[l].agent)
           /\ listings[l].createdBy # NoUser => UserExists(listings[l].createdBy)
<1>1. listings[l] \in Listing
  BY DEF IInv, StateOK, TypeOK, ListingExists
<1>2. QED BY <1>1, RowTypes DEF IInv, ReferencesExist, TitlesAreDrawn, Listing

\* A request or a form that will save a listing it has loaded.
LEMMA SaveBegins ==
    ASSUME IInv, NEW w \in Workers, NEW actor \in Uids \cup {NoUser}, NEW l \in Lids,
           NEW op \in {"update", "delete"}, NEW row \in Listing, Begin(w, op, actor, l, row), Beside,
           actor # NoUser => UserExists(actor), ListingExists(l),
           row.createdBy = listings[l].createdBy,
           row.agent = listings[l].agent \/ (op = "update" /\ LiveUser(row.agent)),
           row.title = listings[l].title \/ (op = "update" /\ row.title = OwnTitle)
    PROVE  \E t : Begins(w, t)
<1> DEFINE t == [op |-> op, actor |-> actor, id |-> l, row |-> row, met |-> FALSE]
<1>1. Idle(w) /\ txn' = [txn EXCEPT ![w] = t] /\ UNCHANGED <<tables, bound, seed>>
  BY BesideUnchanged DEF Begin
<1>2. /\ t \in Txn /\ t.op = op /\ t.row = row /\ t.actor = actor /\ t.id = l /\ ~t.met
  BY DEF Txn
<1> HIDE DEF t
<1>3. Holds(t)
  BY <1>2, RowNames DEF Holds, UsersNamed, LiveUser
<1>4. t.row.title \in Drawable
  BY <1>2, RowNames DEF Drawable
<1>5. QED BY <1>1, <1>2, <1>3, <1>4 DEF Begins

LEMMA UpdateBegins ==
    ASSUME IInv, NEW w \in Workers, NEW u \in Uids, NEW l \in Lids, NEW wanted \in MaybeUser,
           Update(w, u, l, wanted), Beside
    PROVE  \E t : Begins(w, t)
<1>1. /\ UserExists(u) /\ (wanted # NoUser => LiveUser(wanted) /\ wanted \in Uids)
      /\ ListingExists(l)
  BY NoObjection DEF Update, LiveUser, LiveListing, MaybeUser
<1>2. listings[l] \in Listing
  BY <1>1, RowNames
<1>3. CASE wanted = NoUser
  <2> DEFINE row == [listings[l] EXCEPT !.title = OwnTitle]
  <2>1. /\ row \in Listing /\ row.createdBy = listings[l].createdBy
        /\ row.agent = listings[l].agent /\ row.title = OwnTitle
    BY <1>2, RowTypes DEF Listing
  <2>2. Begin(w, "update", u, l, row)
    BY <1>3 DEF Update
  <2> HIDE DEF row
  <2>3. QED BY <1>1, <2>1, <2>2, SaveBegins
<1>4. CASE wanted # NoUser
  <2> DEFINE row == [listings[l] EXCEPT !.agent = wanted]
  <2>1. /\ row \in Listing /\ row.createdBy = listings[l].createdBy
        /\ row.agent = wanted /\ row.title = listings[l].title
    BY <1>1, <1>2, <1>4, RowTypes DEF Listing
  <2>2. Begin(w, "update", u, l, row)
    BY <1>4 DEF Update
  <2> HIDE DEF row
  <2>3. QED BY <1>1, <1>4, <2>1, <2>2, SaveBegins
<1>5. QED BY <1>3, <1>4

LEMMA DeleteBegins ==
    ASSUME IInv, NEW w \in Workers, NEW u \in Uids, NEW l \in Lids, Delete(w, u, l), Beside
    PROVE  \E t : Begins(w, t)
<1>1. UserExists(u) /\ ListingExists(l)
  BY NoObjection DEF Delete, LiveUser, LiveListing, MaybeUser
<1>2. QED BY <1>1, RowNames, SaveBegins DEF Delete

LEMMA AssignBegins ==
    ASSUME IInv, NEW w \in Workers, NEW l \in Lids, NEW u \in Uids, AdminAssign(w, l, u), Beside
    PROVE  \E t : Begins(w, t)
<1> DEFINE row == [listings[l] EXCEPT !.agent = u]
<1>1. ListingExists(l) /\ LiveUser(u) /\ Begin(w, "update", NoUser, l, row)
  BY DEF AdminAssign, Selectable
<1>2. /\ row \in Listing /\ row.createdBy = listings[l].createdBy
      /\ row.agent = u /\ row.title = listings[l].title
  BY <1>1, RowNames DEF Listing
<1> HIDE DEF row
<1>3. QED BY <1>1, <1>2, SaveBegins

\* The forms for users.
LEMMA UserFormBegins ==
    ASSUME IInv, NEW w \in Workers, NEW u \in Uids, NEW row \in User,
           NEW op \in {"change", "retire"}, Begin(w, op, NoUser, u, row), Beside,
           op = "change" => UserExists(u) /\ row.deleted = users[u].deleted,
           op = "retire" => LiveUser(u) /\ ~HasListings(u)
    PROVE  \E t : Begins(w, t)
<1> DEFINE t == [op |-> op, actor |-> NoUser, id |-> u, row |-> row, met |-> FALSE]
<1>1. Idle(w) /\ txn' = [txn EXCEPT ![w] = t] /\ UNCHANGED <<tables, bound, seed>>
  BY BesideUnchanged DEF Begin
<1>2. t \in Txn /\ t.op = op /\ t.row = row /\ t.id = u /\ ~t.met
  BY DEF Txn
<1> HIDE DEF t
<1>3. Holds(t) /\ UserExists(t.id)
  BY <1>2 DEF Holds, LiveUser
<1>4. QED BY <1>1, <1>2, <1>3 DEF Begins

LEMMA ChangeBegins ==
    ASSUME IInv, NEW w \in Workers, NEW u \in Uids, NEW name \in Names, NEW kind \in Kinds,
           ChangeUser(w, u, name, kind), Beside
    PROVE  \E t : Begins(w, t)
<1> DEFINE row == [users[u] EXCEPT !.username = name, !.kind = kind]
<1>1. users[u] \in User /\ UserExists(u) /\ Begin(w, "change", NoUser, u, row)
  BY DEF ChangeUser, UserExists, IInv, StateOK, TypeOK
<1>2. row \in User /\ row.deleted = users[u].deleted
  BY <1>1 DEF User
<1> HIDE DEF row
<1>3. QED BY <1>1, <1>2, UserFormBegins

LEMMA RetireBegins ==
    ASSUME IInv, NEW w \in Workers, NEW u \in Uids, RetireUser(w, u), Beside
    PROVE  \E t : Begins(w, t)
<1>1. users[u] \in User
  BY DEF RetireUser, LiveUser, UserExists, IInv, StateOK, TypeOK
<1>2. QED BY <1>1, UserFormBegins DEF RetireUser

LEMMA RequestsBegin ==
    ASSUME IInv, NEW w \in Workers, Request(w) \/ Form(w)
    PROVE  \E t : Begins(w, t)
<1>1. ASSUME Request(w) PROVE \E t : Begins(w, t)
  BY <1>1, CreateBegins, UpdateBegins, DeleteBegins DEF Request, ApiRequest
<1>2. ASSUME Form(w) PROVE \E t : Begins(w, t)
  <2>1. bound.kinds \subseteq Kinds
    BY SeedAssumption DEF IInv, StateOK, SeedOK
  <2>2. QED BY <1>2, <2>1, AssignBegins, ChangeBegins, RetireBegins DEF Form, AdminForm
<1>3. QED BY <1>1, <1>2

-----------------------------------------------------------------------------
(* Steps that leave the tables alone.                                      *)

\* What is said of the tables and of the run, and of nothing else.
LEMMA RunUntouched ==
    ASSUME IInv, UNCHANGED <<tables, bound, seed>>
    PROVE  /\ ReferencesExist' /\ RunsProgress' /\ RemovedRowsStay' /\ UndisturbedRuns'
           /\ SeedOK' /\ users' = users /\ listings' = listings /\ seed' = seed
<1>1. users' = users /\ listings' = listings /\ seed' = seed /\ bound' = bound
  BY DEF tables
<1>2. ReferencesExist'
  BY <1>1 DEF IInv, ReferencesExist, ListingExists, UserExists, NamesFree
<1>3. RunsProgress'
  BY <1>1 DEF IInv, RunsProgress, Seeding, NewUsers, NewListings
<1>4. RemovedRowsStay'
  BY <1>1 DEF IInv, RemovedRowsStay, Seeding, NewListings, UserExists, ListingExists
<1>5. UndisturbedRuns'
  <2>1. SeenUsers' = SeenUsers /\ SeenListings' = SeenListings /\ NewListings' = NewListings
    BY <1>1 DEF SeenUsers, SeenListings, NewListings, Unstamped
  <2>2. QED BY <1>1, <2>1 DEF IInv, UndisturbedRuns, Seeding, FoundAccount, Known, Flushable,
                              UserExists, ListingExists
<1>6. SeedOK'
  BY <1>1 DEF IInv, StateOK, SeedOK
<1>7. QED BY <1>1, <1>2, <1>3, <1>4, <1>5, <1>6

\* What a transaction relies on holds while the tables stay.
LEMMA HoldsStays ==
    ASSUME NEW t, NEW w \in Workers, txn'[w] = t, UNCHANGED tables, Holds(t)
    PROVE  Holds(txn[w])'
  BY DEF tables, Holds, UserExists, LiveUser, ListingExists, HasListings, UsersNamed

LEMMA BeginsKeeps ==
    ASSUME IInv, NEW w \in Workers, NEW t, Begins(w, t)
    PROVE  IInv'
<1>1. /\ txn \in [Workers -> Txn \cup {NoTxn}] /\ txn'[w] = t
      /\ \A v \in Workers \ {w} : txn'[v] = txn[v]
      /\ txn' \in [Workers -> Txn \cup {NoTxn}]
  BY DEF IInv, StateOK, TypeOK, Begins
<1>2. /\ ReferencesExist' /\ RunsProgress' /\ RemovedRowsStay' /\ UndisturbedRuns'
      /\ SeedOK' /\ users' = users /\ listings' = listings /\ seed' = seed
  BY RunUntouched DEF Begins
<1>3. StateOK'
  BY <1>1, <1>2 DEF IInv, StateOK, TypeOK
<1>4. TitlesAreDrawn'
  BY <1>1, <1>2 DEF IInv, TitlesAreDrawn, Begins, Idle, ListingExists, Seeding, NewListings
<1>5. UnmetHold'
  <2> SUFFICES ASSUME NEW v \in Workers, ~Idle(v)', ~txn'[v].met
               PROVE  Holds(txn[v])'
    BY DEF UnmetHold
  <2>1. Holds(txn'[v])
    <3>1. CASE v = w
      BY <3>1, <1>1 DEF Begins
    <3>2. CASE v # w
      BY <3>2, <1>1 DEF IInv, UnmetHold, Idle
    <3>3. QED BY <3>1, <3>2
  <2>2. UNCHANGED tables
    BY DEF Begins
  <2>3. QED BY <2>1, <2>2, HoldsStays
<1>6. NewAccountsAreOwn'
  BY <1>1, <1>2 DEF IInv, NewAccountsAreOwn, Begins, Idle, Seeding, NewUsers, UserExists, SeenUsers
<1>7. QED BY <1>2, <1>3, <1>4, <1>5, <1>6 DEF IInv

\* A transaction that fails or is rolled back leaves nothing.
LEMMA FailsKeeps ==
    ASSUME IInv, NEW w \in Workers, Fails(w), Beside
    PROVE  IInv'
<1>1. /\ txn \in [Workers -> Txn \cup {NoTxn}] /\ txn'[w] = NoTxn
      /\ \A v \in Workers \ {w} : txn'[v] = txn[v]
      /\ txn' \in [Workers -> Txn \cup {NoTxn}]
  BY DEF IInv, StateOK, TypeOK, Fails
<1>2. UNCHANGED <<tables, bound, seed>>
  BY BesideUnchanged DEF Fails
<1>3. /\ ReferencesExist' /\ RunsProgress' /\ RemovedRowsStay' /\ UndisturbedRuns'
      /\ SeedOK' /\ users' = users /\ listings' = listings /\ seed' = seed
  BY <1>2, RunUntouched
<1>4. StateOK'
  BY <1>1, <1>3 DEF IInv, StateOK, TypeOK
<1>5. TitlesAreDrawn'
  BY <1>1, <1>3 DEF IInv, TitlesAreDrawn, Idle, ListingExists, Seeding, NewListings
<1>6. UnmetHold'
  <2> SUFFICES ASSUME NEW v \in Workers, ~Idle(v)', ~txn'[v].met
               PROVE  Holds(txn[v])'
    BY DEF UnmetHold
  <2>1. v # w
    BY <1>1 DEF Idle
  <2>2. Holds(txn'[v])
    BY <2>1, <1>1 DEF IInv, UnmetHold, Idle
  <2>3. QED BY <1>2, <2>2, HoldsStays
<1>7. NewAccountsAreOwn'
  BY <1>1, <1>3 DEF IInv, NewAccountsAreOwn, Idle, Seeding, NewUsers, UserExists, SeenUsers
<1>8. QED BY <1>3, <1>4, <1>5, <1>6, <1>7 DEF IInv

-----------------------------------------------------------------------------
(* Steps of the others that write.                                         *)

\* A commit or an admin site's action, worker w's or nobody's.
Writes(w) ==
    /\ users' \in [Uids -> User \cup {NoRow}] /\ listings' \in [Lids -> Listing \cup {NoRow}]
    /\ Ends(w) /\ Beside /\ ReferencesExist'
    /\ \A l \in Lids : ListingExists(l)' => listings'[l].title \in Drawable
    /\ Seeding =>
          /\ \A u \in seed.goneUsers : UserExists(u)'
          /\ \A l \in seed.goneListings : ListingExists(l)'
          /\ \A l \in Lids \ seed.goneListings :
                ListingExists(l)' => listings'[l].agent \notin seed.goneUsers
          /\ \A u \in NewUsers :
                /\ ~UserExists(u)'
                /\ \A v \in Uids \ (seed.goneUsers \cup NewUsers) : UserExists(v)' =>
                      /\ users'[v].username # seed.newUsers[u].username
                      /\ users'[v].email # seed.newUsers[u].username

\* The others' transactions go on with what they have read, and know whether
\* a write concerned them.
LEMMA EndsShape ==
    ASSUME TypeOK, NEW w, Ends(w)
    PROVE  /\ txn' \in [Workers -> Txn \cup {NoTxn}]
           /\ \A v \in Workers : ~Idle(v)' =>
                 /\ ~Idle(v) /\ txn'[v].op = txn[v].op /\ txn'[v].id = txn[v].id
                 /\ txn'[v].row = txn[v].row
                 /\ ~txn'[v].met => /\ txn'[v] = txn[v]
                                    /\ ~Concerns(txn[v], ChangedUsers, ChangedListings)
<1> DEFINE Met(t) == [t EXCEPT !.met = TRUE]
<1>1. \A t \in Txn : /\ Met(t) \in Txn /\ Met(t).op = t.op /\ Met(t).id = t.id
                     /\ Met(t).row = t.row /\ Met(t).met
  BY DEF Txn
<1>2. txn' = [v \in Workers |->
              IF v = w THEN NoTxn
              ELSE IF ~Idle(v) /\ Concerns(txn[v], ChangedUsers, ChangedListings)
                   THEN Met(txn[v]) ELSE txn[v]]
  BY DEF Ends
<1> HIDE DEF Met
<1>3. \A v \in Workers : ~Idle(v) => txn[v] \in Txn
  BY DEF TypeOK, Idle
<1>4. \A v \in Workers :
        \/ txn'[v] = NoTxn
        \/ ~Idle(v) /\ txn'[v] = Met(txn[v])
        \/ txn'[v] = txn[v] /\ (~Idle(v) => ~Concerns(txn[v], ChangedUsers, ChangedListings))
  BY <1>2
<1>5. \A v \in Workers : txn'[v] \in Txn \cup {NoTxn}
  BY <1>1, <1>3, <1>4 DEF TypeOK
<1>6. txn' \in [Workers -> Txn \cup {NoTxn}]
  BY <1>2, <1>5
<1>7. ASSUME NEW v \in Workers, ~Idle(v)'
      PROVE  /\ ~Idle(v) /\ txn'[v].op = txn[v].op /\ txn'[v].id = txn[v].id
             /\ txn'[v].row = txn[v].row
             /\ ~txn'[v].met => /\ txn'[v] = txn[v]
                                /\ ~Concerns(txn[v], ChangedUsers, ChangedListings)
  <2>1. CASE ~Idle(v) /\ txn'[v] = Met(txn[v])
    BY <2>1, <1>1, <1>3
  <2>2. CASE txn'[v] = txn[v] /\ (~Idle(v) => ~Concerns(txn[v], ChangedUsers, ChangedListings))
    BY <2>2, <1>7 DEF Idle
  <2>3. QED BY <1>4, <1>7, <2>1, <2>2 DEF Idle
<1>8. QED BY <1>6, <1>7

\* A write that does not concern a transaction leaves what it has read.
LEMMA UnconcernedHolds ==
    ASSUME TypeOK, NEW v \in Workers, ~Idle(v), Holds(txn[v]), txn'[v] = txn[v],
           ~Concerns(txn[v], ChangedUsers, ChangedListings)
    PROVE  Holds(txn[v])'
<1>1. CASE txn[v].op = "change"
  <2>1. txn[v].id \in Uids /\ users'[txn[v].id] = users[txn[v].id]
    BY <1>1, TxnFields DEF Concerns, ChangedUsers
  <2>2. QED BY <1>1, <2>1 DEF Holds, UserExists
<1>2. CASE txn[v].op = "retire"
  <2>1. txn[v].id \in Uids /\ users'[txn[v].id] = users[txn[v].id]
    BY <1>2, TxnFields DEF Concerns, ChangedUsers
  <2>2. ~HasListings(txn[v].id)'
    <3> SUFFICES ASSUME NEW l \in Lids, ListingExists(l)', listings'[l].agent = txn[v].id
                 PROVE  FALSE
      BY <1>2 DEF HasListings
    <3>1. listings'[l] = listings[l]
      BY <1>2 DEF Concerns, ChangedListings
    <3>2. QED BY <1>2, <3>1 DEF Holds, HasListings, ListingExists
  <2>3. QED BY <1>2, <2>1, <2>2 DEF Holds, LiveUser, UserExists
<1>3. CASE txn[v].op \in {"create", "update", "delete"}
  <2>1. /\ txn[v].id \in Lids /\ listings'[txn[v].id] = listings[txn[v].id]
    BY <1>3, TxnFields DEF Concerns, ChangedListings
  <2>2. \A u \in {txn[v].actor, txn[v].row.agent, txn[v].row.createdBy} \cap Uids : users'[u] = users[u]
    BY <1>3 DEF Concerns, ChangedUsers
  <2>3. \A u \in UsersNamed(txn[v]) : UserExists(u)'
    BY <1>3, <2>2 DEF Holds, UsersNamed, UserExists
  <2>4. LiveUser(txn[v].row.agent) => LiveUser(txn[v].row.agent)'
    BY <2>2 DEF LiveUser, UserExists
  <2>5. QED BY <1>3, <2>1, <2>3, <2>4 DEF Holds, UsersNamed, ListingExists, LiveUser, UserExists
<1>4. QED BY <1>1, <1>2, <1>3, TxnFields

\* The run under way only notices.
LEMMA BesideRun ==
    ASSUME SeedOK, Beside
    PROVE  /\ SeedOK' /\ Seeding' = Seeding
           /\ UNCHANGED tables => seed' = seed
           /\ Seeding => /\ seed'.pc = seed.pc /\ seed'.flush = seed.flush /\ seed'.count = seed.count
                         /\ seed'.index = seed.index /\ seed'.drawn = seed.drawn
                         /\ seed'.agents = seed.agents /\ seed'.goneListings = seed.goneListings
                         /\ seed'.goneUsers = seed.goneUsers /\ seed'.newUsers = seed.newUsers
                         /\ seed'.newListings = seed.newListings
                         /\ ~UNCHANGED tables => seed'.met
<1>1. CASE Seeding /\ ~UNCHANGED tables
  <2> DEFINE noticed == [seed EXCEPT !.met = TRUE]
  <2>1. seed' = noticed /\ bound' = bound
    BY <1>1 DEF Beside
  <2>2. seed \in SeedRun
    BY <1>1, RunFields
  <2>3. /\ noticed \in SeedRun
        /\ noticed.pc = seed.pc /\ noticed.flush = seed.flush /\ noticed.count = seed.count
        /\ noticed.index = seed.index /\ noticed.drawn = seed.drawn
        /\ noticed.agents = seed.agents /\ noticed.goneListings = seed.goneListings
        /\ noticed.goneUsers = seed.goneUsers /\ noticed.newUsers = seed.newUsers
        /\ noticed.newListings = seed.newListings /\ noticed.met
    BY <2>2 DEF SeedRun
  <2> HIDE DEF noticed
  <2>4. QED BY <1>1, <2>1, <2>3, RowTypes DEF SeedOK, Seeding
<1>2. CASE ~(Seeding /\ ~UNCHANGED tables)
  <2>1. seed' = seed /\ bound' = bound
    BY <1>2 DEF Beside
  <2>2. QED BY <1>2, <2>1 DEF SeedOK, Seeding
<1>3. QED BY <1>1, <1>2

\* What a run sees of the accounts it did not add.
LEMMA SeenOthers ==
    ASSUME NEW v \in Uids, v \notin NewUsers, SeenUsers[v] # NoRow
    PROVE  v \notin seed.goneUsers /\ UserExists(v) /\ SeenUsers[v] = users[v]
  BY DEF SeenUsers, NewUsers, UserExists

LEMMA SeenNew ==
    ASSUME NEW u \in NewUsers, u \notin seed.goneUsers
    PROVE  SeenUsers[u] = seed.newUsers[u] /\ SeenUsers[u] # NoRow
  BY DEF SeenUsers, NewUsers

\* New accounts are the run's own after a write by another.
LEMMA WritesSpareNewAccounts ==
    ASSUME IInv, NEW w, Writes(w)
    PROVE  NewAccountsAreOwn'
<1> SUFFICES ASSUME Seeding', NEW u \in NewUsers'
             PROVE  /\ ~UserExists(u)' /\ \E n \in 1..Len(seed'.agents) : seed'.agents[n] = u
                    /\ \A v \in Workers :
                          ~Idle(v)' /\ txn'[v].op \in {"change", "retire"} => txn'[v].id # u
                    /\ seed'.newUsers[u].email = seed'.newUsers[u].username
                    /\ ~seed'.newUsers[u].deleted
                    /\ \A v \in Uids \ {u} : SeenUsers'[v] # NoRow =>
                          /\ SeenUsers'[v].username # seed'.newUsers[u].username
                          /\ SeenUsers'[v].email # seed'.newUsers[u].username
  BY DEF NewAccountsAreOwn
<1>1. /\ Seeding /\ seed'.newUsers = seed.newUsers /\ seed'.goneUsers = seed.goneUsers
      /\ seed'.agents = seed.agents
  BY BesideRun DEF Writes, IInv, StateOK
<1>2. u \in NewUsers /\ NewUsers' = NewUsers /\ u \in Uids
  BY <1>1 DEF NewUsers
<1>3. \A v \in Workers : ~Idle(v)' => /\ ~Idle(v) /\ txn'[v].op = txn[v].op
                                      /\ txn'[v].id = txn[v].id
  BY EndsShape DEF Writes, IInv, StateOK
<1>4. ASSUME NEW v \in Uids \ {u}, SeenUsers'[v] # NoRow
      PROVE  /\ SeenUsers'[v].username # seed.newUsers[u].username
             /\ SeenUsers'[v].email # seed.newUsers[u].username
  <2>1. CASE v \in NewUsers
    <3>1. SeenUsers'[v] = SeenUsers[v]
      BY <2>1, <1>1 DEF SeenUsers, NewUsers
    <3>2. QED BY <1>1, <1>2, <1>4, <3>1 DEF IInv, NewAccountsAreOwn
  <2>2. CASE v \notin NewUsers
    <3>1. v \notin seed.goneUsers /\ UserExists(v)' /\ SeenUsers'[v] = users'[v]
      BY <2>2, <1>1, <1>4 DEF SeenUsers, NewUsers, UserExists
    <3>2. QED BY <1>1, <1>2, <2>2, <3>1 DEF Writes
  <2>3. QED BY <2>1, <2>2
<1>5. QED BY <1>1, <1>2, <1>3, <1>4 DEF IInv, NewAccountsAreOwn, Writes

LEMMA WritesKeep ==
    ASSUME IInv, NEW w, Writes(w)
    PROVE  IInv'
<1>1. /\ SeedOK' /\ Seeding' = Seeding /\ (UNCHANGED tables => seed' = seed)
      /\ Seeding => /\ seed'.pc = seed.pc /\ seed'.flush = seed.flush /\ seed'.count = seed.count
                    /\ seed'.index = seed.index /\ seed'.drawn = seed.drawn
                    /\ seed'.agents = seed.agents /\ seed'.goneListings = seed.goneListings
                    /\ seed'.goneUsers = seed.goneUsers /\ seed'.newUsers = seed.newUsers
                    /\ seed'.newListings = seed.newListings
                    /\ ~UNCHANGED tables => seed'.met
  BY BesideRun DEF Writes, IInv, StateOK
<1>2. /\ txn' \in [Workers -> Txn \cup {NoTxn}]
      /\ \A v \in Workers : ~Idle(v)' =>
            /\ ~Idle(v) /\ txn'[v].op = txn[v].op /\ txn'[v].id = txn[v].id
            /\ txn'[v].row = txn[v].row
            /\ ~txn'[v].met => /\ txn'[v] = txn[v]
                               /\ ~Concerns(txn[v], ChangedUsers, ChangedListings)
  BY EndsShape DEF Writes, IInv, StateOK
<1>3. StateOK'
  BY <1>1, <1>2 DEF StateOK, TypeOK, Writes
<1>4. ReferencesExist'
  BY DEF Writes
<1>5. TitlesAreDrawn'
  BY <1>1, <1>2 DEF IInv, TitlesAreDrawn, Writes, NewListings
<1>6. UnmetHold'
  <2> SUFFICES ASSUME NEW v \in Workers, ~Idle(v)', ~txn'[v].met
               PROVE  Holds(txn[v])'
    BY DEF UnmetHold
  <2>1. /\ ~Idle(v) /\ txn'[v] = txn[v] /\ ~Concerns(txn[v], ChangedUsers, ChangedListings)
    BY <1>2
  <2>2. Holds(txn[v])
    BY <2>1 DEF IInv, UnmetHold
  <2>3. QED BY <2>1, <2>2, UnconcernedHolds DEF IInv, StateOK
<1>7. RunsProgress'
  BY <1>1 DEF IInv, RunsProgress, NewUsers, NewListings
<1>8. NewAccountsAreOwn'
  BY WritesSpareNewAccounts
<1>9. RemovedRowsStay'
  BY <1>1 DEF IInv, RemovedRowsStay, Writes, NewListings
<1>10. UndisturbedRuns'
  <2>1. CASE UNCHANGED tables
    BY <2>1, <1>1, RunUntouched DEF Writes, Beside
  <2>2. CASE ~UNCHANGED tables
    BY <2>2, <1>1 DEF UndisturbedRuns
  <2>3. QED BY <2>1, <2>2
<1>11. QED BY <1>3, <1>4, <1>5, <1>6, <1>7, <1>8, <1>9, <1>10 DEF IInv

\* Accounts that a run has not removed or added do not have its names.
LEMMA OthersNames ==
    ASSUME IInv, Seeding, NEW u \in NewUsers, NEW v \in Uids \ (seed.goneUsers \cup NewUsers),
           UserExists(v)
    PROVE  /\ users[v].username # seed.newUsers[u].username
           /\ users[v].email # seed.newUsers[u].username
<1>1. SeenUsers[v] = users[v] /\ SeenUsers[v] # NoRow /\ v # u
  BY DEF SeenUsers, NewUsers, UserExists
<1>2. QED BY <1>1 DEF IInv, NewAccountsAreOwn

\* One listing is written or removed.
LEMMA ListingWritten ==
    ASSUME IInv, NEW w, NEW l \in Lids, NEW row \in Listing \cup {NoRow},
           listings' = [listings EXCEPT ![l] = row], UNCHANGED users, Ends(w), Beside,
           row # NoRow => /\ row.title \in Drawable /\ UserExists(row.agent)
                          /\ row.createdBy # NoUser => UserExists(row.createdBy),
           Seeding => l \notin seed.goneListings /\ (row # NoRow => row.agent \notin seed.goneUsers)
    PROVE  Writes(w)
<1>1. /\ listings \in [Lids -> Listing \cup {NoRow}] /\ users \in [Uids -> User \cup {NoRow}]
      /\ listings' \in [Lids -> Listing \cup {NoRow}] /\ users' = users
      /\ listings'[l] = row /\ \A k \in Lids \ {l} : listings'[k] = listings[k]
  BY DEF IInv, StateOK, TypeOK
<1>2. ReferencesExist'
  BY <1>1 DEF IInv, ReferencesExist, ListingExists, UserExists, NamesFree
<1>3. \A k \in Lids : ListingExists(k)' => listings'[k].title \in Drawable
  BY <1>1 DEF IInv, TitlesAreDrawn, ListingExists
<1>4. ASSUME Seeding
      PROVE  /\ \A u \in seed.goneUsers : UserExists(u)'
             /\ \A k \in seed.goneListings : ListingExists(k)'
             /\ \A k \in Lids \ seed.goneListings :
                   ListingExists(k)' => listings'[k].agent \notin seed.goneUsers
  BY <1>1, <1>4 DEF IInv, RemovedRowsStay, UserExists, ListingExists
<1>5. ASSUME Seeding, NEW u \in NewUsers
      PROVE  /\ ~UserExists(u)'
             /\ \A v \in Uids \ (seed.goneUsers \cup NewUsers) : UserExists(v)' =>
                   /\ users'[v].username # seed.newUsers[u].username
                   /\ users'[v].email # seed.newUsers[u].username
  <2>1. ~UserExists(u)'
    BY <1>1, <1>5 DEF IInv, NewAccountsAreOwn, UserExists
  <2>2. QED BY <1>1, <1>5, <2>1, OthersNames DEF UserExists
<1>6. QED BY <1>1, <1>2, <1>3, <1>4, <1>5 DEF Writes

LEMMA ListingCommitKeeps ==
    ASSUME IInv, NEW w \in Workers, ListingCommit(w)
    PROVE  IInv'
<1>1. CASE Fails(w)
  BY <1>1, FailsKeeps DEF ListingCommit
<1>2. CASE ~Fails(w)
  <2> DEFINE row == Written(txn[w])
  <2>1. /\ ~Idle(w) /\ txn[w].op \in {"create", "update", "delete"} /\ Failure(w) = "none"
        /\ listings' = [listings EXCEPT ![txn[w].id] = row] /\ UNCHANGED users
        /\ Ends(w) /\ Beside /\ ~WaitsForSeed(w)
    BY <1>2 DEF ListingCommit, CommitListing
  <2>2. txn[w].id \in Lids /\ txn[w].row \in Listing /\ TypeOK
    BY <2>1, TxnFields DEF IInv, StateOK
  <2>3. \A u \in UsersNamed(txn[w]) : UserExists(u)
    BY <2>1 DEF Failure
  <2>4. Seeding => txn[w].id \notin seed.goneListings /\ UsersNamed(txn[w]) \cap seed.goneUsers = {}
    BY <2>1 DEF WaitsForSeed
  <2>5. CASE txn[w].op = "delete"
    <3>1. ListingExists(txn[w].id)
      BY <2>1, <2>5 DEF Failure
    <3>2. /\ row \in Listing /\ row.agent = listings[txn[w].id].agent
          /\ row.createdBy = listings[txn[w].id].createdBy
          /\ row.title = listings[txn[w].id].title
      BY <2>2, <2>5, <3>1, RowNames DEF Written, Listing
    <3>3. Seeding => row.agent \notin seed.goneUsers
      BY <2>2, <2>4, <3>1, <3>2 DEF IInv, RemovedRowsStay
    <3> HIDE DEF row
    <3>4. QED BY <2>1, <2>2, <2>4, <3>1, <3>2, <3>3, RowNames, ListingWritten, WritesKeep
  <2>6. CASE txn[w].op # "delete"
    <3>1. row = txn[w].row
      BY <2>6 DEF Written
    <3> HIDE DEF row
    <3>2. row.title \in Drawable
      BY <2>1, <3>1 DEF IInv, TitlesAreDrawn
    <3>3. row.agent \in UsersNamed(txn[w])
      BY <2>2, <2>6, <3>1, RowTypes DEF UsersNamed, Listing
    <3>4. row.createdBy # NoUser => row.createdBy \in UsersNamed(txn[w])
      BY <2>2, <2>6, <3>1 DEF UsersNamed
    <3>5. QED BY <2>1, <2>2, <2>3, <2>4, <3>1, <3>2, <3>3, <3>4, ListingWritten, WritesKeep
  <2>7. QED BY <2>5, <2>6
<1>3. QED BY <1>1, <1>2

LEMMA RestoreKeeps ==
    ASSUME IInv, NEW l \in Lids, Restore(l)
    PROVE  IInv'
<1> DEFINE row == [listings[l] EXCEPT !.deleted = FALSE]
<1>1. /\ ListingExists(l) /\ UNCHANGED users /\ Ends(NoUser) /\ Beside
      /\ listings' = [listings EXCEPT ![l] = row]
      /\ Seeding => l \notin seed.goneListings
  BY DEF Restore, AdminRestore
<1>2. /\ row \in Listing /\ row.agent = listings[l].agent
      /\ row.createdBy = listings[l].createdBy /\ row.title = listings[l].title
  BY <1>1, RowNames DEF Listing
<1> HIDE DEF row
<1>3. Seeding => row.agent \notin seed.goneUsers
  BY <1>1, <1>2 DEF IInv, RemovedRowsStay
<1>4. QED BY <1>1, <1>2, <1>3, RowNames, ListingWritten, WritesKeep

LEMMA HardDeleteKeeps ==
    ASSUME IInv, NEW l \in Lids, HardDelete(l)
    PROVE  IInv'
  BY ListingWritten, WritesKeep DEF HardDelete, AdminHardDelete

\* One account is written.
LEMMA UserWritten ==
    ASSUME IInv, NEW w, NEW u \in Uids, NEW row \in User, users' = [users EXCEPT ![u] = row],
           UNCHANGED listings, Ends(w), Beside, NamesFree(u, row),
           Seeding => /\ u \notin NewUsers
                      /\ \A x \in NewUsers : /\ row.username # seed.newUsers[x].username
                                             /\ row.email # seed.newUsers[x].username
    PROVE  Writes(w)
<1>1. /\ listings \in [Lids -> Listing \cup {NoRow}] /\ users \in [Uids -> User \cup {NoRow}]
      /\ listings' = listings /\ users' \in [Uids -> User \cup {NoRow}]
      /\ users'[u] = row /\ row # NoRow /\ \A v \in Uids \ {u} : users'[v] = users[v]
  BY RowTypes DEF IInv, StateOK, TypeOK
<1>2. ReferencesExist'
  BY <1>1 DEF IInv, ReferencesExist, ListingExists, UserExists, NamesFree
<1>3. \A k \in Lids : ListingExists(k)' => listings'[k].title \in Drawable
  BY <1>1 DEF IInv, TitlesAreDrawn, ListingExists
<1>4. ASSUME Seeding
      PROVE  /\ \A v \in seed.goneUsers : UserExists(v)'
             /\ \A k \in seed.goneListings : ListingExists(k)'
             /\ \A k \in Lids \ seed.goneListings :
                   ListingExists(k)' => listings'[k].agent \notin seed.goneUsers
  BY <1>1, <1>4 DEF IInv, RemovedRowsStay, UserExists, ListingExists
<1>5. ASSUME Seeding, NEW x \in NewUsers
      PROVE  /\ ~UserExists(x)'
             /\ \A v \in Uids \ (seed.goneUsers \cup NewUsers) : UserExists(v)' =>
                   /\ users'[v].username # seed.newUsers[x].username
                   /\ users'[v].email # seed.newUsers[x].username
  <2>1. ~UserExists(x)'
    BY <1>1, <1>5 DEF IInv, NewAccountsAreOwn, UserExists
  <2>2. QED BY <1>1, <1>5, <2>1, OthersNames DEF UserExists
<1>6. QED BY <1>1, <1>2, <1>3, <1>4, <1>5 DEF Writes

LEMMA UserCommitKeeps ==
    ASSUME IInv, NEW w \in Workers, UserCommit(w)
    PROVE  IInv'
<1>1. CASE Fails(w)
  BY <1>1, FailsKeeps DEF UserCommit
<1>2. CASE ~Fails(w)
  <2> DEFINE u == txn[w].id
             row == SavedUser(txn[w])
  <2>1. /\ ~Idle(w) /\ txn[w].op \in {"change", "retire"} /\ UNCHANGED listings
        /\ users' = [users EXCEPT ![u] = row] /\ Ends(w) /\ Beside /\ ~WaitsForSeed(w)
        /\ IF txn[w].op = "retire" THEN UserExists(u) ELSE NamesFree(u, txn[w].row)
    BY <1>2 DEF UserCommit, CommitUser
  <2>2. u \in Uids /\ txn[w].row \in User /\ TypeOK
    BY <2>1, TxnFields DEF IInv, StateOK
  <2>3. ASSUME Seeding
        PROVE  /\ u \notin seed.goneUsers /\ u \notin NewUsers
               /\ \A x \in NewUsers : /\ txn[w].row.username # seed.newUsers[x].username
                                      /\ txn[w].row.email # seed.newUsers[x].username
    BY <2>1, <2>3 DEF WaitsForSeed, IInv, NewAccountsAreOwn
  <2>4. CASE txn[w].op = "retire"
    <3>1. users[u] \in User /\ UserExists(u)
      BY <2>1, <2>2, <2>4 DEF TypeOK, UserExists
    <3>2. row \in User /\ row.username = users[u].username /\ row.email = users[u].email
      BY <2>4, <3>1 DEF SavedUser, User
    <3>3. NamesFree(u, users[u])
      BY <3>1, <2>2 DEF IInv, ReferencesExist
    <3> HIDE DEF row
    <3>4. NamesFree(u, row)
      BY <3>2, <3>3 DEF NamesFree
    <3>5. Seeding => \A x \in NewUsers : /\ row.username # seed.newUsers[x].username
                                         /\ row.email # seed.newUsers[x].username
      BY <2>2, <2>3, <3>1, <3>2, OthersNames
    <3> HIDE DEF u
    <3>6. QED BY <2>1, <2>2, <2>3, <3>2, <3>4, <3>5, UserWritten, WritesKeep
  <2>5. CASE txn[w].op # "retire"
    <3>1. row = txn[w].row
      BY <2>5 DEF SavedUser
    <3> HIDE DEF row, u
    <3>2. QED BY <2>1, <2>2, <2>3, <2>5, <3>1, UserWritten, WritesKeep
  <2>6. QED BY <2>4, <2>5
<1>3. QED BY <1>1, <1>2

LEMMA AddKeeps ==
    ASSUME IInv, NEW u \in Uids, NEW name \in Names, Add(u, name)
    PROVE  IInv'
<1>1. PICK kind \in bound.kinds : AddUser(u, name, kind)
  BY DEF Add
<1> DEFINE row == [username |-> name, email |-> name, kind |-> kind, deleted |-> FALSE]
<1>2. kind \in Kinds
  BY SeedAssumption DEF IInv, StateOK, SeedOK
<1>3. row \in User /\ row.username = name /\ row.email = name
  BY <1>2 DEF User
<1>4. /\ NamesFree(u, row) /\ users' = [users EXCEPT ![u] = row] /\ UNCHANGED listings
      /\ Ends(NoUser) /\ Beside
  BY <1>1 DEF Add, AddUser
<1> HIDE DEF row
<1>5. ASSUME Seeding
      PROVE  u \notin NewUsers /\ \A x \in NewUsers : name # seed.newUsers[x].username
  BY <1>5 DEF Add, FreeUser, IInv, NewAccountsAreOwn
<1>6. QED BY <1>3, <1>4, <1>5, UserWritten, WritesKeep

LEMMA UnstampedRow ==
    ASSUME NEW row \in Listing \cup {NoRow}, NEW us \in SUBSET Uids
    PROVE  /\ Unstamped(row, us) \in Listing \cup {NoRow}
           /\ Unstamped(row, us) = NoRow <=> row = NoRow
           /\ row # NoRow => /\ Unstamped(row, us).agent = row.agent
                             /\ Unstamped(row, us).title = row.title
                             /\ Unstamped(row, us).createdBy \in {row.createdBy, NoUser} \ us
  BY RowTypes DEF Unstamped, Listing

LEMMA RemoveKeeps ==
    ASSUME IInv, NEW u \in Uids, Remove(u)
    PROVE  IInv'
<1>1. /\ listings \in [Lids -> Listing \cup {NoRow}] /\ users \in [Uids -> User \cup {NoRow}]
      /\ users' = [users EXCEPT ![u] = NoRow] /\ ~HasListings(u)
      /\ listings' = [l \in Lids |-> Unstamped(listings[l], {u})]
      /\ Ends(NoUser) /\ Beside /\ (Seeding => u \notin seed.goneUsers)
  BY DEF IInv, StateOK, TypeOK, Remove, RemoveUser
<1>2. /\ users' \in [Uids -> User \cup {NoRow}] /\ users'[u] = NoRow
      /\ \A v \in Uids \ {u} : users'[v] = users[v]
  BY <1>1
<1>3. \A l \in Lids :
        /\ listings'[l] \in Listing \cup {NoRow} /\ (ListingExists(l)' <=> ListingExists(l))
        /\ ListingExists(l) => /\ listings'[l].agent = listings[l].agent
                               /\ listings'[l].title = listings[l].title
                               /\ listings'[l].createdBy \in {listings[l].createdBy, NoUser} \ {u}
  BY <1>1, UnstampedRow DEF ListingExists
<1>4. listings' \in [Lids -> Listing \cup {NoRow}]
  BY <1>1, <1>3
<1>5. ReferencesExist'
  <2>1. ASSUME NEW l \in Lids, ListingExists(l)'
        PROVE  \A v \in {listings'[l].agent, listings'[l].createdBy} \ {NoUser} : UserExists(v)'
    <3>1. /\ UserExists(listings[l].agent) /\ listings[l].agent # u
          /\ listings[l].createdBy # NoUser => UserExists(listings[l].createdBy)
      BY <1>1, <1>3, <2>1, RowNames DEF HasListings
    <3>2. QED BY <1>2, <1>3, <2>1, <3>1 DEF UserExists
  <2>2. \A v \in Uids : UserExists(v)' => NamesFree(v, users[v])'
    BY <1>2 DEF IInv, ReferencesExist, UserExists, NamesFree
  <2>3. QED BY <2>1, <2>2 DEF ReferencesExist, UserExists
<1>6. \A k \in Lids : ListingExists(k)' => listings'[k].title \in Drawable
  BY <1>3 DEF IInv, TitlesAreDrawn
<1>7. ASSUME Seeding
      PROVE  /\ \A v \in seed.goneUsers : UserExists(v)'
             /\ \A k \in seed.goneListings : ListingExists(k)'
             /\ \A k \in Lids \ seed.goneListings :
                   ListingExists(k)' => listings'[k].agent \notin seed.goneUsers
  <2>1. seed.goneListings \subseteq Lids
    BY <1>7, RunFields DEF IInv, StateOK, SeedRun
  <2>2. QED BY <1>1, <1>2, <1>3, <1>7, <2>1 DEF IInv, RemovedRowsStay, UserExists
<1>8. ASSUME Seeding, NEW x \in NewUsers
      PROVE  /\ ~UserExists(x)'
             /\ \A v \in Uids \ (seed.goneUsers \cup NewUsers) : UserExists(v)' =>
                   /\ users'[v].username # seed.newUsers[x].username
                   /\ users'[v].email # seed.newUsers[x].username
  <2>1. ~UserExists(x)'
    BY <1>2, <1>8 DEF IInv, NewAccountsAreOwn, UserExists
  <2>2. QED BY <1>2, <1>8, <2>1, OthersNames DEF UserExists
<1>9. Writes(NoUser)
  BY <1>1, <1>2, <1>4, <1>5, <1>6, <1>7, <1>8 DEF Writes
<1>10. QED BY <1>9, WritesKeep

-----------------------------------------------------------------------------
(* Statements of the command before it commits.                            *)

\* What is said of the tables and the transactions stays.
LEMMA UncommittedKeeps ==
    ASSUME IInv, Uncommitted, SeedOK', RunsProgress', NewAccountsAreOwn', RemovedRowsStay',
           UndisturbedRuns',
           Seeding' => \A l \in NewListings' : seed'.newListings[l].title \in Drawable \ {OwnTitle}
    PROVE  IInv'
<1>1. users' = users /\ listings' = listings /\ txn' = txn /\ bound' = bound
  BY DEF Uncommitted, accountVars, tables
<1>2. StateOK' /\ TitlesAreDrawn' /\ ReferencesExist'
  BY <1>1 DEF IInv, StateOK, TypeOK, TitlesAreDrawn, ReferencesExist, Idle, ListingExists,
              UserExists, NamesFree
<1>3. UnmetHold'
  BY <1>1 DEF IInv, UnmetHold, Idle, Holds, UserExists, LiveUser, ListingExists, HasListings,
              UsersNamed
<1>4. QED BY <1>2, <1>3 DEF IInv

\* A run that fails leaves nothing.
LEMMA RunEnds ==
    ASSUME IInv, Uncommitted, seed' = NoSeed
    PROVE  IInv'
<1>1. SeedOK'
  BY DEF Uncommitted, IInv, StateOK, SeedOK
<1>2. ~Seeding'
  BY DEF Seeding
<1>3. QED BY <1>1, <1>2, UncommittedKeeps
           DEF RunsProgress, NewAccountsAreOwn, RemovedRowsStay, UndisturbedRuns

LEMMA StartKeeps ==
    ASSUME IInv, NEW flush \in BOOLEAN, SeedStart(flush)
    PROVE  IInv'
<1>1. PICK count \in 1..bound.count :
        seed' = [pc |-> IF flush THEN "flush_listings" ELSE "accounts",
                 flush |-> flush, count |-> count, index |-> 1, drawn |-> 0, agents |-> <<>>,
                 goneListings |-> {}, goneUsers |-> {}, newUsers |-> [u \in Uids |-> NoRow],
                 newListings |-> [l \in Lids |-> NoRow], met |-> FALSE]
  BY DEF SeedStart
<1>2. Uncommitted /\ bound' = bound
  BY DEF SeedStart, Uncommitted
<1>3. bound.count \in 0..MaxCount /\ MaxCount \in Nat
  BY SeedAssumption DEF IInv, StateOK, SeedOK
<1>4. /\ seed' \in SeedRun /\ seed'.index = 1 /\ seed'.drawn = 0 /\ seed'.agents = <<>>
      /\ seed'.count = count /\ seed'.goneListings = {} /\ seed'.goneUsers = {}
      /\ seed'.newUsers = [u \in Uids |-> NoRow] /\ seed'.newListings = [l \in Lids |-> NoRow]
      /\ seed'.pc = (IF flush THEN "flush_listings" ELSE "accounts") /\ seed'.flush = flush
  BY <1>1, <1>3 DEF SeedRun
<1>5. SeedOK' /\ NewUsers' = {} /\ NewListings' = {}
  BY <1>2, <1>4 DEF IInv, StateOK, SeedOK, NewUsers, NewListings
<1>6. Len(seed'.agents) = 0 /\ count \in Nat
  BY <1>3, <1>4
<1>7. RunsProgress'
  BY <1>4, <1>5, <1>6, NamesOfRuns DEF RunsProgress
<1>8. NewAccountsAreOwn' /\ RemovedRowsStay'
  BY <1>4, <1>5 DEF NewAccountsAreOwn, RemovedRowsStay
<1>9. UndisturbedRuns'
  BY <1>4, <1>5, <1>6 DEF UndisturbedRuns
<1>10. QED BY <1>2, <1>5, <1>7, <1>8, <1>9, UncommittedKeeps

LEMMA FlushListingsKeeps ==
    ASSUME IInv, SeedFlushListings
    PROVE  IInv'
<1> DEFINE new == [seed EXCEPT !.pc = "flush_users", !.goneListings = FlushedListings]
<1>1. /\ seed \in SeedRun /\ Seeding /\ seed.pc = "flush_listings" /\ seed' = new /\ Uncommitted
      /\ users' = users /\ listings' = listings
  BY RunFields DEF SeedFlushListings, SeedAt, IInv, StateOK, Uncommitted, accountVars, tables
<1>2. FlushedListings \in SUBSET Lids
  BY DEF FlushedListings
<1>3. /\ new \in SeedRun /\ new.pc = "flush_users" /\ new.goneListings = FlushedListings
      /\ new.flush = seed.flush /\ new.count = seed.count /\ new.index = seed.index
      /\ new.drawn = seed.drawn /\ new.agents = seed.agents /\ new.goneUsers = seed.goneUsers
      /\ new.newUsers = seed.newUsers /\ new.newListings = seed.newListings
  BY <1>1, <1>2 DEF SeedRun
<1> HIDE DEF new
<1>4. /\ SeedOK' /\ NewUsers' = {} /\ NewListings' = {} /\ seed'.goneUsers = {}
      /\ seed'.agents = <<>> /\ seed'.flush /\ seed'.index = 1 /\ seed'.drawn = 2 * (1 - 1)
  BY <1>1, <1>3 DEF IInv, StateOK, SeedOK, Uncommitted, RunsProgress, NewUsers, NewListings
<1>5. Len(seed'.agents) = 0
  BY <1>4
<1>6. RunsProgress'
  BY <1>1, <1>3, <1>4 DEF IInv, RunsProgress
<1>7. NewAccountsAreOwn' /\ RemovedRowsStay'
  BY <1>1, <1>3, <1>4 DEF NewAccountsAreOwn, RemovedRowsStay, FlushedListings, ListingExists
<1>8. UndisturbedRuns'
  BY <1>1, <1>3, <1>4, <1>5 DEF UndisturbedRuns, FlushedListings, ListingExists
<1>9. QED BY <1>1, <1>4, <1>6, <1>7, <1>8, UncommittedKeeps

LEMMA FlushUsersKeeps ==
    ASSUME IInv, SeedFlushUsers
    PROVE  IInv'
<1> DEFINE gone == {u \in Uids : Flushable(u)}
           new == [seed EXCEPT !.pc = "accounts", !.goneUsers = gone]
<1>1. /\ seed \in SeedRun /\ Seeding /\ seed.pc = "flush_users" /\ seed' = new /\ Uncommitted
      /\ users' = users /\ listings' = listings /\ ~Protected(gone)
  BY RunFields DEF SeedFlushUsers, SeedAt, IInv, StateOK, Uncommitted, accountVars, tables
<1>2. gone \in SUBSET Uids
  OBVIOUS
<1> HIDE DEF gone
<1>3. /\ new \in SeedRun /\ new.pc = "accounts" /\ new.goneListings = seed.goneListings
      /\ new.flush = seed.flush /\ new.count = seed.count /\ new.index = seed.index
      /\ new.drawn = seed.drawn /\ new.agents = seed.agents /\ new.goneUsers = gone
      /\ new.newUsers = seed.newUsers /\ new.newListings = seed.newListings
  BY <1>1, <1>2 DEF SeedRun
<1> HIDE DEF new
<1>4. /\ SeedOK' /\ NewUsers' = {} /\ NewListings' = {} /\ seed.goneUsers = {}
      /\ seed'.agents = <<>> /\ seed'.index = 1 /\ NewListings = {}
  BY <1>1, <1>3 DEF IInv, StateOK, SeedOK, Uncommitted, RunsProgress, NewUsers, NewListings
<1>5. Len(seed'.agents) = 0
  BY <1>4
<1>6. RunsProgress'
  BY <1>1, <1>3, <1>4, <1>5, NamesOfRuns DEF IInv, RunsProgress
<1>7. \A l \in Lids \ seed.goneListings : ListingExists(l) => listings[l].agent \notin gone
  <2> SUFFICES ASSUME NEW l \in Lids \ seed.goneListings, ListingExists(l)
               PROVE  listings[l].agent \notin gone
    OBVIOUS
  <2>1. SeenListings[l] = listings[l]
    BY <1>4 DEF SeenListings, NewListings, Unstamped
  <2>2. QED BY <1>1, <2>1 DEF Protected, ListingExists
<1>8. NewAccountsAreOwn' /\ RemovedRowsStay'
  BY <1>1, <1>3, <1>4, <1>7
     DEF NewAccountsAreOwn, IInv, RemovedRowsStay, ListingExists, UserExists, gone, Flushable
<1>9. UndisturbedRuns'
  BY <1>1, <1>3, <1>4, <1>5 DEF UndisturbedRuns, gone, Flushable, UserExists
<1>10. QED BY <1>1, <1>4, <1>6, <1>8, <1>9, UncommittedKeeps

LEMMA Appended ==
    ASSUME NEW S, NEW s \in Seq(S), NEW x \in S
    PROVE  /\ Append(s, x) \in Seq(S) /\ Len(s) \in Nat /\ Len(Append(s, x)) = Len(s) + 1
           /\ \A n \in 1..Len(s) : Append(s, x)[n] = s[n]
           /\ Append(s, x)[Len(s) + 1] = x
  OBVIOUS

\* A run finds an account.
LEMMA FoundKeeps ==
    ASSUME IInv, SeedAt("accounts"), Len(seed.agents) < Len(DemoNames), Uncommitted,
           NEW u \in Uids, FoundAccount(SeedName, u),
           seed' = [seed EXCEPT !.agents = Append(@, u)]
    PROVE  IInv'
<1> DEFINE agents == Append(seed.agents, u)
           new == [seed EXCEPT !.agents = agents]
<1>1. /\ seed \in SeedRun /\ Seeding /\ seed.pc = "accounts" /\ seed' = new
      /\ users' = users /\ listings' = listings /\ bound' = bound /\ txn' = txn
  BY RunFields DEF SeedAt, IInv, StateOK, Uncommitted, accountVars, tables
<1>2. /\ agents \in Seq(Uids) /\ Len(seed.agents) \in Nat /\ Len(agents) = Len(seed.agents) + 1
      /\ \A n \in 1..Len(seed.agents) : agents[n] = seed.agents[n]
      /\ agents[Len(seed.agents) + 1] = u
  <2>1. seed.agents \in Seq(Uids)
    BY <1>1 DEF SeedRun
  <2>2. QED BY <2>1, Appended
<1> HIDE DEF agents
<1>3. /\ new \in SeedRun /\ new.pc = seed.pc /\ new.goneListings = seed.goneListings
      /\ new.flush = seed.flush /\ new.count = seed.count /\ new.index = seed.index
      /\ new.drawn = seed.drawn /\ new.agents = agents /\ new.goneUsers = seed.goneUsers
      /\ new.newUsers = seed.newUsers /\ new.newListings = seed.newListings /\ new.met = seed.met
  BY <1>1, <1>2 DEF SeedRun
<1> HIDE DEF new
<1>4. /\ SeedOK' /\ NewUsers' = NewUsers /\ NewListings' = {} /\ Seeding'
      /\ seed.index = 1 /\ SeenUsers' = SeenUsers
  <2>1. SeedOK' /\ Seeding'
    BY <1>1, <1>3, RowTypes DEF IInv, StateOK, SeedOK, Seeding
  <2>2. NewListings = {} /\ seed.index = 1
    BY <1>1 DEF IInv, RunsProgress
  <2>3. NewUsers' = NewUsers /\ NewListings' = NewListings /\ SeenUsers' = SeenUsers
    BY <1>1, <1>3 DEF NewUsers, NewListings, SeenUsers
  <2>4. QED BY <2>1, <2>2, <2>3
<1>5. RunsProgress'
  BY <1>1, <1>2, <1>3, <1>4, NamesOfRuns DEF IInv, RunsProgress
<1>6. \A x : (\E n \in 1..Len(seed.agents) : seed.agents[n] = x) =>
             \E n \in 1..Len(agents) : agents[n] = x
  BY <1>2
<1>7. NewAccountsAreOwn'
  BY <1>1, <1>3, <1>4, <1>6 DEF IInv, NewAccountsAreOwn, UserExists, Idle
<1>8. RemovedRowsStay'
  BY <1>1, <1>3, <1>4 DEF IInv, RemovedRowsStay, ListingExists, UserExists
<1>9. UndisturbedRuns'
  <2> SUFFICES ASSUME ~seed'.met PROVE UndisturbedRuns'
    BY DEF UndisturbedRuns
  <2>1. ASSUME NEW n \in 1..Len(agents)
        PROVE  FoundAccount(DemoNames[n], agents[n])
    <3>1. CASE n = Len(seed.agents) + 1
      BY <1>2, <3>1 DEF SeedName
    <3>2. CASE n \in 1..Len(seed.agents)
      BY <1>1, <1>2, <1>3, <3>2 DEF IInv, UndisturbedRuns
    <3>3. QED BY <1>2, <3>1, <3>2
  <2>2. \A n \in 1..Len(seed'.agents) : FoundAccount(DemoNames[n], seed.agents[n])'
    BY <1>1, <1>3, <1>4, <2>1 DEF FoundAccount
  <2>3. seed'.flush => \A v \in Uids : Flushable(v)' => v \in seed'.goneUsers
    BY <1>1, <1>3 DEF IInv, UndisturbedRuns, Flushable, UserExists
  <2>4. QED BY <1>1, <1>3, <1>4, <2>2, <2>3 DEF UndisturbedRuns
<1>10. QED BY <1>4, <1>5, <1>7, <1>8, <1>9, UncommittedKeeps

\* A run adds an account.
LEMMA NewAccountKeeps ==
    ASSUME IInv, SeedAt("accounts"), Len(seed.agents) < Len(DemoNames), Uncommitted,
           ~AccountClash(SeedName), NEW u \in Uids, FreeUser(u),
           seed' = [seed EXCEPT !.agents = Append(@, u), !.newUsers[u] = NewAccount(SeedName)]
    PROVE  IInv'
<1> DEFINE agents == Append(seed.agents, u)
           row == NewAccount(SeedName)
           newUsers == [seed.newUsers EXCEPT ![u] = row]
           new == [seed EXCEPT !.agents = agents, !.newUsers = newUsers]
<1>1. /\ seed \in SeedRun /\ Seeding /\ seed.pc = "accounts" /\ seed' = new
      /\ users' = users /\ listings' = listings /\ bound' = bound /\ txn' = txn
  BY RunFields DEF SeedAt, IInv, StateOK, Uncommitted, accountVars, tables
<1>2. /\ agents \in Seq(Uids) /\ Len(seed.agents) \in Nat /\ Len(agents) = Len(seed.agents) + 1
      /\ \A n \in 1..Len(seed.agents) : agents[n] = seed.agents[n]
      /\ agents[Len(seed.agents) + 1] = u
  <2>1. seed.agents \in Seq(Uids)
    BY <1>1 DEF SeedRun
  <2>2. QED BY <2>1, Appended
<1> HIDE DEF agents
<1>3. SeedName \in Names
  BY <1>2, NamesOfRuns DEF SeedName
<1>4. row \in User /\ row.username = SeedName /\ row.email = SeedName /\ ~row.deleted /\ row # NoRow
  <2>1. (IF SeedName = DemoAdmin THEN "admin" ELSE "agent") \in Kinds
    BY RowTypes
  <2>2. row \in User
    BY <1>3, <2>1 DEF NewAccount, User
  <2>3. QED BY <2>2, RowTypes DEF NewAccount
<1> HIDE DEF row
<1>5. /\ newUsers \in [Uids -> User \cup {NoRow}] /\ newUsers[u] = row
      /\ \A v \in Uids \ {u} : newUsers[v] = seed.newUsers[v]
  BY <1>1, <1>4 DEF SeedRun
<1> HIDE DEF newUsers
<1>6. /\ new \in SeedRun /\ new.pc = seed.pc /\ new.goneListings = seed.goneListings
      /\ new.flush = seed.flush /\ new.count = seed.count /\ new.index = seed.index
      /\ new.drawn = seed.drawn /\ new.agents = agents /\ new.goneUsers = seed.goneUsers
      /\ new.newUsers = newUsers /\ new.newListings = seed.newListings /\ new.met = seed.met
  BY <1>1, <1>2, <1>5 DEF SeedRun
<1> HIDE DEF new
<1>7. /\ ~UserExists(u) /\ u \notin seed.goneUsers /\ u \notin NewUsers
      /\ \A n \in 1..Len(seed.agents) : seed.agents[n] # u
      /\ \A w \in Workers : ~Idle(w) /\ txn[w].op \in {"change", "retire"} => txn[w].id # u
  BY <1>1 DEF FreeUser, UsersHeld, IInv, RemovedRowsStay, NewAccountsAreOwn
<1>8. /\ SeedOK' /\ NewUsers' = NewUsers \cup {u} /\ NewListings' = {} /\ Seeding'
      /\ seed.index = 1
  <2>1. SeedOK' /\ Seeding'
    BY <1>1, <1>6, RowTypes DEF IInv, StateOK, SeedOK, Seeding
  <2>2. NewListings = {} /\ seed.index = 1
    BY <1>1 DEF IInv, RunsProgress
  <2>3. NewListings' = NewListings
    BY <1>1, <1>6 DEF NewListings
  <2>4. NewUsers' = NewUsers \cup {u}
    BY <1>1, <1>4, <1>5, <1>6 DEF NewUsers
  <2>5. QED BY <2>1, <2>2, <2>3, <2>4
<1>9. /\ SeenUsers'[u] = row /\ \A v \in Uids \ {u} : SeenUsers'[v] = SeenUsers[v]
  BY <1>1, <1>4, <1>5, <1>6, <1>7 DEF SeenUsers
<1>10. RunsProgress'
  BY <1>1, <1>2, <1>6, <1>8, NamesOfRuns DEF IInv, RunsProgress
<1>11. \A x : (\E n \in 1..Len(seed.agents) : seed.agents[n] = x) =>
              \E n \in 1..Len(agents) : agents[n] = x
  BY <1>2
<1>12. \A v \in Uids : SeenUsers[v] # NoRow =>
          SeenUsers[v].username # SeedName /\ SeenUsers[v].email # SeedName
  BY DEF AccountClash
<1>13. NewAccountsAreOwn'
  <2> SUFFICES ASSUME Seeding', NEW x \in NewUsers'
               PROVE  /\ ~UserExists(x)' /\ \E n \in 1..Len(seed'.agents) : seed'.agents[n] = x
                      /\ \A w \in Workers :
                            ~Idle(w)' /\ txn'[w].op \in {"change", "retire"} => txn'[w].id # x
                      /\ seed'.newUsers[x].email = seed'.newUsers[x].username
                      /\ ~seed'.newUsers[x].deleted
                      /\ \A v \in Uids \ {x} : SeenUsers'[v] # NoRow =>
                            /\ SeenUsers'[v].username # seed'.newUsers[x].username
                            /\ SeenUsers'[v].email # seed'.newUsers[x].username
    BY DEF NewAccountsAreOwn
  <2>0. seed'.agents = agents /\ seed'.newUsers = newUsers
    BY <1>1, <1>6
  <2>1. CASE x = u
    <3>1. ~UserExists(u)' /\ \E n \in 1..Len(agents) : agents[n] = u
      BY <1>1, <1>2, <1>7 DEF UserExists
    <3>2. \A w \in Workers : ~Idle(w)' /\ txn'[w].op \in {"change", "retire"} => txn'[w].id # u
      BY <1>1, <1>7 DEF Idle
    <3>3. QED BY <2>0, <2>1, <3>1, <3>2, <1>4, <1>5, <1>9, <1>12
  <2>2. CASE x # u
    <3>1. x \in NewUsers /\ x \in Uids /\ newUsers[x] = seed.newUsers[x]
      BY <2>2, <1>5, <1>8 DEF NewUsers
    <3>2. x \notin seed.goneUsers
      BY <1>1, <3>1 DEF IInv, NewAccountsAreOwn, RemovedRowsStay
    <3>3. newUsers[x].username # SeedName
      BY <3>1, <3>2, <1>12, SeenNew
    <3>4. QED BY <2>0, <2>2, <3>1, <3>3, <1>1, <1>4, <1>9, <1>11 DEF IInv, NewAccountsAreOwn, UserExists, Idle
  <2>3. QED BY <2>1, <2>2
<1>14. RemovedRowsStay'
  BY <1>1, <1>6, <1>8 DEF IInv, RemovedRowsStay, ListingExists, UserExists
<1>15. UndisturbedRuns'
  <2> SUFFICES ASSUME ~seed'.met PROVE UndisturbedRuns'
    BY DEF UndisturbedRuns
  <2>1. ASSUME NEW n \in 1..Len(agents)
        PROVE  FoundAccount(DemoNames[n], seed.agents[n])'
    <3>1. CASE n = Len(seed.agents) + 1
      BY <1>1, <1>2, <1>4, <1>6, <1>9, <3>1 DEF SeedName, FoundAccount
    <3>2. CASE n \in 1..Len(seed.agents)
      <4>1. FoundAccount(DemoNames[n], seed.agents[n]) /\ seed.agents[n] \in Uids \ {u}
        BY <1>1, <1>6, <1>7, <3>2 DEF IInv, UndisturbedRuns, SeedRun
      <4>2. QED BY <1>1, <1>2, <1>6, <1>9, <3>2, <4>1 DEF FoundAccount
    <3>3. QED BY <1>2, <3>1, <3>2
  <2>2. seed'.flush => \A v \in Uids : Flushable(v)' => v \in seed'.goneUsers
    BY <1>1, <1>6 DEF IInv, UndisturbedRuns, Flushable, UserExists
  <2>3. /\ seed'.pc = "accounts" /\ seed'.index = 1 /\ seed'.agents = agents
    BY <1>1, <1>6, <1>8
  <2>4. QED BY <1>8, <2>1, <2>2, <2>3 DEF UndisturbedRuns
<1>16. QED BY <1>8, <1>10, <1>13, <1>14, <1>15, UncommittedKeeps

LEMMA AccountKeeps ==
    ASSUME IInv, SeedAccount
    PROVE  IInv'
  BY FoundKeeps, NewAccountKeeps DEF SeedAccount

LEMMA AccountsDoneKeeps ==
    ASSUME IInv, SeedAccountsDone
    PROVE  IInv'
<1> DEFINE new == [seed EXCEPT !.pc = "listings"]
<1>1. /\ seed \in SeedRun /\ Seeding /\ seed.pc = "accounts" /\ seed' = new /\ Uncommitted
      /\ Len(seed.agents) = Len(DemoNames)
      /\ users' = users /\ listings' = listings /\ bound' = bound /\ txn' = txn
  BY RunFields DEF SeedAccountsDone, SeedAt, IInv, StateOK, Uncommitted, accountVars, tables
<1>2. /\ new \in SeedRun /\ new.pc = "listings" /\ new.goneListings = seed.goneListings
      /\ new.flush = seed.flush /\ new.count = seed.count /\ new.index = seed.index
      /\ new.drawn = seed.drawn /\ new.agents = seed.agents /\ new.goneUsers = seed.goneUsers
      /\ new.newUsers = seed.newUsers /\ new.newListings = seed.newListings /\ new.met = seed.met
  BY <1>1 DEF SeedRun
<1> HIDE DEF new
<1>3. SeedOK' /\ Seeding'
  BY <1>1, <1>2, RowTypes DEF IInv, StateOK, SeedOK, Seeding
<1>4. /\ NewUsers' = NewUsers /\ NewListings' = NewListings
      /\ SeenUsers' = SeenUsers /\ SeenListings' = SeenListings
  BY <1>1, <1>2 DEF NewUsers, NewListings, SeenUsers, SeenListings, Unstamped
<1>5. RunsProgress'
  BY <1>1, <1>2 DEF IInv, RunsProgress
<1>6. NewAccountsAreOwn'
  BY <1>1, <1>2, <1>4 DEF IInv, NewAccountsAreOwn, UserExists, Idle
<1>7. RemovedRowsStay'
  BY <1>1, <1>2, <1>4 DEF IInv, RemovedRowsStay, ListingExists, UserExists
<1>8. UndisturbedRuns'
  <2> SUFFICES ASSUME ~seed'.met PROVE UndisturbedRuns'
    BY DEF UndisturbedRuns
  <2>1. UndisturbedRuns /\ ~seed.met /\ seed.index = 1
    BY <1>1, <1>2 DEF IInv, RunsProgress
  <2>2. seed'.index = 1 /\ seed'.agents = seed.agents
    BY <1>1, <1>2, <2>1
  <2>3. \A n \in 1..Len(seed'.agents) : FoundAccount(DemoNames[n], seed.agents[n])'
    BY <1>1, <1>4, <2>1, <2>2 DEF UndisturbedRuns, FoundAccount
  <2>4. QED BY <1>1, <1>2, <1>4, <2>1, <2>2, <2>3 DEF UndisturbedRuns, Flushable, UserExists
<1>9. \A l \in NewListings' : seed'.newListings[l].title \in Drawable \ {OwnTitle}
  BY <1>1, <1>2, <1>4 DEF IInv, TitlesAreDrawn
<1>10. QED BY <1>1, <1>3, <1>5, <1>6, <1>7, <1>8, <1>9, UncommittedKeeps

\* The agents take turns.
LEMMA AgentOfRun ==
    ASSUME IInv, SeedAt("listings")
    PROVE  SeedAgent \in Uids /\ \E n \in 1..Len(seed.agents) : seed.agents[n] = SeedAgent
<1>1. /\ seed.agents \in Seq(Uids) /\ seed.index \in Nat \ {0}
      /\ Len(seed.agents) = Len(DemoNames)
  BY RunFields, SeedAssumption DEF SeedAt, IInv, StateOK, SeedRun, RunsProgress
<1>2. (seed.index - 1) % Len(DemoAgents) \in 0..(Len(DemoAgents) - 1)
  BY <1>1, NamesOfRuns
<1>3. ((seed.index - 1) % Len(DemoAgents)) + 2 \in 1..Len(seed.agents)
  BY <1>1, <1>2, NamesOfRuns
<1>4. QED BY <1>1, <1>3 DEF SeedAgent

\* The title of the next listing is one the stream gives.
LEMMA TitleOfRun ==
    ASSUME IInv, SeedAt("listings"), seed.index <= seed.count
    PROVE  /\ seed.index \in 1..MaxCount /\ SeedTitle = <<seed.index, 2 * (seed.index - 1)>>
           /\ SeedTitle \in Drawable \ {OwnTitle}
<1>1. seed.index \in 1..MaxCount /\ seed.drawn = 2 * (seed.index - 1)
  BY RunFields, SeedAssumption DEF SeedAt, IInv, StateOK, SeedRun, RunsProgress
<1>2. SeedTitle = <<seed.index, 2 * (seed.index - 1)>>
  BY <1>1 DEF SeedTitle
<1>3. QED BY <1>1, <1>2, SeedAssumption DEF Drawable

LEMMA KnownKeeps ==
    ASSUME IInv, SeedAt("listings"), seed.index <= seed.count, Uncommitted, Known(SeedTitle),
           seed' = [seed EXCEPT !.index = @ + 1, !.drawn = Drawn]
    PROVE  IInv'
<1> DEFINE new == [seed EXCEPT !.index = seed.index + 1, !.drawn = seed.drawn + 2]
<1>1. /\ seed \in SeedRun /\ Seeding /\ seed.pc = "listings" /\ seed' = new
      /\ users' = users /\ listings' = listings /\ bound' = bound /\ txn' = txn
  BY RunFields DEF SeedAt, IInv, StateOK, Uncommitted, accountVars, tables, Drawn
<1>2. /\ seed.index \in 1..MaxCount /\ SeedTitle = <<seed.index, 2 * (seed.index - 1)>>
      /\ seed.drawn \in Nat /\ MaxCount \in Nat /\ seed.count \in 1..MaxCount
  BY <1>1, TitleOfRun, SeedAssumption DEF SeedRun
<1>3. /\ new \in SeedRun /\ new.pc = "listings" /\ new.goneListings = seed.goneListings
      /\ new.flush = seed.flush /\ new.count = seed.count /\ new.index = seed.index + 1
      /\ new.drawn = seed.drawn + 2 /\ new.agents = seed.agents /\ new.goneUsers = seed.goneUsers
      /\ new.newUsers = seed.newUsers /\ new.newListings = seed.newListings /\ new.met = seed.met
  <2>1. seed.index + 1 \in 1..(MaxCount + 1) /\ seed.drawn + 2 \in Nat
    BY <1>2
  <2>2. QED BY <1>1, <2>1 DEF SeedRun
<1> HIDE DEF new
<1>4. SeedOK' /\ Seeding'
  BY <1>1, <1>3, RowTypes DEF IInv, StateOK, SeedOK, Seeding
<1>5. /\ NewUsers' = NewUsers /\ NewListings' = NewListings
      /\ SeenUsers' = SeenUsers /\ SeenListings' = SeenListings
  BY <1>1, <1>3 DEF NewUsers, NewListings, SeenUsers, SeenListings, Unstamped
<1>6. RunsProgress'
  <2>1. /\ seed'.pc = "listings" /\ seed'.index = seed.index + 1 /\ seed'.agents = seed.agents
        /\ seed'.drawn = seed.drawn + 2 /\ seed'.count = seed.count
    BY <1>1, <1>3
  <2>2. /\ seed.drawn = 2 * (seed.index - 1) /\ Len(seed.agents) = Len(DemoNames)
    BY <1>1 DEF IInv, RunsProgress
  <2>3. seed.drawn + 2 = 2 * ((seed.index + 1) - 1) /\ seed.index + 1 <= seed.count + 1
    BY <1>2, <2>2
  <2>4. QED BY <2>1, <2>2, <2>3, NamesOfRuns DEF RunsProgress
<1>7. NewAccountsAreOwn'
  BY <1>1, <1>3, <1>5 DEF IInv, NewAccountsAreOwn, UserExists, Idle
<1>8. RemovedRowsStay'
  BY <1>1, <1>3, <1>5 DEF IInv, RemovedRowsStay, ListingExists, UserExists
<1>9. UndisturbedRuns'
  <2> SUFFICES ASSUME ~seed'.met PROVE UndisturbedRuns'
    BY DEF UndisturbedRuns
  <2>1. UndisturbedRuns /\ ~seed.met
    BY <1>1, <1>3 DEF IInv
  <2>2. \A n \in 1..(seed'.index - 1) : Known(<<n, 2 * (n - 1)>>)'
    <3>1. ASSUME NEW n \in 1..seed.index PROVE Known(<<n, 2 * (n - 1)>>)
      BY <1>1, <1>2, <2>1 DEF UndisturbedRuns
    <3>2. seed'.index - 1 = seed.index
      BY <1>1, <1>2, <1>3
    <3>3. QED BY <1>5, <3>1, <3>2 DEF Known
  <2>3. QED BY <1>1, <1>3, <1>5, <2>1, <2>2 DEF UndisturbedRuns, FoundAccount, Flushable, UserExists
<1>10. \A l \in NewListings' : seed'.newListings[l].title \in Drawable \ {OwnTitle}
  BY <1>1, <1>3, <1>5 DEF IInv, TitlesAreDrawn
<1>11. QED BY <1>4, <1>6, <1>7, <1>8, <1>9, <1>10, UncommittedKeeps

LEMMA NewListingKeeps ==
    ASSUME IInv, SeedAt("listings"), seed.index <= seed.count, Uncommitted, ~Known(SeedTitle),
           NEW l \in Lids, FreeListing(l),
           seed' = [seed EXCEPT !.index = @ + 1, !.drawn = Drawn,
                       !.newListings[l] = [agent |-> SeedAgent, createdBy |-> SeedAgent,
                                           title |-> SeedTitle, deleted |-> FALSE]]
    PROVE  IInv'
<1> DEFINE row == [agent |-> SeedAgent, createdBy |-> SeedAgent, title |-> SeedTitle, deleted |-> FALSE]
           newListings == [seed.newListings EXCEPT ![l] = row]
           new == [seed EXCEPT !.index = seed.index + 1, !.drawn = seed.drawn + 2,
                               !.newListings = newListings]
<1>1. /\ seed \in SeedRun /\ Seeding /\ seed.pc = "listings" /\ seed' = new
      /\ users' = users /\ listings' = listings /\ bound' = bound /\ txn' = txn
  BY RunFields DEF SeedAt, IInv, StateOK, Uncommitted, accountVars, tables, Drawn
<1>2. /\ seed.index \in 1..MaxCount /\ SeedTitle = <<seed.index, 2 * (seed.index - 1)>>
      /\ SeedTitle \in Drawable \ {OwnTitle}
      /\ seed.drawn \in Nat /\ MaxCount \in Nat /\ seed.count \in 1..MaxCount
  BY <1>1, TitleOfRun, SeedAssumption DEF SeedRun
<1>3. /\ row \in Listing /\ row.agent = SeedAgent /\ row.createdBy = SeedAgent
      /\ row.title = SeedTitle /\ row # NoRow
  <2>1. row \in Listing
    BY <1>2, AgentOfRun, RowTypes DEF Listing
  <2>2. QED BY <2>1, RowTypes
<1> HIDE DEF row
<1>4. /\ newListings \in [Lids -> Listing \cup {NoRow}] /\ newListings[l] = row
      /\ \A k \in Lids \ {l} : newListings[k] = seed.newListings[k]
  BY <1>1, <1>3 DEF SeedRun
<1>5. seed' = new
  BY <1>1
<1> HIDE DEF newListings
<1>6. /\ new \in SeedRun /\ new.pc = "listings" /\ new.goneListings = seed.goneListings
      /\ new.flush = seed.flush /\ new.count = seed.count /\ new.index = seed.index + 1
      /\ new.drawn = seed.drawn + 2 /\ new.agents = seed.agents /\ new.goneUsers = seed.goneUsers
      /\ new.newUsers = seed.newUsers /\ new.newListings = newListings /\ new.met = seed.met
  <2>1. seed.index + 1 \in 1..(MaxCount + 1) /\ seed.drawn + 2 \in Nat
    BY <1>2
  <2>2. QED BY <1>1, <1>4, <2>1 DEF SeedRun
<1> HIDE DEF new
<1>7. SeedOK' /\ Seeding'
  BY <1>1, <1>6, RowTypes DEF IInv, StateOK, SeedOK, Seeding
<1>8. ~ListingExists(l) /\ l \notin NewListings /\ l \notin seed.goneListings
  BY <1>1 DEF FreeListing, ListingsHeld, IInv, RemovedRowsStay
<1>9. /\ NewUsers' = NewUsers /\ SeenUsers' = SeenUsers
  BY <1>1, <1>6 DEF NewUsers, SeenUsers
<1>10. NewListings' = NewListings \cup {l}
  BY <1>1, <1>3, <1>4, <1>6 DEF NewListings
<1>11. /\ SeenListings'[l] = row /\ SeenListings[l] = NoRow
       /\ \A k \in Lids \ {l} : SeenListings'[k] = SeenListings[k]
  <2>1. seed'.newListings = newListings /\ seed'.goneListings = seed.goneListings
        /\ seed'.goneUsers = seed.goneUsers
    BY <1>1, <1>6
  <2>2. SeenListings'[l] = row
    BY <1>3, <1>4, <1>8, <2>1 DEF SeenListings
  <2>3. SeenListings[l] = NoRow
    BY <1>8 DEF SeenListings, NewListings, ListingExists, Unstamped
  <2>4. ASSUME NEW k \in Lids \ {l} PROVE SeenListings'[k] = SeenListings[k]
    BY <1>1, <1>4, <2>1 DEF SeenListings, Unstamped
  <2>5. QED BY <2>2, <2>3, <2>4
<1>12. RunsProgress'
  <2>1. /\ seed'.pc = "listings" /\ seed'.index = seed.index + 1 /\ seed'.agents = seed.agents
        /\ seed'.drawn = seed.drawn + 2 /\ seed'.count = seed.count
    BY <1>1, <1>6
  <2>2. /\ seed.drawn = 2 * (seed.index - 1) /\ Len(seed.agents) = Len(DemoNames)
    BY <1>1 DEF IInv, RunsProgress
  <2>3. seed.drawn + 2 = 2 * ((seed.index + 1) - 1) /\ seed.index + 1 <= seed.count + 1
    BY <1>2, <2>2
  <2>4. QED BY <2>1, <2>2, <2>3, NamesOfRuns DEF RunsProgress
<1>13. NewAccountsAreOwn'
  BY <1>1, <1>6, <1>9 DEF IInv, NewAccountsAreOwn, UserExists, Idle
<1>14. RemovedRowsStay'
  <2>1. ASSUME NEW k \in NewListings'
        PROVE  /\ k \notin seed.goneListings /\ newListings[k].createdBy = newListings[k].agent
               /\ \E n \in 1..Len(seed.agents) : seed.agents[n] = newListings[k].agent
    <3>1. CASE k = l
      BY <3>1, <1>3, <1>4, <1>8, AgentOfRun
    <3>2. CASE k # l
      <4>1. k \in NewListings /\ newListings[k] = seed.newListings[k]
        BY <3>2, <1>4, <1>10 DEF NewListings
      <4>2. QED BY <1>1, <4>1 DEF IInv, RemovedRowsStay
    <3>3. QED BY <3>1, <3>2
  <2>2. /\ seed'.newListings = newListings /\ seed'.goneListings = seed.goneListings
        /\ seed'.goneUsers = seed.goneUsers /\ seed'.agents = seed.agents
    BY <1>1, <1>6
  <2>3. /\ \A u \in seed'.goneUsers : UserExists(u)'
        /\ \A k \in seed'.goneListings : ListingExists(k)'
        /\ \A k \in Lids \ seed'.goneListings :
              ListingExists(k)' => listings'[k].agent \notin seed'.goneUsers
    BY <1>1, <2>2 DEF IInv, RemovedRowsStay, ListingExists, UserExists
  <2>4. \A k \in NewListings' :
          /\ k \notin seed'.goneListings
          /\ seed'.newListings[k].createdBy = seed'.newListings[k].agent
          /\ \E n \in 1..Len(seed'.agents) : seed'.agents[n] = seed'.newListings[k].agent
    <3> SUFFICES ASSUME NEW k \in NewListings'
                 PROVE  /\ k \notin seed'.goneListings
                        /\ seed'.newListings[k].createdBy = seed'.newListings[k].agent
                        /\ \E n \in 1..Len(seed'.agents) : seed'.agents[n] = seed'.newListings[k].agent
      OBVIOUS
    <3>1. seed'.newListings[k] = newListings[k]
      BY <2>2
    <3>2. PICK n \in 1..Len(seed.agents) : seed.agents[n] = newListings[k].agent
      BY <2>1
    <3>3. QED BY <2>1, <2>2, <3>1, <3>2
  <2>5. QED BY <2>3, <2>4 DEF RemovedRowsStay
<1>15. UndisturbedRuns'
  <2> SUFFICES ASSUME ~seed'.met PROVE UndisturbedRuns'
    BY DEF UndisturbedRuns
  <2>1. UndisturbedRuns /\ ~seed.met
    BY <1>1, <1>6 DEF IInv
  <2>2. \A n \in 1..(seed'.index - 1) : Known(<<n, 2 * (n - 1)>>)'
    <3>1. ASSUME NEW n \in 1..(seed.index - 1)
          PROVE  \E k \in Lids : SeenListings'[k] # NoRow /\ SeenListings'[k].title = <<n, 2 * (n - 1)>>
      <4>1. PICK k \in Lids : SeenListings[k] # NoRow /\ SeenListings[k].title = <<n, 2 * (n - 1)>>
        BY <1>1, <2>1 DEF UndisturbedRuns, Known
      <4>2. SeenListings'[k] = SeenListings[k]
        BY <1>11, <4>1
      <4>3. QED BY <4>1, <4>2
    <3>2. SeenListings'[l] # NoRow /\ SeenListings'[l].title = <<seed.index, 2 * (seed.index - 1)>>
      BY <1>2, <1>3, <1>11
    <3>3. seed'.index - 1 = seed.index
      BY <1>1, <1>2, <1>6
    <3>4. ASSUME NEW n \in 1..seed.index
          PROVE  \E k \in Lids : SeenListings'[k] # NoRow /\ SeenListings'[k].title = <<n, 2 * (n - 1)>>
      <4>1. n = seed.index \/ n \in 1..(seed.index - 1)
        BY <1>2
      <4>2. QED BY <3>1, <3>2, <4>1
    <3>5. QED BY <3>3, <3>4 DEF Known
  <2>3. ASSUME NEW x \in NewListings', NEW k \in Lids, k # x, SeenListings'[k] # NoRow
        PROVE  SeenListings'[k].title # newListings[x].title
    <3>1. CASE x = l
      BY <3>1, <2>3, <1>3, <1>4, <1>11 DEF Known
    <3>2. CASE x # l
      <4>1. x \in NewListings /\ x \in Lids /\ newListings[x] = seed.newListings[x]
        BY <3>2, <1>4, <1>10 DEF NewListings
      <4>2. CASE k = l
        <5>1. SeenListings[x] = seed.newListings[x] /\ SeenListings[x] # NoRow
          BY <1>1, <4>1 DEF SeenListings, NewListings, IInv, RemovedRowsStay
        <5>2. seed.newListings[x].title # SeedTitle
          BY <4>1, <5>1 DEF Known
        <5>3. QED BY <4>1, <4>2, <5>2, <1>3, <1>11
      <4>3. CASE k # l
        BY <2>1, <2>3, <4>1, <4>3, <1>1, <1>11 DEF UndisturbedRuns
      <4>4. QED BY <4>2, <4>3
    <3>3. QED BY <3>1, <3>2
  <2>4. seed'.newListings = newListings
    BY <1>1, <1>6
  <2>5. /\ seed'.pc = "listings" /\ seed'.agents = seed.agents /\ seed'.flush = seed.flush
        /\ seed'.goneUsers = seed.goneUsers
    BY <1>1, <1>6
  <2>6. \A n \in 1..Len(seed'.agents) : FoundAccount(DemoNames[n], seed.agents[n])'
    BY <1>1, <1>9, <2>1, <2>5 DEF UndisturbedRuns, FoundAccount
  <2>7. seed'.flush => \A v \in Uids : Flushable(v)' => v \in seed'.goneUsers
    BY <1>1, <2>1, <2>5 DEF UndisturbedRuns, Flushable, UserExists
  <2>8. QED BY <2>2, <2>3, <2>4, <2>5, <2>6, <2>7 DEF UndisturbedRuns
<1>16. \A k \in NewListings' : seed'.newListings[k].title \in Drawable \ {OwnTitle}
  BY <1>1, <1>2, <1>3, <1>4, <1>6, <1>10 DEF IInv, TitlesAreDrawn, NewListings
<1>17. QED BY <1>7, <1>12, <1>13, <1>14, <1>15, <1>16, UncommittedKeeps

LEMMA SeedListingKeeps ==
    ASSUME IInv, SeedListing
    PROVE  IInv'
  BY KnownKeeps, NewListingKeeps DEF SeedListing

-----------------------------------------------------------------------------
(* The commit of the command.                                              *)

\* What a run sees of the listings: its own, and those of others it left.
LEMMA SeenListing ==
    ASSUME IInv, Seeding, NEW l \in Lids, SeenListings[l] # NoRow
    PROVE  /\ l \notin seed.goneListings /\ SeenListings[l] \in Listing
           /\ \/ l \in NewListings /\ SeenListings[l] = seed.newListings[l]
              \/ /\ l \notin NewListings /\ ListingExists(l)
                 /\ SeenListings[l].agent = listings[l].agent
                 /\ SeenListings[l].title = listings[l].title
                 /\ SeenListings[l].createdBy \in {listings[l].createdBy, NoUser} \ seed.goneUsers
<1>1. /\ seed.newListings \in [Lids -> Listing \cup {NoRow}] /\ seed.goneUsers \in SUBSET Uids
      /\ listings[l] \in Listing \cup {NoRow}
  BY RunFields DEF IInv, StateOK, TypeOK, SeedRun
<1>2. l \notin seed.goneListings
  BY DEF SeenListings
<1>3. CASE l \in NewListings
  BY <1>1, <1>2, <1>3 DEF SeenListings, NewListings
<1>4. CASE l \notin NewListings
  <2>1. SeenListings[l] = Unstamped(listings[l], seed.goneUsers)
    BY <1>2, <1>4 DEF SeenListings, NewListings
  <2> HIDE DEF SeenListings
  <2>2. QED BY <1>1, <1>2, <1>4, <2>1, UnstampedRow DEF ListingExists
<1>5. QED BY <1>3, <1>4

\* Accounts a run did not remove, it sees.
LEMMA SeenUser ==
    ASSUME IInv, Seeding, NEW u \in Uids, UserExists(u), u \notin seed.goneUsers
    PROVE  SeenUsers[u] = users[u] /\ SeenUsers[u] # NoRow
  BY DEF IInv, NewAccountsAreOwn, SeenUsers, NewUsers, UserExists

\* And what it sees is its own or somebody's.
LEMMA SeenUserIs ==
    ASSUME IInv, Seeding, NEW u \in Uids, SeenUsers[u] # NoRow
    PROVE  /\ u \notin seed.goneUsers /\ SeenUsers[u] \in User
           /\ \/ u \in NewUsers /\ SeenUsers[u] = seed.newUsers[u]
              \/ u \notin NewUsers /\ UserExists(u) /\ SeenUsers[u] = users[u]
<1>1. /\ seed.newUsers \in [Uids -> User \cup {NoRow}] /\ users[u] \in User \cup {NoRow}
  BY RunFields DEF IInv, StateOK, TypeOK, SeedRun
<1>2. QED BY <1>1 DEF SeenUsers, NewUsers, UserExists

LEMMA CommitReferences ==
    ASSUME IInv, SeedCommit
    PROVE  ReferencesExist'
<1>1. Seeding /\ SeedReferencesHold /\ users' = SeenUsers /\ listings' = SeenListings
  BY DEF SeedCommit, SeedDone, SeedAt
<1>2. ASSUME NEW l \in Lids, ListingExists(l)', NEW u \in {listings'[l].agent, listings'[l].createdBy} \ {NoUser}
      PROVE  u \in Uids /\ SeenUsers[u] # NoRow
  <2>1. SeenListings[l] # NoRow
    BY <1>1, <1>2 DEF ListingExists
  <2>2. CASE l \in NewListings
    <3>1. SeenListings[l] = seed.newListings[l] /\ u = seed.newListings[l].agent
      BY <1>1, <1>2, <2>1, <2>2, SeenListing DEF IInv, RemovedRowsStay
    <3>2. u \in Uids
      BY <1>1, <2>1, <3>1, SeenListing DEF Listing
    <3>3. QED BY <1>1, <2>2, <3>1, <3>2 DEF SeedReferencesHold
  <2>3. CASE l \notin NewListings
    <3>1. /\ ListingExists(l) /\ l \notin seed.goneListings
          /\ \/ u = listings[l].agent
             \/ u = listings[l].createdBy /\ u \notin seed.goneUsers
      BY <1>1, <1>2, <2>1, <2>3, SeenListing
    <3>2. UserExists(u) /\ u \notin seed.goneUsers
      BY <1>1, <1>2, <3>1, RowNames DEF IInv, RemovedRowsStay
    <3>3. QED BY <1>1, <3>2, SeenUser DEF UserExists
  <2>4. QED BY <2>2, <2>3
<1>3. ASSUME NEW u \in Uids, NEW v \in Uids \ {u}, SeenUsers[u] # NoRow, SeenUsers[v] # NoRow
      PROVE  SeenUsers[v].username # SeenUsers[u].username /\ SeenUsers[v].email # SeenUsers[u].email
  <2>1. CASE u \in NewUsers
    BY <1>1, <1>3, <2>1, SeenUserIs DEF IInv, NewAccountsAreOwn
  <2>2. CASE v \in NewUsers
    BY <1>1, <1>3, <2>2, SeenUserIs DEF IInv, NewAccountsAreOwn
  <2>3. CASE u \notin NewUsers /\ v \notin NewUsers
    BY <1>1, <1>3, <2>3, SeenUserIs DEF IInv, ReferencesExist, NamesFree
  <2>4. QED BY <2>1, <2>2, <2>3
<1>4. \A l \in Lids : ListingExists(l)' =>
         {listings'[l].agent, listings'[l].createdBy} \ {NoUser} \subseteq {u \in Uids : UserExists(u)'}
  BY <1>1, <1>2 DEF UserExists
<1>5. \A u \in Uids : UserExists(u)' => NamesFree(u, users[u])'
  BY <1>1, <1>3 DEF UserExists, NamesFree
<1>6. QED BY <1>4, <1>5 DEF ReferencesExist

LEMMA CommitKeeps ==
    ASSUME IInv, SeedCommit
    PROVE  IInv'
<1>1. /\ Seeding /\ users' = SeenUsers /\ listings' = SeenListings /\ Ends(NoUser)
      /\ seed' = NoSeed /\ bound' = bound
  BY DEF SeedCommit, SeedDone, SeedAt
<1>2. ~Seeding' /\ SeedOK'
  BY <1>1 DEF Seeding, IInv, StateOK, SeedOK
<1>3. users' \in [Uids -> User \cup {NoRow}]
  <2>1. \A u \in Uids : SeenUsers[u] \in User \cup {NoRow}
    BY <1>1, SeenUserIs
  <2>2. QED BY <1>1, <2>1 DEF SeenUsers
<1>4. listings' \in [Lids -> Listing \cup {NoRow}]
  <2>1. \A l \in Lids : SeenListings[l] \in Listing \cup {NoRow}
    BY <1>1, SeenListing
  <2>2. QED BY <1>1, <2>1 DEF SeenListings
<1>5. /\ txn' \in [Workers -> Txn \cup {NoTxn}]
      /\ \A v \in Workers : ~Idle(v)' =>
            /\ ~Idle(v) /\ txn'[v].op = txn[v].op /\ txn'[v].id = txn[v].id
            /\ txn'[v].row = txn[v].row
            /\ ~txn'[v].met => /\ txn'[v] = txn[v]
                               /\ ~Concerns(txn[v], ChangedUsers, ChangedListings)
  BY <1>1, EndsShape DEF IInv, StateOK
<1>6. StateOK'
  BY <1>2, <1>3, <1>4, <1>5 DEF StateOK, TypeOK
<1>7. TitlesAreDrawn'
  <2>1. \A l \in Lids : SeenListings[l] # NoRow => SeenListings[l].title \in Drawable
    BY <1>1, SeenListing DEF IInv, TitlesAreDrawn
  <2>2. QED BY <1>1, <1>2, <1>5, <2>1 DEF IInv, TitlesAreDrawn, ListingExists
<1>8. UnmetHold'
  <2> SUFFICES ASSUME NEW v \in Workers, ~Idle(v)', ~txn'[v].met
               PROVE  Holds(txn[v])'
    BY DEF UnmetHold
  <2>1. /\ ~Idle(v) /\ txn'[v] = txn[v] /\ ~Concerns(txn[v], ChangedUsers, ChangedListings)
    BY <1>5
  <2>2. Holds(txn[v])
    BY <2>1 DEF IInv, UnmetHold
  <2>3. QED BY <2>1, <2>2, UnconcernedHolds DEF IInv, StateOK
<1>9. RunsProgress' /\ NewAccountsAreOwn' /\ RemovedRowsStay' /\ UndisturbedRuns'
  BY <1>2 DEF RunsProgress, NewAccountsAreOwn, RemovedRowsStay, UndisturbedRuns
<1>10. QED BY <1>6, <1>7, <1>8, <1>9, CommitReferences DEF IInv

-----------------------------------------------------------------------------
(* The invariant.                                                          *)

LEMMA InitIInv == Init => IInv
<1> SUFFICES ASSUME Init PROVE IInv
  OBVIOUS
<1>1. /\ users = [u \in Uids |-> NoRow] /\ listings = [l \in Lids |-> NoRow]
      /\ txn = [w \in Workers |-> NoTxn] /\ seed = NoSeed /\ bound \in Bounds
  BY DEF Init, AccountInit
<1>2. StateOK /\ ~Seeding /\ \A w \in Workers : Idle(w)
  BY <1>1 DEF StateOK, TypeOK, SeedOK, Seeding, Idle
<1>3. ReferencesExist /\ TitlesAreDrawn /\ UnmetHold
  BY <1>1, <1>2 DEF ReferencesExist, TitlesAreDrawn, UnmetHold, ListingExists, UserExists
<1>4. QED BY <1>2, <1>3
          DEF IInv, RunsProgress, NewAccountsAreOwn, RemovedRowsStay, UndisturbedRuns

LEMMA NextIInv == IInv /\ [Next]_vars => IInv'
<1> SUFFICES ASSUME IInv, [Next]_vars PROVE IInv'
  OBVIOUS
<1>1. CASE UNCHANGED vars
  <2>1. Uncommitted /\ seed' = seed /\ UNCHANGED <<tables, bound, seed>>
    BY <1>1 DEF vars, Uncommitted, accountVars
  <2>2. /\ RunsProgress' /\ RemovedRowsStay' /\ UndisturbedRuns' /\ SeedOK'
        /\ users' = users /\ txn' = txn
    BY <1>1, <2>1, RunUntouched DEF vars, accountVars
  <2>3. NewAccountsAreOwn'
    BY <2>1, <2>2 DEF IInv, NewAccountsAreOwn, Seeding, NewUsers, UserExists, SeenUsers, Idle
  <2>4. Seeding' => \A l \in NewListings' : seed'.newListings[l].title \in Drawable \ {OwnTitle}
    BY <2>1 DEF IInv, TitlesAreDrawn, Seeding, NewListings
  <2>5. QED BY <2>1, <2>2, <2>3, <2>4, UncommittedKeeps
<1>2. ASSUME NEW w \in Workers, Request(w) \/ Form(w) PROVE IInv'
  <2>1. PICK t : Begins(w, t)
    BY <1>2, RequestsBegin
  <2>2. QED BY <2>1, BeginsKeeps
<1>3. ASSUME NEW w \in Workers, RequestAbort(w) PROVE IInv'
  BY <1>3, FailsKeeps DEF RequestAbort, Abort
<1>4. CASE Others
  BY <1>2, <1>3, <1>4, ListingCommitKeeps, UserCommitKeeps, RestoreKeeps, HardDeleteKeeps,
     RemoveKeeps, AddKeeps DEF Others
<1>5. CASE SeedFails \/ SeedAbort
  BY <1>5, RunEnds DEF SeedFails, SeedAbort
<1>6. CASE SeedStep
  BY <1>5, <1>6, StartKeeps, FlushListingsKeeps, FlushUsersKeeps, AccountKeeps, AccountsDoneKeeps,
     SeedListingKeeps, CommitKeeps DEF SeedStep
<1>7. QED BY <1>1, <1>4, <1>6 DEF Next

\* Whatever requests, forms and runs of the command interleave, the tables, the
\* transactions and the run under way fit together (IInv).
THEOREM Invariance == Spec => []IInv
  BY InitIInv, NextIInv, PTL DEF Spec

\* The tables, the transactions and the run have their types.
THEOREM TypeCorrectness == Spec => []StateOK
<1>1. IInv => StateOK
  BY DEF IInv
<1>2. QED BY <1>1, Invariance, PTL

\* Every user a listing names exists and no two accounts share a name, for any
\* users, listings, requests and runs of the command (Listing.agent,
\* BaseAbstractModel.created_by, the unique indexes of users).
THEOREM ReferencesExistAlways == Spec => []ReferencesExist
<1>1. IInv => ReferencesExist
  BY DEF IInv
<1>2. QED BY <1>1, Invariance, PTL

-----------------------------------------------------------------------------
(* Failures.                                                               *)

\* What the checks of a request raise is answered as documented.
LEMMA ObjectionsDocumented ==
    ASSUME NEW op, NEW u, NEW l, NEW wanted
    PROVE  LET exc == Objection(op, u, l, wanted) IN
           exc # "none" => Handled(exc).status \in Documented
<1>1. Objection(op, u, l, wanted) \in
        {"none", "NotAuthenticated", "AuthenticationFailed", "DRFValidationError",
         "DjangoValidationError", "NotFoundException", "PermissionDeniedException"}
  BY DEF Objection
<1>2. /\ Handled("NotAuthenticated").status = 401 /\ Handled("AuthenticationFailed").status = 401
      /\ Handled("DRFValidationError").status = 400 /\ Handled("DjangoValidationError").status = 400
      /\ Handled("NotFoundException").status = 404
      /\ Handled("PermissionDeniedException").status = 403
  BY DEF Handled, AppReplies, NamedReplies, FrameworkStatus, Reply
<1>3. QED BY <1>1, <1>2 DEF Documented

\* A request that nobody wrote next to does not fail: whatever it sends, a
\* client that is told of a conflict or a server error overlapped with a write
\* it relied on.
THEOREM FailuresOnlyByOverlapAlways == Spec => []FailuresOnlyByOverlap
<1>1. IInv => FailuresOnlyByOverlap
  <2> SUFFICES ASSUME IInv PROVE FailuresOnlyByOverlap
    OBVIOUS
  <2>1. ASSUME NEW w \in Workers, ~Idle(w), txn[w].actor # NoUser, ~txn[w].met
        PROVE  Failure(w) = "none"
    <3>1. txn[w].op \in {"create", "update", "delete"}
      BY <2>1, TxnFields DEF IInv, StateOK
    <3>2. Holds(txn[w])
      BY <2>1 DEF IInv, UnmetHold
    <3>3. QED BY <3>1, <3>2 DEF Holds, Failure
  <2>2. QED BY <2>1, ObjectionsDocumented DEF FailuresOnlyByOverlap
<1>2. QED BY <1>1, Invariance, PTL

-----------------------------------------------------------------------------
(* Steps that change the tables.                                           *)

\* A step changes a table by a commit, an action of the admin site or a run.
LEMMA TableSteps ==
    ASSUME [Next]_vars, ~UNCHANGED tables
    PROVE  \/ \E w \in Workers : ListingCommit(w) \/ UserCommit(w)
           \/ \E l \in Lids : Restore(l) \/ HardDelete(l)
           \/ \E u \in Uids : Remove(u) \/ \E name \in Names : Add(u, name)
           \/ SeedCommit
<1>1. ~UNCHANGED vars
  BY DEF vars, accountVars
<1>2. \A w \in Workers : ~(Request(w) \/ Form(w) \/ RequestAbort(w))
  BY DEF Request, Form, RequestAbort, ApiRequest, AdminForm, Create, Update, Delete, AdminAssign,
         ChangeUser, RetireUser, Begin, Abort, Fails
<1>3. ~SeedFlushListings /\ ~SeedFlushUsers /\ ~SeedAccount /\ ~SeedAccountsDone /\ ~SeedListing
  BY DEF SeedFlushListings, SeedFlushUsers, SeedAccount, SeedAccountsDone, SeedListing, Uncommitted,
         accountVars
<1>4. ~SeedFails /\ ~SeedAbort /\ \A flush \in BOOLEAN : ~SeedStart(flush)
  BY DEF SeedFails, SeedAbort, SeedStart, Uncommitted, accountVars
<1>5. QED BY <1>1, <1>2, <1>3, <1>4 DEF Next, Others, SeedStep

\* What a commit of a worker does if it does anything.
LEMMA ListingCommitWrites ==
    ASSUME IInv, NEW w \in Workers, ListingCommit(w), ~UNCHANGED tables
    PROVE  /\ ~Idle(w) /\ txn[w].op \in {"create", "update", "delete"} /\ Failure(w) = "none"
           /\ txn[w].id \in Lids /\ txn[w].row \in Listing /\ txn[w].met \in BOOLEAN
           /\ users' = users /\ Finishing(w)
           /\ listings'[txn[w].id] = Written(txn[w])
           /\ \A l \in Lids \ {txn[w].id} : listings'[l] = listings[l]
<1>1. ~Fails(w)
  BY DEF Fails
<1>2. /\ ~Idle(w) /\ txn[w].op \in {"create", "update", "delete"} /\ Failure(w) = "none"
      /\ listings' = [listings EXCEPT ![txn[w].id] = Written(txn[w])] /\ users' = users
      /\ Ends(w)
  BY <1>1 DEF ListingCommit, CommitListing
<1>3. txn[w].id \in Lids /\ txn[w].row \in Listing /\ txn[w].met \in BOOLEAN
  BY <1>2, TxnFields DEF IInv, StateOK
<1>4. listings \in [Lids -> Listing \cup {NoRow}]
  BY DEF IInv, StateOK, TypeOK
<1>5. Finishing(w)
  BY <1>2 DEF Finishing, Idle, Ends
<1>6. QED BY <1>2, <1>3, <1>4, <1>5

LEMMA UserCommitWrites ==
    ASSUME IInv, NEW w \in Workers, UserCommit(w), ~UNCHANGED tables
    PROVE  /\ ~Idle(w) /\ txn[w].op \in {"change", "retire"} /\ (txn[w].op = "retire" => UserExists(txn[w].id))
           /\ txn[w].id \in Uids /\ txn[w].row \in User /\ txn[w].met \in BOOLEAN
           /\ listings' = listings /\ Finishing(w)
           /\ users'[txn[w].id] = SavedUser(txn[w])
           /\ \A u \in Uids \ {txn[w].id} : users'[u] = users[u]
<1>1. ~Fails(w)
  BY DEF Fails
<1>2. /\ ~Idle(w) /\ txn[w].op \in {"change", "retire"} /\ (txn[w].op = "retire" => UserExists(txn[w].id))
      /\ users' = [users EXCEPT ![txn[w].id] = SavedUser(txn[w])] /\ listings' = listings
      /\ Ends(w)
  BY <1>1 DEF UserCommit, CommitUser
<1>3. txn[w].id \in Uids /\ txn[w].row \in User /\ txn[w].met \in BOOLEAN
  BY <1>2, TxnFields DEF IInv, StateOK
<1>4. users \in [Uids -> User \cup {NoRow}]
  BY DEF IInv, StateOK, TypeOK
<1>5. Finishing(w)
  BY <1>2 DEF Finishing, Idle, Ends
<1>6. QED BY <1>2, <1>3, <1>4, <1>5

\* The admin site's actions.
LEMMA ListingActionWrites ==
    ASSUME IInv, NEW l \in Lids, Restore(l) \/ HardDelete(l)
    PROVE  /\ users' = users /\ \A k \in Lids \ {l} : listings'[k] = listings[k]
           /\ ListingExists(l)
           /\ listings'[l] # NoRow => /\ listings'[l].agent = listings[l].agent
                                      /\ listings'[l].title = listings[l].title
<1>1. listings \in [Lids -> Listing \cup {NoRow}]
  BY DEF IInv, StateOK, TypeOK
<1>2. CASE Restore(l)
  <2> DEFINE row == [listings[l] EXCEPT !.deleted = FALSE]
  <2>1. ListingExists(l) /\ users' = users /\ listings' = [listings EXCEPT ![l] = row]
    BY <1>2 DEF Restore, AdminRestore
  <2>2. row.agent = listings[l].agent /\ row.title = listings[l].title
    BY <2>1, RowNames DEF Listing
  <2> HIDE DEF row
  <2>3. QED BY <1>1, <2>1, <2>2
<1>3. CASE HardDelete(l)
  BY <1>1, <1>3 DEF HardDelete, AdminHardDelete
<1>4. QED BY <1>2, <1>3

LEMMA RemoveWrites ==
    ASSUME IInv, NEW u \in Uids, Remove(u)
    PROVE  /\ ~HasListings(u) /\ users'[u] = NoRow /\ \A v \in Uids \ {u} : users'[v] = users[v]
           /\ \A l \in Lids : ListingExists(l)' =>
                 /\ ListingExists(l) /\ listings'[l].agent = listings[l].agent
                 /\ listings'[l].title = listings[l].title
<1>1. /\ listings \in [Lids -> Listing \cup {NoRow}] /\ users \in [Uids -> User \cup {NoRow}]
      /\ users' = [users EXCEPT ![u] = NoRow] /\ ~HasListings(u)
      /\ listings' = [l \in Lids |-> Unstamped(listings[l], {u})]
  BY DEF IInv, StateOK, TypeOK, Remove, RemoveUser
<1>2. \A l \in Lids : ListingExists(l)' =>
        /\ ListingExists(l) /\ listings'[l].agent = listings[l].agent
        /\ listings'[l].title = listings[l].title
  BY <1>1, UnstampedRow DEF ListingExists
<1>3. users'[u] = NoRow /\ \A v \in Uids \ {u} : users'[v] = users[v]
  BY <1>1
<1>4. QED BY <1>1, <1>2, <1>3

LEMMA AddWrites ==
    ASSUME IInv, NEW u \in Uids, NEW name \in Names, Add(u, name)
    PROVE  /\ ~UserExists(u) /\ listings' = listings
           /\ \A v \in Uids \ {u} : users'[v] = users[v]
  BY DEF IInv, StateOK, TypeOK, Add, AddUser

-----------------------------------------------------------------------------
(* Deleted accounts and live agents.                                       *)

LEMMA StepKeepsOut == IInv /\ [Next]_vars => DeletedAccountsStayOut
<1> SUFFICES ASSUME IInv, [Next]_vars, NEW u \in Uids,
                    UserExists(u), users[u].deleted, LiveUser(u)'
             PROVE  \E w \in Workers : Finishing(w) /\ txn[w].id = u /\ txn[w].met
  BY DEF DeletedAccountsStayOut
<1>1. users'[u] # users[u] /\ ~UNCHANGED tables
  BY DEF LiveUser, UserExists, tables
<1>2. ASSUME NEW w \in Workers, ListingCommit(w) PROVE FALSE
  BY <1>1, <1>2, ListingCommitWrites
<1>3. ASSUME NEW w \in Workers, UserCommit(w)
      PROVE  Finishing(w) /\ txn[w].id = u /\ txn[w].met
  <2>1. /\ txn[w].id = u /\ ~Idle(w) /\ Finishing(w) /\ users'[u] = SavedUser(txn[w])
        /\ txn[w].op \in {"change", "retire"}
    BY <1>1, <1>3, UserCommitWrites
  <2>2. users[u] \in User
    BY DEF IInv, StateOK, TypeOK, UserExists
  <2>3. txn[w].op = "change"
    BY <2>1, <2>2 DEF SavedUser, LiveUser, User
  <2>4. ~txn[w].row.deleted
    BY <2>1, <2>3 DEF SavedUser, LiveUser
  <2>5. txn[w].met
    BY <2>1, <2>3, <2>4 DEF IInv, UnmetHold, Holds
  <2>6. QED BY <2>1, <2>5
<1>4. ASSUME NEW l \in Lids, Restore(l) \/ HardDelete(l) PROVE FALSE
  BY <1>1, <1>4, ListingActionWrites
<1>5. ASSUME NEW v \in Uids, Remove(v) PROVE FALSE
  BY <1>1, <1>5, RemoveWrites DEF LiveUser, UserExists
<1>6. ASSUME NEW v \in Uids, NEW name \in Names, Add(v, name) PROVE FALSE
  BY <1>1, <1>6, AddWrites
<1>7. ASSUME SeedCommit PROVE FALSE
  <2>1. Seeding /\ users' = SeenUsers
    BY <1>7 DEF SeedCommit, SeedDone, SeedAt
  <2>2. SeenUsers[u] # NoRow
    BY <2>1 DEF LiveUser, UserExists
  <2>3. SeenUsers[u] = users[u]
    BY <2>1, <2>2, SeenUserIs, SeenUser
  <2>4. QED BY <1>1, <2>1, <2>3
<1>8. QED BY <1>1, <1>2, <1>3, <1>4, <1>5, <1>6, <1>7, TableSteps

\* A soft deleted account stays shut out, for any users and requests, but for
\* a change form that loaded the user before the deletion.
THEOREM AccountsKeepOutEver == Spec => AccountsKeepOut
<1>1. IInv /\ [Next]_vars => [DeletedAccountsStayOut]_vars
  BY StepKeepsOut
<1>2. QED BY <1>1, Invariance, PTL DEF Spec, AccountsKeepOut

LEMMA StepKeepsLive == IInv /\ [Next]_vars => OrphansOnlyByOverlap(SeedCommit /\ seed.met)
<1> SUFFICES ASSUME IInv, [Next]_vars, NEW l \in Lids, Orphan(l)',
                    ~(Orphan(l) /\ listings'[l].agent = listings[l].agent)
             PROVE  (SeedCommit /\ seed.met) \/ \E w \in Workers : Finishing(w) /\ txn[w].met
  BY DEF OrphansOnlyByOverlap
<1> DEFINE LiveThen(u) == u \in Uids /\ users'[u] # NoRow /\ ~users'[u].deleted
<1>1. /\ ListingExists(l)' /\ ~LiveThen(listings'[l].agent)
      /\ ListingExists(l) /\ listings'[l].agent = listings[l].agent => LiveUser(listings[l].agent)
  BY DEF Orphan, LiveUser, UserExists
<1>2. ~UNCHANGED tables
  BY <1>1 DEF tables, ListingExists, LiveUser, UserExists
<1>3. ListingExists(l) => listings[l] \in Listing /\ UserExists(listings[l].agent)
  BY RowNames
<1>4. ASSUME NEW w \in Workers, ListingCommit(w)
      PROVE  Finishing(w) /\ txn[w].met
  <2>1. /\ ~Idle(w) /\ txn[w].op \in {"create", "update", "delete"} /\ Failure(w) = "none"
        /\ txn[w].id \in Lids /\ txn[w].row \in Listing /\ users' = users /\ Finishing(w)
        /\ listings'[txn[w].id] = Written(txn[w])
        /\ \A k \in Lids \ {txn[w].id} : listings'[k] = listings[k]
    BY <1>2, <1>4, ListingCommitWrites
  <2>2. \A u : LiveThen(u) <=> LiveUser(u)
    BY <2>1 DEF LiveUser, UserExists
  <2>3. txn[w].id = l
    BY <1>1, <2>1, <2>2 DEF ListingExists
  <2>4. CASE txn[w].op = "delete"
    <3>1. ListingExists(l)
      BY <2>1, <2>3, <2>4 DEF Failure
    <3>2. listings'[l].agent = listings[l].agent
      BY <1>3, <2>1, <2>3, <2>4, <3>1 DEF Written, Listing
    <3>3. QED BY <1>1, <2>2, <3>1, <3>2
  <2>5. CASE txn[w].op # "delete"
    <3>1. listings'[l] = txn[w].row
      BY <2>1, <2>3, <2>5 DEF Written
    <3> SUFFICES ASSUME ~txn[w].met PROVE FALSE
      BY <2>1
    <3>2. Holds(txn[w])
      BY <2>1 DEF IInv, UnmetHold
    <3>3. ~LiveUser(txn[w].row.agent)
      BY <1>1, <2>2, <3>1
    <3>4. txn[w].op = "update" /\ ListingExists(l) /\ txn[w].row.agent = listings[l].agent
      BY <2>1, <2>3, <2>5, <3>2, <3>3 DEF Holds
    <3>5. QED BY <1>1, <3>1, <3>3, <3>4
  <2>6. QED BY <2>4, <2>5
<1>5. ASSUME NEW w \in Workers, UserCommit(w)
      PROVE  Finishing(w) /\ txn[w].met
  <2> DEFINE u == txn[w].id
  <2>1. /\ ~Idle(w) /\ txn[w].op \in {"change", "retire"} /\ u \in Uids /\ txn[w].row \in User
        /\ listings' = listings /\ Finishing(w) /\ users'[u] = SavedUser(txn[w])
        /\ \A v \in Uids \ {u} : users'[v] = users[v]
    BY <1>2, <1>5, UserCommitWrites
  <2>2. ListingExists(l) /\ listings'[l] = listings[l] /\ LiveUser(listings[l].agent)
    BY <1>1, <2>1 DEF ListingExists
  <2>3. listings[l].agent = u
    BY <1>1, <1>3, <2>1, <2>2 DEF LiveUser, UserExists
  <2> SUFFICES ASSUME ~txn[w].met PROVE FALSE
    BY <2>1
  <2>4. Holds(txn[w])
    BY <2>1 DEF IInv, UnmetHold
  <2>5. CASE txn[w].op = "retire"
    BY <2>2, <2>3, <2>4, <2>5 DEF Holds, HasListings
  <2>6. CASE txn[w].op = "change"
    <3>1. users'[u] = txn[w].row /\ users'[u] # NoRow
      BY <2>1, <2>6, RowTypes DEF SavedUser
    <3>2. ~users'[u].deleted
      BY <2>2, <2>3, <2>4, <2>6, <3>1 DEF Holds, LiveUser
    <3>3. QED BY <1>1, <2>1, <2>2, <2>3, <3>1, <3>2 DEF LiveUser, UserExists
  <2>7. QED BY <2>1, <2>5, <2>6
<1>6. ASSUME NEW k \in Lids, Restore(k) \/ HardDelete(k) PROVE FALSE
  <2>1. /\ users' = users /\ \A x \in Lids \ {k} : listings'[x] = listings[x]
        /\ ListingExists(k) /\ (listings'[k] # NoRow => listings'[k].agent = listings[k].agent)
    BY <1>6, ListingActionWrites
  <2>2. ListingExists(l) /\ listings'[l].agent = listings[l].agent
    BY <1>1, <2>1 DEF ListingExists
  <2>3. QED BY <1>1, <2>1, <2>2 DEF LiveUser, UserExists
<1>7. ASSUME NEW u \in Uids, Remove(u) PROVE FALSE
  <2>1. /\ ~HasListings(u) /\ \A v \in Uids \ {u} : users'[v] = users[v]
        /\ ListingExists(l) /\ listings'[l].agent = listings[l].agent
    BY <1>1, <1>7, RemoveWrites
  <2>2. listings[l].agent # u /\ listings[l].agent \in Uids
    BY <1>3, <2>1 DEF HasListings, Listing
  <2>3. QED BY <1>1, <2>1, <2>2 DEF LiveUser, UserExists
<1>8. ASSUME NEW u \in Uids, NEW name \in Names, Add(u, name) PROVE FALSE
  <2>1. ~UserExists(u) /\ listings' = listings /\ \A v \in Uids \ {u} : users'[v] = users[v]
    BY <1>8, AddWrites
  <2>2. ListingExists(l) /\ listings'[l] = listings[l]
    BY <1>1, <2>1 DEF ListingExists
  <2>3. listings[l].agent \in Uids \ {u}
    BY <1>3, <2>1, <2>2 DEF UserExists
  <2>4. QED BY <1>1, <2>1, <2>2, <2>3 DEF LiveUser, UserExists
<1>9. ASSUME SeedCommit, ~seed.met PROVE FALSE
  <2>1. Seeding /\ users' = SeenUsers /\ listings' = SeenListings
    BY <1>9 DEF SeedCommit, SeedDone, SeedAt
  <2>2. SeenListings[l] # NoRow
    BY <1>1, <2>1 DEF ListingExists
  <2>3. CASE l \in NewListings
    <3>1. SeenListings[l] = seed.newListings[l]
      BY <2>1, <2>2, <2>3, SeenListing
    <3>2. PICK n \in 1..Len(seed.agents) : seed.agents[n] = SeenListings[l].agent
      BY <2>1, <2>3, <3>1 DEF IInv, RemovedRowsStay
    <3>3. FoundAccount(DemoNames[n], SeenListings[l].agent)
      BY <1>9, <2>1, <3>2 DEF IInv, UndisturbedRuns
    <3>4. SeenListings[l].agent \in Uids
      BY <2>1, <2>2, SeenListing DEF Listing
    <3>5. QED BY <1>1, <2>1, <3>3, <3>4 DEF FoundAccount, LiveUser, UserExists
  <2>4. CASE l \notin NewListings
    <3>1. /\ ListingExists(l) /\ l \notin seed.goneListings
          /\ SeenListings[l].agent = listings[l].agent
      BY <2>1, <2>2, <2>4, SeenListing
    <3>2. LiveUser(listings[l].agent) /\ listings[l].agent \notin seed.goneUsers
      BY <1>1, <2>1, <3>1 DEF IInv, RemovedRowsStay
    <3>3. SeenUsers[listings[l].agent] = users[listings[l].agent]
      BY <2>1, <3>2, SeenUser DEF LiveUser, UserExists
    <3>4. QED BY <1>1, <2>1, <3>1, <3>2, <3>3 DEF LiveUser, UserExists
  <2>5. QED BY <2>3, <2>4
<1>10. QED BY <1>2, <1>4, <1>5, <1>6, <1>7, <1>8, <1>9, TableSteps

\* The agent of a listing is a live user unless a write overlapped, for any
\* users, requests and runs of the command.
THEOREM AgentsAreLiveEver == Spec => AgentsAreLive
<1>1. IInv /\ [Next]_vars => [OrphansOnlyByOverlap(SeedCommit /\ seed.met)]_vars
  BY StepKeepsLive
<1>2. QED BY <1>1, Invariance, PTL DEF Spec, AgentsAreLive

-----------------------------------------------------------------------------
(* What the command does.                                                  *)

\* Two titles of the stream with the same index are the same.
LEMMA DrawnAlike ==
    ASSUME NEW s \in Drawable \ {OwnTitle}, NEW t \in Drawable \ {OwnTitle}, s[1] = t[1]
    PROVE  s = t
<1>1. PICK m \in 1..MaxCount : s = <<m, 2 * (m - 1)>>
  BY DEF Drawable
<1>2. PICK n \in 1..MaxCount : t = <<n, 2 * (n - 1)>>
  BY DEF Drawable
<1>3. m = n
  BY <1>1, <1>2
<1>4. QED BY <1>1, <1>2, <1>3

\* A step that gives nobody a title of the stream leaves no new pair.
LEMMA TitlesStay ==
    ASSUME NEW k \in Lids, NEW l \in Lids, SameIndex(k, l)',
           \A x \in Lids : ListingExists(x)' /\ listings'[x].title # OwnTitle =>
               ListingExists(x) /\ listings[x].title = listings'[x].title
    PROVE  SameIndex(k, l)
  BY DEF SameIndex

LEMMA StepDuplicates ==
    ASSUME IInv, [Next]_vars, NEW k \in Lids, NEW l \in Lids, SameIndex(k, l)', ~SameIndex(k, l)
    PROVE  \/ SeedCommit /\ seed.met
           \/ \E w \in Workers : Finishing(w) /\ txn[w].met
<1> DEFINE Stay == \A x \in Lids : ListingExists(x)' /\ listings'[x].title # OwnTitle =>
                       ListingExists(x) /\ listings[x].title = listings'[x].title
<1>1. ~Stay
  BY TitlesStay
<1>2. ~UNCHANGED tables
  BY <1>1 DEF tables, ListingExists
<1>3. ASSUME NEW w \in Workers, ListingCommit(w)
      PROVE  Finishing(w) /\ txn[w].met
  <2>1. /\ ~Idle(w) /\ txn[w].op \in {"create", "update", "delete"} /\ Failure(w) = "none"
        /\ txn[w].id \in Lids /\ txn[w].row \in Listing /\ Finishing(w)
        /\ listings'[txn[w].id] = Written(txn[w])
        /\ \A x \in Lids \ {txn[w].id} : listings'[x] = listings[x]
    BY <1>2, <1>3, ListingCommitWrites
  <2> SUFFICES ASSUME ~txn[w].met PROVE FALSE
    BY <2>1
  <2>2. Holds(txn[w])
    BY <2>1 DEF IInv, UnmetHold
  <2>3. CASE txn[w].op = "delete"
    <3>1. ListingExists(txn[w].id)
      BY <2>1, <2>3 DEF Failure
    <3>2. listings'[txn[w].id].title = listings[txn[w].id].title
      BY <2>1, <2>3, <3>1, RowNames DEF Written, Listing
    <3>3. Stay
      BY <2>1, <3>1, <3>2 DEF ListingExists
    <3>4. QED BY <1>1, <3>3
  <2>4. CASE txn[w].op # "delete"
    <3>1. listings'[txn[w].id] = txn[w].row
      BY <2>1, <2>4 DEF Written
    <3>2. \/ txn[w].row.title = OwnTitle
          \/ ListingExists(txn[w].id) /\ txn[w].row.title = listings[txn[w].id].title
      BY <2>1, <2>2, <2>4 DEF Holds
    <3>3. Stay
      BY <2>1, <3>1, <3>2 DEF ListingExists
    <3>4. QED BY <1>1, <3>3
  <2>5. QED BY <2>3, <2>4
<1>4. ASSUME NEW w \in Workers, UserCommit(w) PROVE FALSE
  <2>1. listings' = listings
    BY <1>2, <1>4, UserCommitWrites
  <2>2. QED BY <1>1, <2>1 DEF ListingExists
<1>5. ASSUME NEW x \in Lids, Restore(x) \/ HardDelete(x) PROVE FALSE
  <2>1. /\ \A y \in Lids \ {x} : listings'[y] = listings[y]
        /\ ListingExists(x) /\ (listings'[x] # NoRow => listings'[x].title = listings[x].title)
    BY <1>5, ListingActionWrites
  <2>2. QED BY <1>1, <2>1 DEF ListingExists
<1>6. ASSUME NEW u \in Uids, Remove(u) PROVE FALSE
  <2>1. \A x \in Lids : ListingExists(x)' =>
           ListingExists(x) /\ listings'[x].title = listings[x].title
    BY <1>6, RemoveWrites
  <2>2. QED BY <1>1, <2>1
<1>7. ASSUME NEW u \in Uids, NEW name \in Names, Add(u, name) PROVE FALSE
  <2>1. listings' = listings
    BY <1>7, AddWrites
  <2>2. QED BY <1>1, <2>1 DEF ListingExists
<1>8. ASSUME SeedCommit, ~seed.met PROVE FALSE
  <2>1. Seeding /\ listings' = SeenListings
    BY <1>8 DEF SeedCommit, SeedDone, SeedAt
  <2>2. /\ k # l /\ SeenListings[k] # NoRow /\ SeenListings[l] # NoRow
        /\ SeenListings[k].title # OwnTitle /\ SeenListings[l].title # OwnTitle
        /\ SeenListings[k].title[1] = SeenListings[l].title[1]
    BY <2>1 DEF SameIndex, ListingExists
  <2>3. \A x \in Lids : SeenListings[x] # NoRow => SeenListings[x].title \in Drawable
    BY <2>1, SeenListing DEF IInv, TitlesAreDrawn
  <2>4. SeenListings[k].title = SeenListings[l].title
    BY <2>2, <2>3, DrawnAlike
  <2>5. k \notin NewListings /\ l \notin NewListings
    BY <1>8, <2>1, <2>2, <2>4, SeenListing DEF IInv, UndisturbedRuns
  <2>6. /\ ListingExists(k) /\ SeenListings[k].title = listings[k].title
        /\ ListingExists(l) /\ SeenListings[l].title = listings[l].title
    BY <2>1, <2>2, <2>5, SeenListing
  <2>7. QED BY <2>2, <2>6 DEF SameIndex
<1>9. QED BY <1>2, <1>3, <1>4, <1>5, <1>6, <1>7, <1>8, TableSteps

\* No run of the command adds a listing for an index that has one, whatever its
\* --count and whatever agents and the admin site did to the listings before,
\* unless somebody wrote next to it (seed_demo.py, _create_listing).
THEOREM DuplicatesOnlyByOverlapEver == Spec => DuplicatesOnlyByOverlap
<1>1. IInv /\ [Next]_vars =>
        [\A k, l \in Lids : SameIndex(k, l)' /\ ~SameIndex(k, l) =>
            \/ SeedCommit /\ seed.met
            \/ \E w \in Workers : Finishing(w) /\ txn[w].met]_vars
  BY StepDuplicates
<1>2. QED BY <1>1, Invariance, PTL DEF Spec, DuplicatesOnlyByOverlap

LEMMA CommitDelivers ==
    ASSUME IInv, SeedCommit, ~seed.met
    PROVE  /\ \A n \in 1..Len(DemoNames) : \E u \in Uids :
                 LiveUser(u)' /\ users'[u].username = DemoNames[n]
           /\ \A i \in 1..seed.count : \E l \in Lids :
                 ListingExists(l)' /\ listings'[l].title # OwnTitle /\ listings'[l].title[1] = i
           /\ \A l \in Lids : ListingExists(l)' /\ ~ListingExists(l) =>
                 \E u \in Uids : listings'[l].agent = u /\ LiveUser(u)'
<1>1. /\ Seeding /\ users' = SeenUsers /\ listings' = SeenListings /\ seed \in SeedRun
      /\ seed.pc = "listings" /\ seed.index > seed.count /\ UndisturbedRuns
      /\ Len(seed.agents) = Len(DemoNames)
  BY RunFields DEF SeedCommit, SeedDone, SeedAt, IInv, StateOK, RunsProgress
<1>2. /\ seed.agents \in Seq(Uids) /\ seed.index \in 1..(MaxCount + 1) /\ seed.count \in 1..MaxCount
      /\ MaxCount \in Nat
  BY <1>1, SeedAssumption DEF SeedRun
<1>3. ASSUME NEW n \in 1..Len(seed.agents), NEW u, u = seed.agents[n]
      PROVE  u \in Uids /\ LiveUser(u)' /\ users'[u].username = DemoNames[n]
  <2>1. u \in Uids
    BY <1>2, <1>3
  <2>2. FoundAccount(DemoNames[n], u)
    BY <1>1, <1>3 DEF UndisturbedRuns
  <2>3. QED BY <1>1, <2>1, <2>2 DEF FoundAccount, LiveUser, UserExists
<1>4. ASSUME NEW n \in 1..Len(DemoNames)
      PROVE  \E u \in Uids : LiveUser(u)' /\ users'[u].username = DemoNames[n]
  BY <1>1, <1>3
<1>5. ASSUME NEW i \in 1..seed.count
      PROVE  \E l \in Lids :
                ListingExists(l)' /\ listings'[l].title # OwnTitle /\ listings'[l].title[1] = i
  <2>1. i \in 1..(seed.index - 1) /\ i \in 1..MaxCount
    BY <1>1, <1>2
  <2>2. Known(<<i, 2 * (i - 1)>>)
    BY <1>1, <2>1 DEF UndisturbedRuns
  <2>3. <<i, 2 * (i - 1)>> # OwnTitle
    BY <2>1, SeedAssumption
  <2>4. PICK l \in Lids : SeenListings[l] # NoRow /\ SeenListings[l].title = <<i, 2 * (i - 1)>>
    BY <2>2 DEF Known
  <2>5. SeenListings[l].title # OwnTitle /\ SeenListings[l].title[1] = i
    BY <2>3, <2>4
  <2>6. QED BY <1>1, <2>4, <2>5 DEF ListingExists
<1>6. ASSUME NEW l \in Lids, ListingExists(l)', ~ListingExists(l)
      PROVE  \E u \in Uids : listings'[l].agent = u /\ LiveUser(u)'
  <2>1. SeenListings[l] # NoRow
    BY <1>1, <1>6 DEF ListingExists
  <2>2. l \in NewListings /\ SeenListings[l] = seed.newListings[l]
    BY <1>1, <1>6, <2>1, SeenListing
  <2>3. PICK n \in 1..Len(seed.agents) : seed.agents[n] = seed.newListings[l].agent
    BY <1>1, <2>2 DEF IInv, RemovedRowsStay
  <2>4. QED BY <1>1, <1>3, <2>2, <2>3
<1>7. QED BY <1>4, <1>5, <1>6

\* A run of the command that nobody wrote next to and that commits has every
\* demo account live and a listing of a live agent for every index it was asked
\* for, for any number of accounts and listings (seed_demo.py, handle).
THEOREM SeedDeliversEver == Spec => SeedDelivers
<1>1. IInv /\ [Next]_vars =>
        [SeedCommit /\ ~seed.met =>
          /\ \A n \in 1..Len(DemoNames) : \E u \in Uids :
                LiveUser(u)' /\ users'[u].username = DemoNames[n]
          /\ \A i \in 1..seed.count : \E l \in Lids :
                ListingExists(l)' /\ listings'[l].title # OwnTitle /\ listings'[l].title[1] = i
          /\ \A l \in Lids : ListingExists(l)' /\ ~ListingExists(l) =>
                \E u \in Uids : listings'[l].agent = u /\ LiveUser(u)']_vars
  BY CommitDelivers
<1>2. QED BY <1>1, Invariance, PTL DEF Spec, SeedDelivers

LEMMA FailsForNames ==
    ASSUME IInv, SeedFails, ~seed.met
    PROVE  \E u \in Uids, n \in 1..Len(DemoNames) :
              Squatter(u, DemoNames[n]) /\ (seed.flush => users[u].kind = "admin")
<1>1. Seeding /\ seed \in SeedRun /\ UndisturbedRuns
  BY RunFields DEF SeedFails, SeedDone, SeedAt, IInv, StateOK
<1>2. ASSUME SeedAt("flush_users"), Protected({u \in Uids : Flushable(u)}) PROVE FALSE
  <2>1. PICK l \in Lids : SeenListings[l] # NoRow
    BY <1>2 DEF Protected
  <2>2. l \notin seed.goneListings /\ (l \in NewListings \/ ListingExists(l))
    BY <1>1, <2>1, SeenListing
  <2>3. l \notin NewListings
    BY <1>1, <1>2 DEF IInv, RunsProgress, SeedAt
  <2>4. QED BY <1>1, <1>2, <2>2, <2>3 DEF UndisturbedRuns, SeedAt
<1>3. ASSUME SeedDone, ~SeedReferencesHold PROVE FALSE
  <2>1. PICK l \in NewListings : SeenUsers[seed.newListings[l].agent] = NoRow
    BY <1>3 DEF SeedReferencesHold
  <2>2. PICK n \in 1..Len(seed.agents) : seed.agents[n] = seed.newListings[l].agent
    BY <1>1, <2>1 DEF IInv, RemovedRowsStay
  <2>3. FoundAccount(DemoNames[n], seed.agents[n])
    BY <1>1 DEF UndisturbedRuns
  <2>4. QED BY <2>1, <2>2, <2>3 DEF FoundAccount
<1>4. ASSUME SeedAt("accounts"), Len(seed.agents) < Len(DemoNames),
             ~\E u \in Uids : FoundAccount(SeedName, u), AccountClash(SeedName)
      PROVE  \E u \in Uids, n \in 1..Len(DemoNames) :
                Squatter(u, DemoNames[n]) /\ (seed.flush => users[u].kind = "admin")
  <2>1. PICK u \in Uids : /\ SeenUsers[u] # NoRow
                          /\ SeedName \in {SeenUsers[u].username, SeenUsers[u].email}
    BY <1>4 DEF AccountClash
  <2>2. ~FoundAccount(SeedName, u)
    BY <1>4
  <2>3. u \notin NewUsers
    BY <1>1, <2>1, <2>2, SeenUserIs DEF IInv, NewAccountsAreOwn, FoundAccount
  <2>4. UserExists(u) /\ SeenUsers[u] = users[u] /\ u \notin seed.goneUsers
    BY <1>1, <2>1, <2>3, SeenUserIs
  <2>5. Squatter(u, SeedName)
    BY <2>1, <2>2, <2>4 DEF Squatter, FoundAccount
  <2>6. seed.flush => users[u].kind = "admin"
    BY <1>1, <1>4, <2>4 DEF UndisturbedRuns, SeedAt, Flushable
  <2>7. Len(seed.agents) + 1 \in 1..Len(DemoNames)
    BY <1>1, <1>4, NamesOfRuns DEF SeedRun
  <2>8. QED BY <2>5, <2>6, <2>7 DEF SeedName
<1>5. QED BY <1>2, <1>3, <1>4 DEF SeedFails

\* A run that nobody wrote next to fails only for an account that has a name it
\* needs, and with --flush only for one that has the admin role.
THEOREM SeedFailsOnlyForNamesEver == Spec => SeedFailsOnlyForNames
<1>1. IInv /\ [Next]_vars =>
        [SeedFails =>
          \/ seed.met
          \/ \E u \in Uids, n \in 1..Len(DemoNames) :
                Squatter(u, DemoNames[n]) /\ (seed.flush => users[u].kind = "admin")]_vars
  BY FailsForNames
<1>2. QED BY <1>1, Invariance, PTL DEF Spec, SeedFailsOnlyForNames
=============================================================================
