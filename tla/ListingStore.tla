---------------------------- MODULE ListingStore ----------------------------
(***************************************************************************)
(* The listings table and the requests that write it: the three write      *)
(* operations of ListingService (create, update, delete), the admin site's *)
(* forms and bulk actions, and the row locks PostgreSQL takes for them     *)
(* under READ COMMITTED, the isolation Django runs with by default.        *)
(*                                                                         *)
(* A write request is not one step.  The service reads a row, decides on   *)
(* that snapshot, and only then issues the statement that writes: `txn`    *)
(* holds the loaded instance of a request between those steps.  An UPDATE  *)
(* blocks while another transaction holds the row; its effect is visible   *)
(* to the others at COMMIT.                                                *)
(***************************************************************************)
EXTENDS Naturals, FiniteSets

CONSTANTS
    Ids,            \* listing primary keys (uuid4, never handed out twice)
    Users,          \* live user accounts
    Admins,         \* the users UserService.is_admin accepts
    Fields,         \* the writable columns of a listing other than its agent
    LocationField,  \* the column a PUT may not leave out
    Values,         \* values of a column
    Workers,        \* server threads, each serving one request at a time
    AdminSite,      \* does anybody use the admin site?
    NoUser, NoRow, NoTxn, NoWorker

ASSUME StoreAssumption ==
    /\ Admins \subseteq Users
    /\ LocationField \in Fields
    /\ AdminSite \in BOOLEAN
    /\ NoUser \notin Users
    /\ NoWorker \notin Workers

VARIABLES
    rows,       \* the committed table: Ids -> Row or NoRow
    issued,     \* ids that uuid4 has handed out
    lock,       \* the transaction that holds each row, if any
    txn,        \* the write request each worker has in progress
    granted     \* history: the users each listing was ever given to

vars == <<rows, issued, lock, txn, granted>>

-----------------------------------------------------------------------------
MaybeUser == Users \cup {NoUser}

Row == [agent : Users, fields : [Fields -> Values],
        createdBy : MaybeUser, updatedBy : MaybeUser,
        deleted : BOOLEAN, deletedBy : MaybeUser]

\* A request past its checks.  `inst` is the model instance it loaded or
\* built, `actor` is NoUser for the admin site, which passes no user on.
Txn == [pc : {"save", "insert", "invalidate", "commit"},
        op : {"create", "update", "delete"},
        actor : MaybeUser, id : Ids, supplied : SUBSET Fields, inst : Row]

\* Error answers given before anything is written.
Refusals == {"unauthenticated", "invalid", "denied", "not_found"}

ASSUME NullAssumption == NoRow \notin Row /\ NoTxn \notin Txn

TypeOK ==
    /\ rows \in [Ids -> Row \cup {NoRow}]
    /\ issued \in SUBSET Ids
    /\ lock \in [Ids -> Workers \cup {NoWorker}]
    /\ txn \in [Workers -> Txn \cup {NoTxn}]
    /\ granted \in [Ids -> SUBSET Users]

-----------------------------------------------------------------------------
(* What the code asks of a row and a user.                                 *)

Exists(i) == rows[i] # NoRow

\* Mutant of Live: the service reads through all_objects.
LiveOrDeleted(i) == Exists(i)
Live(i) == Exists(i) /\ ~rows[i].deleted

IsAdmin(u) == u \in Admins

\* Mutant of CanMutate: any authenticated user may write any listing.
CanMutateAll(u, row) == row.agent \in Users
CanMutate(u, row) == row.agent = u \/ IsAdmin(u)

\* Mutant of MayAssign: the requested agent is taken from anybody.
MayAssignAnybody(u, wanted) == u \in Users /\ wanted \in MaybeUser

\* `wanted` is NoUser when the payload names no agent.
MayAssign(u, wanted) == wanted \in {NoUser, u} \/ IsAdmin(u)

\* Mutant of ResolveAgent: no default to the actor.
ResolveAgentAsSent(u, wanted) == IF u = wanted THEN u ELSE wanted
ResolveAgent(u, wanted) == IF wanted = NoUser THEN u ELSE wanted

\* Mutant of MayReassign: update takes the agent it is sent.
MayReassignFreely(u, wanted, row) == u \in Users /\ wanted \in MaybeUser /\ row \in Row

MayReassign(u, wanted, row) ==
    \/ wanted = NoUser
    \/ (wanted = row.agent \/ IsAdmin(u)) /\ MayAssign(u, wanted)

\* Mutants of Edited: the save stamps the creator too, it clears the deletion
\* columns, it resets the columns the payload leaves out.
EditedAsCreator(row, new, wanted, u) ==
    [row EXCEPT !.fields = [f \in Fields |-> IF f \in DOMAIN new THEN new[f] ELSE @[f]],
                !.agent = IF wanted = NoUser THEN @ ELSE wanted,
                !.createdBy = u]
EditedUndeleting(row, new, wanted, u) ==
    [row EXCEPT !.fields = [f \in Fields |-> IF f \in DOMAIN new THEN new[f] ELSE @[f]],
                !.agent = IF wanted = NoUser THEN @ ELSE wanted,
                !.updatedBy = u, !.deleted = FALSE, !.deletedBy = NoUser]
EditedFromDefaults(row, new, wanted, u) ==
    [row EXCEPT !.fields = [f \in Fields |-> IF f \in DOMAIN new THEN new[f]
                                             ELSE CHOOSE v \in Values : TRUE],
                !.agent = IF wanted = NoUser THEN @ ELSE wanted,
                !.updatedBy = u]

Edited(row, new, wanted, u) ==
    [row EXCEPT !.fields = [f \in Fields |-> IF f \in DOMAIN new THEN new[f] ELSE @[f]],
                !.agent = IF wanted = NoUser THEN @ ELSE wanted,
                !.updatedBy = u]

NewRow(agent, new, u) ==
    [agent |-> agent, fields |-> new, createdBy |-> u, updatedBy |-> u,
     deleted |-> FALSE, deletedBy |-> NoUser]

SoftDeleted(row, u) == [row EXCEPT !.deleted = TRUE, !.deletedBy = u]

\* Mutant of Restored: the deleter stays on the restored row.
RestoredByHalf(row) == [row EXCEPT !.deleted = FALSE]
Restored(row) == [row EXCEPT !.deleted = FALSE, !.deletedBy = NoUser]

\* The row a transaction leaves behind: save(update_fields=...) writes the
\* deletion columns only, a plain save() writes every column of the instance.
Written(t) == IF t.op = "delete" THEN SoftDeleted(rows[t.id], t.actor) ELSE t.inst

-----------------------------------------------------------------------------
(* Requests: from an idle worker to a refusal, or to a transaction.        *)

Idle(w) == txn[w] = NoTxn

\* A refused request has touched nothing and its worker is idle again.
Answer(w, status) == Idle(w) /\ status \in Refusals /\ UNCHANGED vars

Begin(w, first, op, actor, id, supplied, inst) ==
    /\ txn' = [txn EXCEPT ![w] =
         [pc |-> first, op |-> op, actor |-> actor, id |-> id,
          supplied |-> supplied, inst |-> inst]]
    /\ UNCHANGED <<rows, lock, granted>>

\* No or bad credentials, or a payload the serializer rejects: the service
\* is never called.
Refuse(w) ==
    /\ Idle(w)
    /\ \E status \in {"unauthenticated", "invalid"} : Answer(w, status)

Create(w, actor, new, wanted) ==
    /\ Idle(w)
    /\ \/ /\ ~MayAssign(actor, wanted)
          /\ Answer(w, "denied")
       \/ /\ MayAssign(actor, wanted)
          /\ \E i \in Ids \ issued :
                /\ issued' = issued \cup {i}
                /\ Begin(w, "insert", "create", actor, i, Fields,
                         NewRow(ResolveAgent(actor, wanted), new, actor))

\* PUT and PATCH: every check reads the row loaded here and never again.
Update(w, actor, i, partial, new, wanted) ==
    /\ Idle(w)
    /\ \/ ~Live(i) /\ Answer(w, "not_found")
       \/ Live(i) /\ ~CanMutate(actor, rows[i]) /\ Answer(w, "denied")
       \/ /\ Live(i) /\ CanMutate(actor, rows[i])
          /\ ~partial /\ LocationField \notin DOMAIN new
          /\ Answer(w, "invalid")
       \/ /\ Live(i) /\ CanMutate(actor, rows[i])
          /\ partial \/ LocationField \in DOMAIN new
          /\ \/ /\ ~MayReassign(actor, wanted, rows[i])
                /\ Answer(w, "denied")
             \/ /\ MayReassign(actor, wanted, rows[i])
                /\ Begin(w, "save", "update", actor, i, DOMAIN new,
                         Edited(rows[i], new, wanted, actor))
                /\ UNCHANGED issued

\* soft_delete saves the deletion columns, unless its instance is deleted.
SoftDelete(w, actor, i) ==
    \/ rows[i].deleted /\ UNCHANGED vars
    \/ /\ ~rows[i].deleted
       /\ Begin(w, "save", "delete", actor, i, {}, rows[i])
       /\ UNCHANGED issued

Delete(w, actor, i) ==
    /\ Idle(w)
    /\ \/ ~Live(i) /\ Answer(w, "not_found")
       \/ Live(i) /\ ~CanMutate(actor, rows[i]) /\ Answer(w, "denied")
       \/ Live(i) /\ CanMutate(actor, rows[i]) /\ SoftDelete(w, actor, i)

-----------------------------------------------------------------------------
(* The admin site.  Its forms save the model directly: no ownership rule,  *)
(* no audit stamp.  Its queryset is all_objects, deleted rows included.    *)

AdminAdd(w, agent, new) ==
    /\ AdminSite /\ Idle(w)
    /\ \E i \in Ids \ issued :
          /\ issued' = issued \cup {i}
          /\ Begin(w, "insert", "create", NoUser, i, Fields, NewRow(agent, new, NoUser))

AdminChange(w, i, agent, new) ==
    /\ AdminSite /\ Idle(w) /\ Exists(i)
    /\ Begin(w, "save", "update", NoUser, i, Fields,
             Edited(rows[i], new, agent, rows[i].updatedBy))
    /\ UNCHANGED issued

\* The form's delete button reaches BaseAbstractModel.delete.
AdminDelete(w, i) == AdminSite /\ Idle(w) /\ Exists(i) /\ SoftDelete(w, NoUser, i)

\* A bulk action is one statement: it waits for the rows it matches.
AdminStatement(w, S) ==
    /\ AdminSite /\ Idle(w) /\ S # {}
    /\ \A i \in S : Exists(i) /\ lock[i] = NoWorker
    /\ UNCHANGED <<issued, lock, txn, granted>>

AdminRestore(w, S) ==
    /\ AdminStatement(w, S)
    /\ \A i \in S : rows[i].deleted
    /\ rows' = [i \in Ids |-> IF i \in S THEN Restored(rows[i]) ELSE rows[i]]

\* hard_delete_selected, and the admin's own "delete selected": all_objects
\* has no soft delete, so both remove the rows.  The former then unpacks the
\* number hard_delete() returns as a pair and fails with a TypeError: an error
\* page, after the statement has committed on its own.
AdminHardDelete(w, S) ==
    /\ AdminStatement(w, S)
    /\ rows' = [i \in Ids |-> IF i \in S THEN NoRow ELSE rows[i]]

-----------------------------------------------------------------------------
(* The rest of a transaction.                                              *)

At(w, pc) == txn[w] # NoTxn /\ txn[w].pc = pc

Released(w) == [i \in Ids |-> IF lock[i] = w THEN NoWorker ELSE lock[i]]

\* Only the service clears the search cache after it wrote.
AfterWrite(t) == IF t.actor = NoUser THEN "commit" ELSE "invalidate"

Wrote(w) ==
    /\ lock' = [lock EXCEPT ![txn[w].id] = w]
    /\ txn' = [txn EXCEPT ![w].pc = AfterWrite(txn[w])]
    /\ UNCHANGED <<rows, issued, granted>>

Finish(w) ==
    /\ txn' = [txn EXCEPT ![w] = NoTxn]
    /\ lock' = Released(w)
    /\ UNCHANGED issued

\* Mutant of Rollback: the transaction is left open when its request ends.
RollbackForgotten(w) == txn' = [txn EXCEPT ![w] = NoTxn] /\ UNCHANGED <<rows, granted, issued, lock>>

Rollback(w) == Finish(w) /\ UNCHANGED <<rows, granted>>

\* UPDATE ... WHERE id.  A row that is gone matches nothing: a plain save()
\* then falls back to INSERT, a save(update_fields=...) raises
\* DatabaseError, a 500.
Save(w) ==
    /\ At(w, "save")
    /\ \/ Exists(txn[w].id) /\ lock[txn[w].id] = NoWorker /\ Wrote(w)
       \/ /\ ~Exists(txn[w].id) /\ txn[w].op = "update"
          /\ txn' = [txn EXCEPT ![w].pc = "insert"]
          /\ UNCHANGED <<rows, issued, lock, granted>>
       \/ ~Exists(txn[w].id) /\ txn[w].op = "delete" /\ Rollback(w)

\* INSERT waits for a transaction that holds the same key, and fails with an
\* IntegrityError, a 409, if the key is there then.
Insert(w) ==
    /\ At(w, "insert")
    /\ lock[txn[w].id] = NoWorker
    /\ \/ ~Exists(txn[w].id) /\ Wrote(w)
       \/ Exists(txn[w].id) /\ Rollback(w)

\* _invalidate_search_cache runs before the transaction commits.
Invalidate(w) ==
    /\ At(w, "invalidate")
    /\ txn' = [txn EXCEPT ![w].pc = "commit"]
    /\ UNCHANGED <<rows, issued, lock, granted>>

\* History only: an administrator may give a listing to anybody, other users
\* give themselves the listings they create.
Grants(t) ==
    IF t.op = "delete" THEN {}
    ELSE IF t.actor = NoUser \/ IsAdmin(t.actor) THEN {t.inst.agent}
    ELSE IF t.op = "create" THEN {t.actor} ELSE {}

Commit(w) ==
    /\ At(w, "commit")
    /\ rows' = [rows EXCEPT ![txn[w].id] = Written(txn[w])]
    /\ granted' = [granted EXCEPT ![txn[w].id] = @ \cup Grants(txn[w])]
    /\ Finish(w)

\* The process dies, the connection is lost, or anything else raises: the
\* transaction rolls back.
Abort(w) == ~Idle(w) /\ Rollback(w)

-----------------------------------------------------------------------------
Init ==
    /\ rows = [i \in Ids |-> NoRow]
    /\ issued = {}
    /\ lock = [i \in Ids |-> NoWorker]
    /\ txn = [w \in Workers |-> NoTxn]
    /\ granted = [i \in Ids |-> {}]

Payload == [Fields -> Values]
PartialPayload == UNION {[S -> Values] : S \in SUBSET Fields}

ApiRequest(w) ==
    \/ Refuse(w)
    \/ \E actor \in Users, new \in Payload, wanted \in MaybeUser :
          Create(w, actor, new, wanted)
    \/ \E actor \in Users, i \in Ids, partial \in BOOLEAN,
          new \in PartialPayload, wanted \in MaybeUser :
          Update(w, actor, i, partial, new, wanted)
    \/ \E actor \in Users, i \in Ids : Delete(w, actor, i)

AdminRequest(w) ==
    \/ \E agent \in Users, new \in Payload : AdminAdd(w, agent, new)
    \/ \E i \in Ids, agent \in Users, new \in Payload : AdminChange(w, i, agent, new)
    \/ \E i \in Ids : AdminDelete(w, i)
    \/ \E S \in SUBSET Ids : AdminRestore(w, S) \/ AdminHardDelete(w, S)

Continue(w) == Save(w) \/ Insert(w) \/ Invalidate(w) \/ Commit(w)

Next == \E w \in Workers : ApiRequest(w) \/ AdminRequest(w) \/ Continue(w) \/ Abort(w)

Spec == Init /\ [][Next]_vars

\* A request that has begun is run to its end by its thread.  The statements
\* that can block queue for the row in PostgreSQL, in arrival order, so one
\* that becomes runnable again and again is granted: strong fairness.
Fairness ==
    \A w \in Workers : /\ SF_vars(Save(w)) /\ SF_vars(Insert(w))
                       /\ WF_vars(Invalidate(w)) /\ WF_vars(Commit(w))

FairSpec == Spec /\ Fairness

-----------------------------------------------------------------------------
(* What holds however the requests interleave.                             *)

\* deleted_at and deleted_by are written together: whichever mixture of full
\* and partial saves has hit a row, one that is not deleted names no deleter
\* (BaseAbstractModel.soft_delete, AllObjectsQuerySet.restore).
LiveRowsCarryNoDeleter ==
    \A i \in Ids : Live(i) => rows[i].deletedBy = NoUser

\* A listing belongs to a user who created it or whom an administrator gave
\* it to, even after a stale save: no chain of creates, updates and
\* reassignments makes anybody else its agent (ListingService._resolve_agent
\* and the checks of create and update).
OwnerWasGranted == \A i \in Ids : Exists(i) => rows[i].agent \in granted[i]

\* Everybody the audit columns of a listing name was entitled to act on it: an
\* administrator, or an agent the listing belonged to at some time
\* (ListingService._ensure_can_mutate before every update and delete).
StampsAreAuthorised ==
    \A i \in Ids : Exists(i) =>
        {rows[i].createdBy, rows[i].updatedBy, rows[i].deletedBy}
            \subseteq granted[i] \cup Admins \cup {NoUser}

\* created_by names the creator for good, although every plain save() writes
\* that column from the snapshot its request read, and may even insert the
\* row again (ListingService.update, listing.save()).
CreatorNeverRewritten ==
    [][\A i \in Ids : Exists(i) /\ Exists(i)' => rows'[i].createdBy = rows[i].createdBy]_vars

\* Every write request comes to an end: no row lock is left behind by a
\* finished or failed transaction for the others to wait on.
RequestsFinish == \A w \in Workers : ~Idle(w) ~> Idle(w)

-----------------------------------------------------------------------------
(* Why it holds: what every request in progress knows about its listing.   *)

Privileged(u) == u = NoUser \/ IsAdmin(u)
Entitled(i) == granted[i] \cup Admins \cup {NoUser}

Writing(w) == At(w, "invalidate") \/ At(w, "commit")

\* A transaction that has written holds its row, and one that is deleting has
\* a row to delete: the lock keeps a permanent deletion out.
WritersHoldTheirRow ==
    \A w \in Workers : Writing(w) =>
        /\ lock[txn[w].id] = w
        /\ txn[w].op = "delete" => Exists(txn[w].id)

\* The UPDATE of a soft delete has no INSERT to fall back to.
DeletesNeverInsert == \A w \in Workers : At(w, "insert") => txn[w].op # "delete"

IdsAreIssued ==
    /\ \A i \in Ids : Exists(i) => i \in issued
    /\ \A w \in Workers : ~Idle(w) => txn[w].id \in issued

\* Nobody else can reach the listing of a create that has not committed.
CreatesAreAlone ==
    \A w \in Workers : ~Idle(w) /\ txn[w].op = "create" =>
        /\ ~Exists(txn[w].id)
        /\ \A v \in Workers \ {w} : ~Idle(v) => txn[v].id # txn[w].id

\* All instances of a listing, in the table or in memory, name one creator.
CreatorsAgree ==
    \A w \in Workers : ~Idle(w) =>
        /\ Exists(txn[w].id) => txn[w].inst.createdBy = rows[txn[w].id].createdBy
        /\ \A v \in Workers : ~Idle(v) /\ txn[v].id = txn[w].id =>
              txn[v].inst.createdBy = txn[w].inst.createdBy

InstancesCarryNoDeleter ==
    \A w \in Workers : ~Idle(w) /\ ~txn[w].inst.deleted => txn[w].inst.deletedBy = NoUser

\* Whoever is writing was entitled to, and so is everybody the instance names.
WritersAreEntitled ==
    \A w \in Workers : ~Idle(w) =>
        IF txn[w].op = "create"
        THEN /\ Privileged(txn[w].actor) \/ txn[w].inst.agent = txn[w].actor
             /\ {txn[w].inst.createdBy, txn[w].inst.updatedBy, txn[w].inst.deletedBy}
                  \subseteq {txn[w].actor, NoUser}
        ELSE /\ txn[w].actor \in Entitled(txn[w].id)
             /\ Privileged(txn[w].actor) \/ txn[w].inst.agent \in granted[txn[w].id]
             /\ {txn[w].inst.createdBy, txn[w].inst.updatedBy, txn[w].inst.deletedBy}
                  \subseteq Entitled(txn[w].id)

\* What the request that began `t` made sure of, or worked out, of the row it
\* had read, and of the row it had built.
Current(t, row) ==
    /\ t.actor # NoUser => ~row.deleted /\ CanMutate(t.actor, row)
    /\ t.op = "delete" => t.inst = row /\ ~row.deleted
    /\ t.op = "update" =>
          /\ t.inst.createdBy = row.createdBy
          /\ t.inst.deleted = row.deleted /\ t.inst.deletedBy = row.deletedBy
          /\ t.inst.updatedBy = IF t.actor = NoUser THEN row.updatedBy ELSE t.actor
    /\ t.inst.agent # row.agent => Privileged(t.actor)
    /\ \A f \in Fields \ t.supplied : t.inst.fields[f] = row.fields[f]

Fresh(t) ==
    /\ t.inst = NewRow(t.inst.agent, t.inst.fields, t.actor)
    /\ t.inst.agent = t.actor \/ Privileged(t.actor)

\* The inductive invariant: TypeOK and what the requests know, with the
\* invariants about the table that follow from it step by step.
IInv ==
    /\ TypeOK /\ WritersHoldTheirRow /\ DeletesNeverInsert
    /\ IdsAreIssued /\ CreatesAreAlone /\ CreatorsAgree
    /\ LiveRowsCarryNoDeleter /\ InstancesCarryNoDeleter
    /\ OwnerWasGranted /\ StampsAreAuthorised /\ WritersAreEntitled

-----------------------------------------------------------------------------
(* What the service promises of each write.  These hold when requests do   *)
(* not overlap; with two workers the unlocked read-check-save of update    *)
(* and delete breaks them.                                                 *)

\* A soft deleted listing stays deleted until an administrator restores it:
\* "The row is retained for auditing and no longer appears in read
\* endpoints." (views.py, destroy).
SoftDeletedStaysDeleted ==
    [][\A i \in Ids :
         Exists(i) /\ rows[i].deleted /\ Live(i)' =>
             \E w \in Workers, S \in SUBSET Ids : i \in S /\ AdminRestore(w, S)]_vars

\* "Only administrators can reassign a listing to another agent."
\* (listing_service.py, update).
OnlyAdminsReassign ==
    [][\A w \in Workers : Commit(w) /\ Exists(txn[w].id)
         /\ rows'[txn[w].id].agent # rows[txn[w].id].agent
         => txn[w].actor = NoUser \/ IsAdmin(txn[w].actor)]_vars

\* PATCH updates "any subset of fields" (views.py, partial_update): the columns
\* its payload leaves out keep the value they have when it commits.
PatchTouchesOnlySupplied ==
    [][\A w \in Workers : Commit(w) /\ Exists(txn[w].id) =>
         \A f \in Fields \ txn[w].supplied :
             rows'[txn[w].id].fields[f] = rows[txn[w].id].fields[f]]_vars
=============================================================================
