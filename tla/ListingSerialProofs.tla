------------------------- MODULE ListingSerialProofs -------------------------
(***************************************************************************)
(* Theorems about requests that do not overlap, for every set of ids,      *)
(* users, columns and values.                                              *)
(*                                                                         *)
(* The hypothesis is Undisturbed: any number of workers may be busy, but   *)
(* nobody changes the listing of a request before that request commits.    *)
(* OneWorkerIsUndisturbed shows that a single worker satisfies it.         *)
(***************************************************************************)
EXTENDS ListingSerial, ListingStoreProofs

-----------------------------------------------------------------------------
(* Snapshots stay current.                                                 *)

\* The step condition of Undisturbed.
Spares ==
    \A w \in Workers : ~Idle(w) /\ ~Commit(w) => rows'[txn[w].id] = rows[txn[w].id]

\* What a request has decided, or decides in this step, holds of its row after
\* the step, if a request under way has a snapshot that is current and the step
\* spares its row.
LEMMA SnapshotKept ==
    ASSUME IInv, NEW w \in Workers, Shape(w), NEW v \in Workers, ~Idle(v)',
           SameRequest(v) => Snapshot(txn[v]) /\ rows'[txn[v].id] = rows[txn[v].id]
    PROVE  Snapshot(txn[v])'
<1>0. TypeOK /\ IdsAreIssued
  BY DEF IInv
<1>1. CASE SameRequest(v)
  <2>1. Snapshot(txn[v]) /\ rows'[txn[v].id] = rows[txn[v].id] /\ txn'[v].id = txn[v].id
    BY <1>1 DEF SameRequest
  <2>2. CASE txn[v].op = "create"
    BY <1>1, <2>1, <2>2 DEF SameRequest, Snapshot, Exists, Fresh, Privileged
  <2>3. CASE txn[v].op # "create"
    BY <1>1, <2>1, <2>3 DEF SameRequest, Snapshot, Exists, Current, Privileged, CanMutate
  <2>4. QED BY <2>2, <2>3
<1>2. CASE StartsCreate(w, txn'[v]) /\ txn'[v] \in Txn
  <2>1. /\ txn'[v].op = "create" /\ Fresh(txn'[v]) /\ rows' = rows
        /\ txn'[v].actor = NoUser => AdminSite
        /\ txn'[v].id \in Ids /\ txn'[v].id \notin issued
    BY <1>2 DEF StartsCreate, Started, Txn
  <2>2. rows'[txn'[v].id] = NoRow
    BY <1>0, <2>1 DEF IdsAreIssued, Exists
  <2>3. QED BY <2>1, <2>2 DEF Snapshot, Exists, Fresh, Privileged
<1>3. CASE StartsWrite(w, txn'[v])
  <2>1. /\ txn'[v].op # "create" /\ rows' = rows
        /\ Exists(txn'[v].id) /\ Current(txn'[v], rows[txn'[v].id])
        /\ txn'[v].actor = NoUser => AdminSite
    BY <1>3 DEF StartsWrite, Started
  <2>2. QED BY <2>1 DEF Snapshot, Exists, Current, Privileged, CanMutate
<1>4. QED BY <1>0, <1>1, <1>2, <1>3, RequestStep

\* What one request does spares the snapshots of the others.
LEMMA SnapshotsKept == IInv /\ SnapshotsAreCurrent /\ [Next]_vars /\ [Spares]_vars => SnapshotsAreCurrent'
<1>1. ASSUME SnapshotsAreCurrent, UNCHANGED vars
      PROVE  SnapshotsAreCurrent'
  BY <1>1 DEF vars, SnapshotsAreCurrent, Snapshot, Idle, Exists, Current, Fresh, Privileged, CanMutate
<1>2. ASSUME IInv, SnapshotsAreCurrent, Next, Spares
      PROVE  SnapshotsAreCurrent'
  <2>1. PICK w \in Workers : Shape(w)
    BY <1>2, StepShapes DEF IInv, Next
  <2>2. ASSUME NEW v \in Workers, ~Idle(v)', SameRequest(v)
        PROVE  Snapshot(txn[v]) /\ rows'[txn[v].id] = rows[txn[v].id]
    <3>1. ~Idle(v) /\ ~Commit(v)
      BY <1>2, <2>2, CommitEnds DEF IInv, SameRequest
    <3>2. QED BY <1>2, <3>1 DEF SnapshotsAreCurrent, Spares
  <2>3. QED BY <1>2, <2>1, <2>2, SnapshotKept DEF SnapshotsAreCurrent
<1>3. QED BY <1>1, <1>2

\* Where nobody changes a listing under a request, the row a request overwrites
\* is the row it checked, whoever else is at work on other listings.
THEOREM SnapshotsAreCurrentUndisturbed == Spec /\ Undisturbed => []SnapshotsAreCurrent
<1>1. Init => SnapshotsAreCurrent
  BY DEF Init, SnapshotsAreCurrent, Idle
<1>2. IInv /\ SnapshotsAreCurrent /\ [Next]_vars /\ [Spares]_vars => SnapshotsAreCurrent'
  BY SnapshotsKept
<1>3. Undisturbed <=> [][Spares]_vars
  BY DEF Undisturbed, Spares
<1>4. QED BY <1>1, <1>2, <1>3, Invariance, PTL DEF Spec

\* A worker that is busy takes no other request and runs no bulk statement: with
\* one worker, nothing comes between the read of a request and its commit.
THEOREM OneWorkerIsUndisturbed == Spec /\ OneWorker => Undisturbed
<1> SUFFICES ASSUME OneWorker PROVE Spec => Undisturbed
  OBVIOUS
<1>1. IInv /\ [Next]_vars => [Spares]_vars
  <2> SUFFICES ASSUME IInv, Next, NEW v \in Workers, ~Idle(v), ~Commit(v)
               PROVE  rows'[txn[v].id] = rows[txn[v].id]
    BY DEF Spares
  <2>1. PICK w \in Workers : Shape(w)
    BY StepShapes DEF IInv, Next
  <2>2. w = v
    BY DEF OneWorker
  <2>3. ASSUME NEW t \in Txn, StartsCreate(w, t) \/ StartsWrite(w, t)
        PROVE  rows' = rows
    BY <2>3 DEF StartsCreate, StartsWrite, Started
  <2>4. ASSUME NEW S \in SUBSET Ids, Changes(S)
        PROVE  FALSE
    <3>1. PICK u \in Workers : Idle(u)
      BY <2>4 DEF Changes, AdminRestore, AdminHardDelete, AdminStatement
    <3>2. QED BY <3>1 DEF OneWorker
  <2>5. QED BY <2>1, <2>2, <2>3, <2>4 DEF Shape, Moves, Rollback, vars
<1>2. Undisturbed <=> [][Spares]_vars
  BY DEF Undisturbed, Spares
<1>3. QED BY <1>1, <1>2, Invariance, PTL DEF Spec

-----------------------------------------------------------------------------
(* What a commit does, when the snapshot it was decided on is current.     *)

\* A commit ends a request whose snapshot is current.
LEMMA CommitFacts ==
    ASSUME IInv, NEW w \in Workers, Commit(w), Snapshot(txn[w])
    PROVE  /\ txn[w] \in Txn /\ txn[w].id \in Ids /\ txn[w].inst \in Row
           /\ txn[w].actor \in MaybeUser
           /\ rows' = [rows EXCEPT ![txn[w].id] = Written(txn[w])]
           /\ rows'[txn[w].id] = Written(txn[w])
           /\ txn[w].op # "delete" => Written(txn[w]) = txn[w].inst
           /\ txn[w].op = "delete" =>
                 /\ Written(txn[w]) = SoftDeleted(rows[txn[w].id], txn[w].actor)
                 /\ Live(txn[w].id)
           /\ txn[w].op # "create" => Exists(txn[w].id) /\ rows[txn[w].id] \in Row
<1>1. TypeOK /\ WritersHoldTheirRow
  BY DEF IInv
<1>2. ~Idle(w) /\ At(w, "commit") /\ txn[w].id \in Ids
  BY <1>1, CommitEnds
<1>3. /\ rows' = [rows EXCEPT ![txn[w].id] = Written(txn[w])]
      /\ rows'[txn[w].id] = Written(txn[w])
  BY <1>1, <1>2 DEF Commit, TypeOK
<1>4. txn[w].op # "create" => Exists(txn[w].id) /\ rows[txn[w].id] \in Row
  BY <1>1, <1>2 DEF Snapshot, Exists, TypeOK
<1>5. txn[w].op = "delete" => Live(txn[w].id)
  BY DEF Snapshot, Current, Live
<1>6. QED BY <1>1, <1>2, <1>3, <1>4, <1>5, BusyTxn, WrittenRow

-----------------------------------------------------------------------------
(* Refinement: a commit is one write that ListingRegistry allows, a bulk   *)
(* statement is another, and every other step leaves the table alone.      *)

\* The row a create has built is the one the registry adds.
LEMMA CreateImplements ==
    ASSUME IInv, NEW w \in Workers, Commit(w), Snapshot(txn[w]), txn[w].op = "create"
    PROVE  Registry!Next
<1> DEFINE t == txn[w]
<1>1. /\ t.id \in Ids /\ t.inst \in Row /\ t.actor \in MaybeUser
      /\ rows' = [rows EXCEPT ![t.id] = t.inst]
      /\ ~Exists(t.id) /\ Fresh(t) /\ (t.actor = NoUser => AdminSite)
  BY CommitFacts DEF Snapshot
<1>2. /\ t.inst.agent \in Users /\ t.inst.fields \in [Fields -> Values]
      /\ t.inst = Registry!New(t.inst.agent, t.inst.fields, t.actor)
  BY <1>1 DEF Fresh, NewRow, Row, Registry!New
<1> HIDE DEF t
<1>3. CASE t.actor = NoUser
  BY <1>1, <1>2, <1>3 DEF Registry!Next, Registry!SiteWrite, Registry!SiteAdd, Registry!Puts,
                          Registry!Exists, Registry!Columns, Exists
<1>4. CASE t.actor # NoUser
  <2>1. t.actor \in Users /\ (t.inst.agent = t.actor \/ t.actor \in Admins)
    BY <1>1, <1>4 DEF Fresh, Privileged, IsAdmin, MaybeUser
  <2>2. Registry!Add(t.actor, t.id, t.inst.agent, t.inst.fields)
    BY <1>1, <1>2, <2>1 DEF Registry!Add, Registry!Puts, Registry!Exists, Exists
  <2>3. QED BY <1>1, <1>2, <2>1, <2>2 DEF Registry!Next, Registry!ServiceWrite, Registry!Columns
<1>5. QED BY <1>3, <1>4

\* The full save of an update changes what the registry's change does: the
\* columns it was not sent are as they are in the table.
LEMMA UpdateImplements ==
    ASSUME IInv, NEW w \in Workers, Commit(w), Snapshot(txn[w]), txn[w].op = "update"
    PROVE  Registry!Next
<1> DEFINE t == txn[w]
<1> DEFINE row == rows[t.id]
<1>1. /\ t.id \in Ids /\ t.inst \in Row /\ t.actor \in MaybeUser
      /\ rows' = [rows EXCEPT ![t.id] = t.inst]
      /\ row \in Row /\ Exists(t.id) /\ Current(t, row)
      /\ t.actor = NoUser => AdminSite
  BY CommitFacts DEF Snapshot
<1>2. /\ t.inst.agent \in Users /\ t.inst.fields \in [Fields -> Values]
      /\ t.inst.createdBy = row.createdBy
      /\ t.inst.deleted = row.deleted /\ t.inst.deletedBy = row.deletedBy
      /\ t.inst.updatedBy = IF t.actor = NoUser THEN row.updatedBy ELSE t.actor
  BY <1>1 DEF Current, Row
<1>3. CASE t.actor = NoUser
  <2>1. t.inst = [row EXCEPT !.agent = t.inst.agent, !.fields = t.inst.fields]
    BY <1>1, <1>2, <1>3 DEF Row
  <2>2. Registry!SiteChange(t.id, t.inst.agent, t.inst.fields)
    BY <1>1, <2>1 DEF Registry!SiteChange, Registry!Puts, Registry!Exists, Exists
  <2>3. QED BY <1>1, <1>2, <1>3, <2>2 DEF Registry!Next, Registry!SiteWrite, Registry!Columns
<1>4. CASE t.actor # NoUser
  <2>1. t.inst = [row EXCEPT !.agent = t.inst.agent, !.fields = t.inst.fields,
                             !.updatedBy = t.actor]
    BY <1>1, <1>2, <1>4 DEF Row
  <2>2. /\ t.actor \in Users /\ ~row.deleted
        /\ t.actor \in Admins \/ row.agent = t.actor
        /\ t.inst.agent # row.agent => t.actor \in Admins
    BY <1>1, <1>4 DEF Current, CanMutate, Privileged, IsAdmin, MaybeUser
  <2>3. Registry!Change(t.actor, t.id, t.inst.agent, t.inst.fields)
    BY <1>1, <2>1, <2>2 DEF Registry!Change, Registry!Puts, Registry!Live, Registry!Exists,
                            Registry!Owns, Exists
  <2>4. QED BY <1>1, <1>2, <2>2, <2>3 DEF Registry!Next, Registry!ServiceWrite, Registry!Columns
<1>5. QED BY <1>3, <1>4

\* The save of a soft delete stamps a row that is live and carries no deleter.
LEMMA DeleteImplements ==
    ASSUME IInv, NEW w \in Workers, Commit(w), Snapshot(txn[w]), txn[w].op = "delete"
    PROVE  Registry!Next
<1> DEFINE t == txn[w]
<1> DEFINE row == rows[t.id]
<1>1. /\ t.id \in Ids /\ t.actor \in MaybeUser
      /\ rows' = [rows EXCEPT ![t.id] = SoftDeleted(row, t.actor)]
      /\ row \in Row /\ Exists(t.id) /\ Live(t.id) /\ Current(t, row)
      /\ t.actor = NoUser => AdminSite
  BY CommitFacts DEF Snapshot
<1>2. row.deletedBy = NoUser
  BY <1>1 DEF IInv, LiveRowsCarryNoDeleter
<1>3. CASE t.actor = NoUser
  <2>1. SoftDeleted(row, t.actor) = [row EXCEPT !.deleted = TRUE]
    BY <1>1, <1>2, <1>3 DEF SoftDeleted, Row
  <2>2. Registry!SiteWithdraw(t.id)
    BY <1>1, <2>1 DEF Registry!SiteWithdraw, Registry!Puts, Registry!Live, Registry!Exists,
                      Exists, Live
  <2>3. QED BY <1>1, <1>3, <2>2 DEF Registry!Next, Registry!SiteWrite
<1>4. CASE t.actor # NoUser
  <2>1. t.actor \in Users /\ (t.actor \in Admins \/ row.agent = t.actor)
    BY <1>1, <1>4 DEF Current, CanMutate, IsAdmin, MaybeUser
  <2>2. Registry!Withdraw(t.actor, t.id)
    BY <1>1, <2>1 DEF Registry!Withdraw, Registry!Puts, Registry!Live, Registry!Exists,
                      Registry!Owns, Exists, Live, SoftDeleted
  <2>3. QED BY <1>1, <2>1, <2>2 DEF Registry!Next, Registry!ServiceWrite
<1>5. QED BY <1>3, <1>4

\* The bulk statements are the registry's own.
LEMMA BulkImplements ==
    ASSUME NEW S \in SUBSET Ids, Changes(S)
    PROVE  Registry!Next
<1>1. PICK w \in Workers : AdminRestore(w, S) \/ AdminHardDelete(w, S)
  BY DEF Changes
<1>2. AdminSite /\ \A i \in S : Exists(i)
  BY <1>1 DEF AdminRestore, AdminHardDelete, AdminStatement
<1>3. CASE AdminRestore(w, S)
  <2>1. Registry!SiteRestore(S)
    BY <1>2, <1>3 DEF AdminRestore, Restored, Exists, Registry!SiteRestore, Registry!Exists
  <2>2. QED BY <1>2, <2>1 DEF Registry!Next, Registry!SiteWrite
<1>4. CASE AdminHardDelete(w, S)
  <2>1. Registry!SiteRemove(S)
    BY <1>4 DEF AdminHardDelete, Registry!SiteRemove
  <2>2. QED BY <1>2, <2>1 DEF Registry!Next, Registry!SiteWrite
<1>5. QED BY <1>1, <1>3, <1>4

\* A step of the table is a step of the registry or none, unless it commits a
\* request whose snapshot is out of date.
LEMMA StepImplements ==
    ASSUME IInv, [Next]_vars, \A w \in Workers : Commit(w) => Snapshot(txn[w])
    PROVE  [Registry!Next]_rows
<1> SUFFICES ASSUME Next
             PROVE  Registry!Next \/ UNCHANGED rows
  BY DEF vars
<1>1. PICK w \in Workers : Shape(w)
  BY StepShapes DEF IInv, Next
<1>2. ASSUME NEW t \in Txn, StartsCreate(w, t) \/ StartsWrite(w, t)
      PROVE  rows' = rows
  BY <1>2 DEF StartsCreate, StartsWrite, Started
<1>3. CASE Commit(w)
  <2>1. Snapshot(txn[w]) /\ txn[w].op \in {"create", "update", "delete"}
    BY <1>3, CommitFacts DEF Txn
  <2>2. QED BY <1>3, <2>1, CreateImplements, UpdateImplements, DeleteImplements
<1>4. ASSUME NEW S \in SUBSET Ids, Changes(S)
      PROVE  Registry!Next
  BY <1>4, BulkImplements
<1>5. QED BY <1>1, <1>2, <1>3, <1>4 DEF Shape, Moves, Rollback, vars

\* Whoever commits is busy, so its snapshot is one of those that are current.
LEMMA CommittersSnapshots ==
    ASSUME IInv, SnapshotsAreCurrent, NEW w \in Workers, Commit(w)
    PROVE  Snapshot(txn[w])
BY CommitEnds DEF IInv, SnapshotsAreCurrent

\* ListingStore, locks, half-done transactions, fall back to INSERT and all,
\* implements the registry's one-step writes as long as nobody changes a
\* listing under a request: each commit is a write that somebody is entitled
\* to at that very moment.
THEOREM ImplementsRegistryUndisturbed == Spec /\ Undisturbed => ImplementsRegistry
<1>1. Init => Registry!Init
  BY DEF Init, Registry!Init
<1>2. IInv /\ SnapshotsAreCurrent /\ [Next]_vars => [Registry!Next]_rows
  BY StepImplements, CommittersSnapshots
<1>3. QED BY <1>1, <1>2, Invariance, SnapshotsAreCurrentUndisturbed, PTL
          DEF Spec, ImplementsRegistry, Registry!Spec

\* So it does with one worker.
THEOREM ImplementsRegistrySerial == Spec /\ OneWorker => ImplementsRegistry
  BY ImplementsRegistryUndisturbed, OneWorkerIsUndisturbed, PTL

-----------------------------------------------------------------------------
(* What each write promises.                                               *)

\* A commit finds the row it decided on: what becomes of that row.
LEMMA CommittedRow ==
    ASSUME IInv, NEW w \in Workers, Commit(w), Snapshot(txn[w]), Exists(txn[w].id)
    PROVE  LET row == rows[txn[w].id]
               new == rows'[txn[w].id] IN
           /\ new.agent # row.agent => Privileged(txn[w].actor)
           /\ \A f \in Fields \ txn[w].supplied : new.fields[f] = row.fields[f]
           /\ row.deleted => new.deleted
<1> DEFINE t == txn[w]
<1> DEFINE row == rows[t.id]
<1>1. /\ t \in Txn /\ t.id \in Ids /\ t.actor \in MaybeUser /\ row \in Row
      /\ t.op \in {"update", "delete"} /\ Current(t, row)
      /\ rows'[t.id] = Written(t)
  BY CommitFacts DEF Snapshot, Txn
<1>2. CASE t.op = "update"
  <2>1. rows'[t.id] = t.inst
    BY <1>1, <1>2, CommitFacts
  <2>2. QED BY <1>1, <1>2, <2>1 DEF Current
<1>3. CASE t.op = "delete"
  <2>1. rows'[t.id] = SoftDeleted(row, t.actor) /\ ~row.deleted
    BY <1>1, <1>3, CommitFacts DEF Live
  <2>2. SoftDeleted(row, t.actor).agent = row.agent /\ SoftDeleted(row, t.actor).fields = row.fields
    BY <1>1 DEF SoftDeleted, Row
  <2>3. QED BY <2>1, <2>2
<1>4. QED BY <1>1, <1>2, <1>3

\* What one step does to a listing, commits and bulk statements apart.
LEMMA ListingStep ==
    ASSUME IInv, Next, NEW i \in Ids
    PROVE  \/ rows'[i] = rows[i]
           \/ \E w \in Workers : Commit(w) /\ txn[w].id = i
           \/ \E w \in Workers, S \in SUBSET Ids :
                 i \in S /\ AdminRestore(w, S) /\ rows'[i] = Restored(rows[i]) /\ Exists(i)
           \/ rows'[i] = NoRow
<1>1. PICK w \in Workers : Shape(w)
  BY StepShapes DEF IInv, Next
<1>2. ASSUME NEW t \in Txn, StartsCreate(w, t) \/ StartsWrite(w, t)
      PROVE  rows' = rows
  BY <1>2 DEF StartsCreate, StartsWrite, Started
<1>3. CASE Commit(w)
  BY <1>3 DEF Commit, IInv, TypeOK
<1>4. ASSUME NEW S \in SUBSET Ids, Changes(S), rows'[i] # rows[i], rows'[i] # NoRow
      PROVE  \E u \in Workers : /\ i \in S /\ AdminRestore(u, S)
                                 /\ rows'[i] = Restored(rows[i]) /\ Exists(i)
  BY <1>4 DEF Changes, AdminRestore, AdminHardDelete, AdminStatement
<1>5. QED BY <1>1, <1>2, <1>3, <1>4 DEF Shape, Moves, Rollback, vars

\* A soft deleted listing comes back by a restore only ("The row is retained for
\* auditing and no longer appears in read endpoints."): a save is never of an
\* instance loaded before the deletion.
THEOREM SoftDeletedStaysDeletedUndisturbed == Spec /\ Undisturbed => SoftDeletedStaysDeleted
<1>1. IInv /\ SnapshotsAreCurrent /\ [Next]_vars =>
        [\A i \in Ids : Exists(i) /\ rows[i].deleted /\ Live(i)' =>
            \E w \in Workers, S \in SUBSET Ids : i \in S /\ AdminRestore(w, S)]_vars
  <2> SUFFICES ASSUME IInv, SnapshotsAreCurrent, Next, NEW i \in Ids,
                      Exists(i), rows[i].deleted, Live(i)'
               PROVE  \E w \in Workers, S \in SUBSET Ids : i \in S /\ AdminRestore(w, S)
    OBVIOUS
  <2>1. ASSUME NEW w \in Workers, Commit(w), txn[w].id = i PROVE FALSE
    BY <2>1, CommittersSnapshots, CommittedRow DEF Live
  <2>2. QED BY <2>1, ListingStep DEF Live, Exists
<1>2. QED BY <1>1, Invariance, SnapshotsAreCurrentUndisturbed, PTL
          DEF Spec, SoftDeletedStaysDeleted

\* "Only administrators can reassign a listing to another agent.": not even a
\* save that writes every column gives a listing another agent than it has.
THEOREM OnlyAdminsReassignUndisturbed == Spec /\ Undisturbed => OnlyAdminsReassign
<1>1. IInv /\ SnapshotsAreCurrent /\ [Next]_vars =>
        [\A w \in Workers : Commit(w) /\ Exists(txn[w].id)
            /\ rows'[txn[w].id].agent # rows[txn[w].id].agent
            => txn[w].actor = NoUser \/ IsAdmin(txn[w].actor)]_vars
  BY CommittersSnapshots, CommittedRow DEF Privileged
<1>2. QED BY <1>1, Invariance, SnapshotsAreCurrentUndisturbed, PTL
          DEF Spec, OnlyAdminsReassign

\* PATCH updates "any subset of fields": the columns it is not sent keep the
\* value they have when it commits, although its save writes them too.
THEOREM PatchTouchesOnlySuppliedUndisturbed == Spec /\ Undisturbed => PatchTouchesOnlySupplied
<1>1. IInv /\ SnapshotsAreCurrent /\ [Next]_vars =>
        [\A w \in Workers : Commit(w) /\ Exists(txn[w].id) =>
            \A f \in Fields \ txn[w].supplied :
                rows'[txn[w].id].fields[f] = rows[txn[w].id].fields[f]]_vars
  BY CommittersSnapshots, CommittedRow
<1>2. QED BY <1>1, Invariance, SnapshotsAreCurrentUndisturbed, PTL
          DEF Spec, PatchTouchesOnlySupplied
=============================================================================
