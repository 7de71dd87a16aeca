------------------------- MODULE ListingStoreProofs -------------------------
(***************************************************************************)
(* Theorems about ListingStore, for every set of ids, users, columns,      *)
(* values and workers.                                                     *)
(*                                                                         *)
(* Every step of Next has one of five shapes: a request begins a           *)
(* transaction (StartsCreate, StartsWrite), a transaction moves on         *)
(* (Moves), rolls back, or commits, or a bulk statement of the admin site  *)
(* runs.  StepShapes says so; the lemmas after it go through the shapes    *)
(* once for each group of conjuncts of IInv.                               *)
(***************************************************************************)
EXTENDS ListingStore, TLAPS

-----------------------------------------------------------------------------
(* The shapes of a step.                                                   *)

Started(w, t) ==
    /\ Idle(w) /\ t \in Txn /\ t.pc \in {"save", "insert"}
    /\ txn' = [txn EXCEPT ![w] = t]
    /\ UNCHANGED <<rows, lock, granted>>

StartsCreate(w, t) ==
    /\ Started(w, t) /\ t.op = "create"
    /\ t.id \notin issued /\ issued' = issued \cup {t.id}
    /\ t.actor = NoUser => AdminSite
    /\ Privileged(t.actor) \/ t.inst.agent = t.actor
    /\ t.inst.createdBy = t.actor /\ t.inst.updatedBy = t.actor
    /\ t.inst.deletedBy = NoUser
    /\ Fresh(t)

StartsWrite(w, t) ==
    /\ Started(w, t) /\ t.pc = "save"
    /\ t.op \in {"update", "delete"} /\ Exists(t.id)
    /\ issued' = issued
    /\ t.actor = NoUser => AdminSite
    /\ Privileged(t.actor) \/ t.actor = rows[t.id].agent
    /\ Privileged(t.actor) \/ t.inst.agent = rows[t.id].agent
    /\ t.inst.createdBy = rows[t.id].createdBy
    /\ t.inst.updatedBy \in {t.actor, rows[t.id].updatedBy}
    /\ t.inst.deleted = rows[t.id].deleted
    /\ t.inst.deletedBy = rows[t.id].deletedBy
    /\ Current(t, rows[t.id])

Moves(w) ==
    /\ ~Idle(w)
    /\ \E p \in {"save", "insert", "invalidate", "commit"} :
          /\ txn' = [txn EXCEPT ![w].pc = p]
          /\ \/ p = "insert" /\ txn[w].op = "update" /\ UNCHANGED lock
             \/ p = "commit" /\ Writing(w) /\ UNCHANGED lock
             \/ /\ p # "insert" /\ lock[txn[w].id] = NoWorker
                /\ txn[w].op = "delete" => Exists(txn[w].id)
                /\ lock' = [lock EXCEPT ![txn[w].id] = w]
    /\ UNCHANGED <<rows, issued, granted>>

Changes(S) ==
    /\ \E w \in Workers : AdminRestore(w, S) \/ AdminHardDelete(w, S)
    /\ \A i \in S : Exists(i) /\ lock[i] = NoWorker
    /\ \/ /\ \A i \in S : rows[i].deleted
          /\ rows' = [i \in Ids |-> IF i \in S THEN Restored(rows[i]) ELSE rows[i]]
       \/ rows' = [i \in Ids |-> IF i \in S THEN NoRow ELSE rows[i]]
    /\ UNCHANGED <<issued, lock, txn, granted>>

Shape(w) ==
    \/ \E t \in Txn : StartsCreate(w, t) \/ StartsWrite(w, t)
    \/ Moves(w)
    \/ ~Idle(w) /\ Rollback(w)
    \/ Commit(w)
    \/ \E S \in SUBSET Ids : Changes(S)
    \/ UNCHANGED vars

-----------------------------------------------------------------------------
(* What the helpers of the model build.                                    *)

\* The instance a create builds is a row.
LEMMA NewRowType ==
    ASSUME NEW agent \in Users, NEW new \in Payload, NEW u \in MaybeUser
    PROVE  NewRow(agent, new, u) \in Row
  BY DEF NewRow, Row, Payload, MaybeUser

\* An update of an instance is a row that keeps its creator and its deletion
\* columns, and names the editor; the agent changes only if the payload asks.
LEMMA EditedType ==
    ASSUME NEW row \in Row, NEW new \in PartialPayload,
           NEW wanted \in MaybeUser, NEW u \in MaybeUser
    PROVE  /\ Edited(row, new, wanted, u) \in Row
           /\ Edited(row, new, wanted, u).createdBy = row.createdBy
           /\ Edited(row, new, wanted, u).updatedBy = u
           /\ Edited(row, new, wanted, u).deleted = row.deleted
           /\ Edited(row, new, wanted, u).deletedBy = row.deletedBy
           /\ Edited(row, new, wanted, u).agent
                = IF wanted = NoUser THEN row.agent ELSE wanted
           /\ \A f \in Fields \ DOMAIN new :
                 Edited(row, new, wanted, u).fields[f] = row.fields[f]
<1> DEFINE columns == [f \in Fields |-> IF f \in DOMAIN new THEN new[f] ELSE row.fields[f]]
<1>1. columns \in [Fields -> Values]
  <2>1. PICK S \in SUBSET Fields : new \in [S -> Values]
    BY DEF PartialPayload
  <2>2. ASSUME NEW f \in Fields PROVE columns[f] \in Values
    <3>1. CASE f \in DOMAIN new
      BY <2>1, <3>1
    <3>2. CASE f \notin DOMAIN new
      BY <3>2 DEF Row
    <3>3. QED BY <3>1, <3>2
  <2>3. QED BY <2>2
<1>2. Edited(row, new, wanted, u) =
        [row EXCEPT !.fields = columns,
                    !.agent = IF wanted = NoUser THEN @ ELSE wanted,
                    !.updatedBy = u]
  BY DEF Edited, Row
<1>3. \A f \in Fields \ DOMAIN new : columns[f] = row.fields[f]
  OBVIOUS
<1> HIDE DEF columns
<1>4. QED BY <1>1, <1>2, <1>3 DEF Row, MaybeUser

\* A full form is a payload that leaves nothing out.
LEMMA PayloadIsPartial == Payload \subseteq PartialPayload
  BY DEF Payload, PartialPayload

\* A restore changes the deletion columns and nothing else.
LEMMA RestoredType ==
    ASSUME NEW row \in Row
    PROVE  /\ Restored(row) \in Row
           /\ Restored(row).agent = row.agent
           /\ Restored(row).createdBy = row.createdBy
           /\ Restored(row).updatedBy = row.updatedBy
           /\ ~Restored(row).deleted /\ Restored(row).deletedBy = NoUser
  BY DEF Restored, Row, MaybeUser

\* A soft delete changes the deletion columns and nothing else.
LEMMA SoftDeletedType ==
    ASSUME NEW row \in Row, NEW u \in MaybeUser
    PROVE  /\ SoftDeleted(row, u) \in Row
           /\ SoftDeleted(row, u).agent = row.agent
           /\ SoftDeleted(row, u).createdBy = row.createdBy
           /\ SoftDeleted(row, u).updatedBy = row.updatedBy
           /\ SoftDeleted(row, u).deleted /\ SoftDeleted(row, u).deletedBy = u
  BY DEF SoftDeleted, Row, MaybeUser

-----------------------------------------------------------------------------
(* Each action has a shape.                                                *)

\* The transaction a request begins is well formed.
LEMMA TxnType ==
    ASSUME NEW pc \in {"save", "insert"}, NEW op \in {"create", "update", "delete"},
           NEW actor \in MaybeUser, NEW i \in Ids, NEW S \in SUBSET Fields, NEW row \in Row
    PROVE  [pc |-> pc, op |-> op, actor |-> actor, id |-> i,
            supplied |-> S, inst |-> row] \in Txn
  BY DEF Txn

\* A soft delete of a live row begins a transaction, that of a deleted one is over.
LEMMA SoftDeleteShapes ==
    ASSUME TypeOK, NEW w \in Workers, NEW actor \in MaybeUser, NEW i \in Ids,
           Idle(w), Exists(i), SoftDelete(w, actor, i),
           IF actor = NoUser THEN AdminSite ELSE CanMutate(actor, rows[i])
    PROVE  Shape(w)
<1>1. CASE UNCHANGED vars
  BY <1>1 DEF Shape
<1>2. CASE /\ ~rows[i].deleted
           /\ Begin(w, "save", "delete", actor, i, {}, rows[i]) /\ UNCHANGED issued
  <2> DEFINE t == [pc |-> "save", op |-> "delete", actor |-> actor, id |-> i,
                   supplied |-> {}, inst |-> rows[i]]
  <2>1. rows[i] \in Row
    BY DEF TypeOK, Exists
  <2>2. t \in Txn
    BY <2>1, TxnType
  <2>3. Current(t, rows[i])
    BY <1>2 DEF Current, Privileged
  <2>4. Privileged(actor) \/ actor = rows[i].agent
    BY DEF CanMutate, Privileged
  <2>5. StartsWrite(w, t)
    BY <1>2, <2>2, <2>3, <2>4 DEF StartsWrite, Started, Begin
  <2>6. QED BY <2>2, <2>5 DEF Shape
<1>3. QED BY <1>1, <1>2 DEF SoftDelete

\* A request that passes the service's checks, or a form of the admin site,
\* begins a transaction whose instance those checks vouch for.
LEMMA RequestShapes ==
    ASSUME TypeOK, NEW w \in Workers, ApiRequest(w) \/ AdminRequest(w)
    PROVE  Shape(w)
<1> DEFINE T(pc, op, actor, i, S, row) ==
      [pc |-> pc, op |-> op, actor |-> actor, id |-> i, supplied |-> S, inst |-> row]
<1>1. ASSUME Refuse(w) PROVE Shape(w)
  BY <1>1 DEF Refuse, Answer, Shape
<1>2. ASSUME NEW actor \in Users, NEW new \in Payload, NEW wanted \in MaybeUser,
             Create(w, actor, new, wanted)
      PROVE  Shape(w)
  <2>1. CASE Answer(w, "denied")
    BY <2>1 DEF Answer, Shape
  <2>2. ASSUME MayAssign(actor, wanted), NEW i \in Ids \ issued,
               issued' = issued \cup {i}, Idle(w),
               Begin(w, "insert", "create", actor, i, Fields,
                     NewRow(ResolveAgent(actor, wanted), new, actor))
        PROVE  Shape(w)
    <3> DEFINE row == NewRow(ResolveAgent(actor, wanted), new, actor)
    <3> DEFINE t == T("insert", "create", actor, i, Fields, row)
    <3>1. ResolveAgent(actor, wanted) \in Users
      BY <2>2 DEF ResolveAgent, MaybeUser
    <3>2. row \in Row
      BY <3>1, NewRowType DEF MaybeUser
    <3>3. t \in Txn
      BY <3>2, TxnType DEF MaybeUser
    <3>4. Privileged(actor) \/ ResolveAgent(actor, wanted) = actor
      BY <2>2 DEF MayAssign, ResolveAgent, Privileged
    <3>5. Fresh(t)
      BY <3>4 DEF Fresh, NewRow
    <3>6. StartsCreate(w, t)
      BY <2>2, <3>3, <3>4, <3>5, StoreAssumption DEF StartsCreate, Started, Begin, NewRow
    <3>7. QED BY <3>3, <3>6 DEF Shape
  <2>3. QED BY <1>2, <2>1, <2>2 DEF Create
<1>3. ASSUME NEW actor \in Users, NEW i \in Ids, NEW partial \in BOOLEAN,
             NEW new \in PartialPayload, NEW wanted \in MaybeUser,
             Update(w, actor, i, partial, new, wanted)
      PROVE  Shape(w)
  <2>1. CASE \E status \in Refusals : Answer(w, status)
    BY <2>1 DEF Answer, Shape
  <2>2. ASSUME Idle(w), Live(i), CanMutate(actor, rows[i]),
               MayReassign(actor, wanted, rows[i]), UNCHANGED issued,
               Begin(w, "save", "update", actor, i, DOMAIN new,
                     Edited(rows[i], new, wanted, actor))
        PROVE  Shape(w)
    <3> DEFINE row == Edited(rows[i], new, wanted, actor)
    <3> DEFINE t == T("save", "update", actor, i, DOMAIN new, row)
    <3>1. rows[i] \in Row /\ actor \in MaybeUser
      BY <2>2 DEF TypeOK, Live, Exists, MaybeUser
    <3>2. /\ row \in Row
          /\ row.createdBy = rows[i].createdBy /\ row.updatedBy = actor
          /\ row.deleted = rows[i].deleted /\ row.deletedBy = rows[i].deletedBy
          /\ row.agent = IF wanted = NoUser THEN rows[i].agent ELSE wanted
          /\ \A f \in Fields \ DOMAIN new : row.fields[f] = rows[i].fields[f]
      BY <3>1, EditedType
    <3>3. DOMAIN new \in SUBSET Fields
      BY DEF PartialPayload
    <3>4. t \in Txn
      BY <3>2, <3>3, TxnType DEF MaybeUser
    <3>5. Privileged(actor) \/ actor = rows[i].agent
      BY <2>2 DEF CanMutate, Privileged
    <3>6. Privileged(actor) \/ row.agent = rows[i].agent
      BY <2>2, <3>2 DEF MayReassign, Privileged
    <3> HIDE DEF row
    <3>7. Current(t, rows[i])
      BY <2>2, <3>2, <3>6, StoreAssumption DEF Current, Live
    <3>8. StartsWrite(w, t)
      BY <2>2, <3>2, <3>4, <3>5, <3>6, <3>7, StoreAssumption
         DEF StartsWrite, Started, Begin, Live, row
    <3>9. QED BY <3>4, <3>8 DEF Shape
  <2>3. QED BY <1>3, <2>1, <2>2 DEF Update, Refusals
<1>4. ASSUME NEW actor \in Users, NEW i \in Ids, Delete(w, actor, i)
      PROVE  Shape(w)
  <2>1. CASE \E status \in Refusals : Answer(w, status)
    BY <2>1 DEF Answer, Shape
  <2>2. CASE Live(i) /\ CanMutate(actor, rows[i]) /\ SoftDelete(w, actor, i)
    <3>1. actor \in MaybeUser /\ actor # NoUser /\ Idle(w) /\ Exists(i)
      BY <1>4, <2>2, StoreAssumption DEF MaybeUser, Delete, Live
    <3>2. QED BY <2>2, <3>1, SoftDeleteShapes
  <2>3. QED BY <1>4, <2>1, <2>2 DEF Delete, Refusals
<1>5. ASSUME NEW agent \in Users, NEW new \in Payload, AdminAdd(w, agent, new)
      PROVE  Shape(w)
  <2>1. PICK i \in Ids \ issued :
          /\ issued' = issued \cup {i}
          /\ Begin(w, "insert", "create", NoUser, i, Fields, NewRow(agent, new, NoUser))
    BY <1>5 DEF AdminAdd
  <2> DEFINE t == T("insert", "create", NoUser, i, Fields, NewRow(agent, new, NoUser))
  <2>2. t \in Txn
    BY NewRowType, TxnType DEF MaybeUser
  <2>3. Fresh(t)
    BY DEF Fresh, NewRow, Privileged
  <2>4. StartsCreate(w, t)
    BY <1>5, <2>1, <2>2, <2>3 DEF AdminAdd, StartsCreate, Started, Begin, NewRow, Privileged
  <2>5. QED BY <2>2, <2>4 DEF Shape
<1>6. ASSUME NEW i \in Ids, NEW agent \in Users, NEW new \in Payload,
             AdminChange(w, i, agent, new)
      PROVE  Shape(w)
  <2> DEFINE row == Edited(rows[i], new, agent, rows[i].updatedBy)
  <2> DEFINE t == T("save", "update", NoUser, i, Fields, row)
  <2>1. rows[i] \in Row /\ rows[i].updatedBy \in MaybeUser
    BY <1>6 DEF AdminChange, TypeOK, Exists, Row
  <2>2. /\ row \in Row
        /\ row.createdBy = rows[i].createdBy /\ row.updatedBy = rows[i].updatedBy
        /\ row.deleted = rows[i].deleted /\ row.deletedBy = rows[i].deletedBy
    BY <2>1, EditedType, PayloadIsPartial DEF MaybeUser
  <2>3. t \in Txn
    BY <2>2, TxnType DEF MaybeUser
  <2> HIDE DEF row
  <2>4. Current(t, rows[i])
    BY <2>2 DEF Current, Privileged
  <2>5. StartsWrite(w, t)
    BY <1>6, <2>2, <2>3, <2>4 DEF AdminChange, StartsWrite, Started, Begin, Privileged, row
  <2>6. QED BY <2>3, <2>5 DEF Shape
<1>7. ASSUME NEW i \in Ids, AdminDelete(w, i)
      PROVE  Shape(w)
  <2>1. AdminSite /\ Idle(w) /\ Exists(i) /\ SoftDelete(w, NoUser, i)
    BY <1>7 DEF AdminDelete
  <2>2. QED BY <2>1, SoftDeleteShapes DEF MaybeUser
<1>8. ASSUME NEW S \in SUBSET Ids, AdminRestore(w, S) \/ AdminHardDelete(w, S)
      PROVE  Shape(w)
  <2>1. Changes(S)
    BY <1>8 DEF AdminRestore, AdminHardDelete, AdminStatement, Changes
  <2>2. QED BY <2>1 DEF Shape
<1>9. CASE ApiRequest(w)
  BY <1>1, <1>2, <1>3, <1>4, <1>9 DEF ApiRequest
<1>10. CASE AdminRequest(w)
  BY <1>5, <1>6, <1>7, <1>8, <1>10 DEF AdminRequest
<1>11. QED BY <1>9, <1>10

\* So does every other step: there are no steps but those of the five shapes.
LEMMA StepShapes ==
    ASSUME TypeOK, DeletesNeverInsert, [Next]_vars, Workers # {}
    PROVE  \E w \in Workers : Shape(w)
<1>1. CASE UNCHANGED vars
  BY <1>1 DEF Shape
<1>2. ASSUME NEW w \in Workers, Continue(w)
      PROVE  Shape(w)
  <2>1. CASE Save(w)
    <3>1. CASE Exists(txn[w].id) /\ lock[txn[w].id] = NoWorker /\ Wrote(w)
      BY <2>1, <3>1 DEF Save, At, Wrote, AfterWrite, Shape, Moves, Idle
    <3>2. CASE /\ ~Exists(txn[w].id) /\ txn[w].op = "update"
               /\ txn' = [txn EXCEPT ![w].pc = "insert"]
               /\ UNCHANGED <<rows, issued, lock, granted>>
      <4>1. Moves(w)
        BY <2>1, <3>2 DEF Save, At, Moves, Idle
      <4>2. QED BY <4>1 DEF Shape
    <3>3. CASE Rollback(w)
      BY <2>1, <3>3 DEF Save, At, Shape, Idle
    <3>4. QED BY <2>1, <3>1, <3>2, <3>3 DEF Save
  <2>2. CASE Insert(w)
    <3>1. txn[w].op # "delete"
      BY <2>2 DEF Insert, DeletesNeverInsert
    <3>2. CASE Wrote(w)
      BY <2>2, <3>1, <3>2 DEF Insert, At, Wrote, AfterWrite, Shape, Moves, Idle
    <3>3. CASE Rollback(w)
      BY <2>2, <3>3 DEF Insert, At, Shape, Idle
    <3>4. QED BY <2>2, <3>2, <3>3 DEF Insert
  <2>3. CASE Invalidate(w)
    BY <2>3 DEF Invalidate, Shape, Moves, Writing, At, Idle
  <2>4. CASE Commit(w)
    BY <2>4 DEF Shape
  <2>5. QED BY <1>2, <2>1, <2>2, <2>3, <2>4 DEF Continue
<1>3. ASSUME NEW w \in Workers, Abort(w)
      PROVE  Shape(w)
  BY <1>3 DEF Abort, Shape
<1>4. QED BY <1>1, <1>2, <1>3, RequestShapes DEF Next

-----------------------------------------------------------------------------
(* IInv is inductive, one group of its conjuncts after the other.          *)

\* An empty table with no request under way satisfies the invariant.
LEMMA InitIInv == Init => IInv
<1> SUFFICES ASSUME Init PROVE IInv
  OBVIOUS
<1>1. TypeOK
  BY DEF Init, TypeOK
<1>2. \A w \in Workers : Idle(w)
  BY DEF Init, Idle
<1>3. \A i \in Ids : ~Exists(i)
  BY DEF Init, Exists
<1>4. WritersHoldTheirRow /\ DeletesNeverInsert
  BY <1>2 DEF WritersHoldTheirRow, DeletesNeverInsert, Writing, At, Idle
<1>5. IdsAreIssued /\ CreatesAreAlone /\ CreatorsAgree
  BY <1>2, <1>3 DEF IdsAreIssued, CreatesAreAlone, CreatorsAgree
<1>6. /\ LiveRowsCarryNoDeleter /\ InstancesCarryNoDeleter
      /\ OwnerWasGranted /\ StampsAreAuthorised /\ WritersAreEntitled
  BY <1>2, <1>3 DEF LiveRowsCarryNoDeleter, InstancesCarryNoDeleter, OwnerWasGranted,
                    StampsAreAuthorised, WritersAreEntitled, Live
<1>7. QED BY <1>1, <1>4, <1>5, <1>6 DEF IInv

\* The transaction of a busy worker is well formed.
LEMMA BusyTxn ==
    ASSUME TypeOK, NEW w \in Workers, ~Idle(w)
    PROVE  /\ txn[w] \in Txn /\ txn[w].id \in Ids /\ txn[w].inst \in Row
           /\ txn[w].actor \in MaybeUser
           /\ txn[w].op \in {"create", "update", "delete"}
  BY DEF TypeOK, Idle, Txn

\* A commit writes a row: the instance, or the committed row with its deletion
\* columns set; the lock guarantees that row is still there.
LEMMA WrittenRow ==
    ASSUME TypeOK, WritersHoldTheirRow, NEW w \in Workers, At(w, "commit")
    PROVE  /\ Written(txn[w]) \in Row
           /\ txn[w].op # "delete" => Written(txn[w]) = txn[w].inst
           /\ txn[w].op = "delete" =>
                /\ rows[txn[w].id] \in Row
                /\ Written(txn[w]) = SoftDeleted(rows[txn[w].id], txn[w].actor)
<1>1. ~Idle(w) /\ Writing(w)
  BY DEF At, Idle, Writing
<1>2. txn[w].op = "delete" => rows[txn[w].id] \in Row
  BY <1>1, BusyTxn DEF WritersHoldTheirRow, Exists, TypeOK
<1>3. QED BY <1>1, <1>2, BusyTxn, SoftDeletedType DEF Written

\* Every shape of step keeps the types.
LEMMA TypeStep ==
    ASSUME IInv, NEW w \in Workers, Shape(w)
    PROVE  TypeOK'
<1>0. TypeOK /\ WritersHoldTheirRow
  BY DEF IInv
<1>1. ASSUME NEW t \in Txn, StartsCreate(w, t) \/ StartsWrite(w, t)
      PROVE  TypeOK'
  <2>1. t.id \in Ids
    BY DEF Txn
  <2>2. QED BY <1>0, <1>1, <2>1 DEF TypeOK, StartsCreate, StartsWrite, Started
<1>2. CASE Moves(w)
  <2>1. PICK p \in {"save", "insert", "invalidate", "commit"} :
          txn' = [txn EXCEPT ![w].pc = p]
    BY <1>2 DEF Moves
  <2>2. [txn[w] EXCEPT !.pc = p] \in Txn
    BY <1>0, <1>2, BusyTxn DEF Moves, Txn
  <2>3. txn' \in [Workers -> Txn \cup {NoTxn}]
    BY <1>0, <2>1, <2>2 DEF TypeOK
  <2>4. lock' \in [Ids -> Workers \cup {NoWorker}]
    BY <1>0, <1>2 DEF Moves, TypeOK
  <2>5. QED BY <1>0, <1>2, <2>3, <2>4 DEF Moves, TypeOK
<1>3. CASE Rollback(w)
  BY <1>0, <1>3 DEF Rollback, Finish, Released, TypeOK
<1>4. CASE Commit(w)
  <2>1. Written(txn[w]) \in Row /\ txn[w].inst \in Row /\ txn[w].actor \in MaybeUser
    BY <1>0, <1>4, WrittenRow, BusyTxn DEF Commit, At, Idle
  <2>2. Grants(txn[w]) \in SUBSET Users
    BY <2>1, StoreAssumption DEF Grants, Row, MaybeUser, IsAdmin
  <2>3. rows' \in [Ids -> Row \cup {NoRow}]
    BY <1>0, <1>4, <2>1 DEF Commit, TypeOK
  <2>4. granted' \in [Ids -> SUBSET Users]
    BY <1>0, <1>4, <2>2 DEF Commit, TypeOK
  <2>5. QED BY <1>0, <1>4, <2>3, <2>4 DEF Commit, Finish, Released, TypeOK
<1>5. ASSUME NEW S \in SUBSET Ids, Changes(S)
      PROVE  TypeOK'
  <2>1. \A i \in S : rows[i] \in Row /\ Restored(rows[i]) \in Row
    BY <1>0, <1>5, RestoredType DEF Changes, TypeOK, Exists
  <2>2. rows' \in [Ids -> Row \cup {NoRow}]
    BY <1>0, <1>5, <2>1 DEF Changes, TypeOK
  <2>3. QED BY <1>0, <1>5, <2>2 DEF Changes, TypeOK
<1>6. CASE UNCHANGED vars
  BY <1>0, <1>6 DEF TypeOK, vars
<1>7. QED BY <1>1, <1>2, <1>3, <1>4, <1>5, <1>6 DEF Shape

\* What WritersHoldTheirRow and DeletesNeverInsert say of one worker.
LockFacts(v) ==
    /\ Writing(v) => lock[txn[v].id] = v
    /\ Writing(v) /\ txn[v].op = "delete" => Exists(txn[v].id)
    /\ At(v, "insert") => txn[v].op # "delete"

\* A lock is taken free and given back by its holder alone, so a permanent
\* deletion, which waits for locks, spares the rows that are being written.
LEMMA LockStep ==
    ASSUME IInv, NEW w \in Workers, Shape(w)
    PROVE  WritersHoldTheirRow' /\ DeletesNeverInsert'
<1>0. TypeOK /\ WritersHoldTheirRow /\ DeletesNeverInsert
  BY DEF IInv
<1> SUFFICES ASSUME NEW v \in Workers PROVE LockFacts(v)'
  BY DEF WritersHoldTheirRow, DeletesNeverInsert, LockFacts
<1>a. LockFacts(v) /\ (txn[v] # NoTxn => txn[v].id \in Ids)
  BY <1>0, BusyTxn DEF WritersHoldTheirRow, DeletesNeverInsert, LockFacts, Idle
<1>1. ASSUME NEW t \in Txn, StartsCreate(w, t) \/ StartsWrite(w, t)
      PROVE  LockFacts(v)'
  <2>0. Started(w, t) /\ t.pc = "insert" => t.op # "delete"
    BY <1>1 DEF StartsCreate, StartsWrite
  <2>1. CASE v = w
    BY <1>0, <1>1, <2>0, <2>1
       DEF StartsCreate, StartsWrite, Started, TypeOK, LockFacts, Writing, At
  <2>2. CASE v # w
    <3>1. txn'[v] = txn[v] /\ lock' = lock /\ rows' = rows
      BY <1>0, <1>1, <2>2 DEF StartsCreate, StartsWrite, Started, TypeOK
    <3>2. QED BY <1>a, <3>1 DEF LockFacts, Writing, At, Exists
  <2>3. QED BY <2>1, <2>2
<1>2. CASE Moves(w)
  <2>0. PICK p \in {"save", "insert", "invalidate", "commit"} :
          /\ txn' = [txn EXCEPT ![w].pc = p]
          /\ \/ p = "insert" /\ txn[w].op = "update" /\ UNCHANGED lock
             \/ p = "commit" /\ Writing(w) /\ UNCHANGED lock
             \/ /\ p # "insert" /\ lock[txn[w].id] = NoWorker
                /\ txn[w].op = "delete" => Exists(txn[w].id)
                /\ lock' = [lock EXCEPT ![txn[w].id] = w]
    BY <1>2 DEF Moves
  <2>1. ~Idle(w) /\ rows' = rows /\ txn[w] \in Txn /\ txn[w].id \in Ids
    BY <1>0, <1>2, BusyTxn DEF Moves
  <2>2. CASE v = w
    <3>1. txn'[v].id = txn[v].id /\ txn'[v].op = txn[v].op /\ txn'[v].pc = p
      BY <1>0, <2>0, <2>1, <2>2 DEF TypeOK, Txn
    <3>2. QED BY <1>0, <1>a, <2>0, <2>1, <2>2, <3>1
              DEF TypeOK, LockFacts, Writing, At, Exists
  <2>3. CASE v # w
    <3>1. txn'[v] = txn[v]
      BY <1>0, <2>0, <2>3 DEF TypeOK
    <3>2. Writing(v) => lock'[txn[v].id] = v
      BY <1>0, <1>a, <2>0, <2>1, <2>3, StoreAssumption DEF TypeOK, LockFacts, Writing, At
    <3>3. QED BY <1>a, <2>1, <3>1, <3>2 DEF LockFacts, Writing, At, Exists
  <2>4. QED BY <2>2, <2>3
<1>3. ASSUME Finish(w), rows' = rows \/ Commit(w)
      PROVE  LockFacts(v)'
  <2>1. CASE v = w
    BY <1>0, <1>3, <2>1 DEF Finish, TypeOK, LockFacts, Writing, At
  <2>2. CASE v # w
    <3>1. txn'[v] = txn[v]
      BY <1>0, <1>3, <2>2 DEF Finish, TypeOK
    <3>2. Writing(v) => lock'[txn[v].id] = v
      BY <1>3, <1>a, <2>2 DEF Finish, Released, LockFacts, Writing, At
    <3>3. \A i \in Ids : Exists(i) => Exists(i)'
      <4>1. CASE rows' = rows
        BY <4>1 DEF Exists
      <4>2. CASE Commit(w)
        <5>1. Written(txn[w]) # NoRow
          BY <1>0, <4>2, WrittenRow, NullAssumption DEF Commit
        <5>2. QED BY <1>0, <4>2, <5>1 DEF Commit, Exists, TypeOK
      <4>3. QED BY <1>3, <4>1, <4>2
    <3>4. Writing(v)' => Writing(v)
      BY <3>1 DEF Writing, At
    <3>5. Exists(txn[v].id)' <=> rows'[txn[v].id] # NoRow
      BY <3>1 DEF Exists
    <3>6. QED BY <1>a, <3>1, <3>2, <3>3, <3>4, <3>5 DEF LockFacts, Writing, At, Exists
  <2>3. QED BY <2>1, <2>2
<1>4. ASSUME NEW S \in SUBSET Ids, Changes(S)
      PROVE  LockFacts(v)'
  <2>1. txn' = txn /\ lock' = lock
    BY <1>4 DEF Changes
  <2>2. \A i \in Ids : Exists(i) /\ lock[i] = v => rows'[i] # NoRow
    <3>1. SUFFICES ASSUME NEW i \in Ids, Exists(i), lock[i] = v PROVE rows'[i] # NoRow
      OBVIOUS
    <3>2. i \notin S
      BY <1>4, <3>1, StoreAssumption DEF Changes
    <3>3. QED BY <1>4, <3>1, <3>2 DEF Changes, Exists
  <2>3. QED BY <1>a, <2>1, <2>2 DEF LockFacts, Writing, At, Exists
<1>5. CASE UNCHANGED vars
  BY <1>a, <1>5 DEF vars, LockFacts, Writing, At, Exists
<1>6. QED BY <1>1, <1>2, <1>3, <1>4, <1>5 DEF Shape, Rollback, Commit

-----------------------------------------------------------------------------
(* What one step can do to a request, and to a row.                        *)

SameRequest(v) ==
    /\ ~Idle(v)
    /\ txn'[v].op = txn[v].op /\ txn'[v].actor = txn[v].actor
    /\ txn'[v].id = txn[v].id /\ txn'[v].inst = txn[v].inst
    /\ txn'[v].supplied = txn[v].supplied

\* A worker that is busy after a step either had the same request before it,
\* or is the one that has just begun.
LEMMA RequestStep ==
    ASSUME TypeOK, NEW w \in Workers, Shape(w), NEW v \in Workers, ~Idle(v)'
    PROVE  \/ SameRequest(v)
           \/ v = w /\ txn'[v] \in Txn
                    /\ (StartsCreate(w, txn'[v]) \/ StartsWrite(w, txn'[v]))
<1>1. ASSUME NEW t \in Txn, StartsCreate(w, t) \/ StartsWrite(w, t)
      PROVE  \/ SameRequest(v)
             \/ v = w /\ txn'[v] = t
  BY <1>1 DEF StartsCreate, StartsWrite, Started, TypeOK, SameRequest, Idle
<1>2. CASE Moves(w)
  <2>1. PICK p \in {"save", "insert", "invalidate", "commit"} :
          txn' = [txn EXCEPT ![w].pc = p]
    BY <1>2 DEF Moves
  <2>2. txn[w] \in Txn /\ ~Idle(w)
    BY <1>2, BusyTxn DEF Moves
  <2>3. CASE v = w
    BY <2>1, <2>2, <2>3 DEF TypeOK, Txn, SameRequest
  <2>4. CASE v # w
    BY <2>1, <2>4 DEF TypeOK, SameRequest, Idle
  <2>5. QED BY <2>3, <2>4
<1>3. CASE Finish(w)
  BY <1>3 DEF Finish, TypeOK, SameRequest, Idle
<1>4. CASE txn' = txn
  BY <1>4 DEF SameRequest, Idle
<1>5. QED BY <1>1, <1>2, <1>3, <1>4 DEF Shape, Rollback, Commit, Changes, vars

\* A row changes by a commit, by a restore or by a permanent deletion; nobody
\* is ever struck from the history of grants.
LEMMA RowStep ==
    ASSUME TypeOK, NEW w \in Workers, Shape(w), NEW i \in Ids
    PROVE  /\ \/ rows'[i] = rows[i]
              \/ Commit(w) /\ i = txn[w].id /\ rows'[i] = Written(txn[w])
              \/ Exists(i) /\ rows[i].deleted /\ rows'[i] = Restored(rows[i])
              \/ rows'[i] = NoRow
           /\ granted[i] \subseteq granted'[i]
<1>1. ASSUME NEW t \in Txn, StartsCreate(w, t) \/ StartsWrite(w, t)
      PROVE  UNCHANGED <<rows, granted>>
  BY <1>1 DEF StartsCreate, StartsWrite, Started
<1>2. CASE UNCHANGED <<rows, granted>>
  BY <1>2
<1>3. CASE Commit(w)
  BY <1>3 DEF Commit, TypeOK
<1>4. ASSUME NEW S \in SUBSET Ids, Changes(S)
      PROVE  /\ \/ rows'[i] = rows[i]
                \/ Exists(i) /\ rows[i].deleted /\ rows'[i] = Restored(rows[i])
                \/ rows'[i] = NoRow
             /\ granted[i] \subseteq granted'[i]
  BY <1>4 DEF Changes
<1>5. QED BY <1>1, <1>2, <1>3, <1>4 DEF Shape, Moves, Rollback, vars

\* A commit ends the request of its worker.
LEMMA CommitEnds ==
    ASSUME TypeOK, NEW w \in Workers, Commit(w)
    PROVE  Idle(w)' /\ ~Idle(w) /\ At(w, "commit") /\ txn[w].id \in Ids
<1>1. At(w, "commit") /\ ~Idle(w)
  BY DEF Commit, At, Idle
<1>2. Idle(w)'
  BY DEF Commit, Finish, Idle, TypeOK
<1>3. QED BY <1>1, <1>2, BusyTxn

\* Ids come from `issued` only, and every id in use is in it.
LEMMA IssueStep ==
    ASSUME IInv, NEW w \in Workers, Shape(w)
    PROVE  IdsAreIssued'
<1>0. TypeOK /\ IdsAreIssued
  BY DEF IInv
<1>1. issued \subseteq issued'
  BY DEF Shape, StartsCreate, StartsWrite, Moves, Rollback, Commit, Finish, Changes, vars
<1>2. ASSUME NEW i \in Ids, Exists(i)'
      PROVE  i \in issued'
  <2>1. CASE Exists(i)
    BY <1>0, <1>1, <2>1 DEF IdsAreIssued
  <2>2. CASE ~Exists(i)
    <3>1. Commit(w) /\ i = txn[w].id
      BY <1>0, <1>2, <2>2, RowStep DEF Exists
    <3>2. QED BY <1>0, <1>1, <3>1, CommitEnds DEF IdsAreIssued
  <2>3. QED BY <2>1, <2>2
<1>3. ASSUME NEW v \in Workers, ~Idle(v)'
      PROVE  txn'[v].id \in issued'
  <2>1. CASE SameRequest(v)
    BY <1>0, <1>1, <2>1 DEF SameRequest, IdsAreIssued
  <2>2. CASE StartsCreate(w, txn'[v])
    BY <2>2 DEF StartsCreate
  <2>3. CASE StartsWrite(w, txn'[v]) /\ txn'[v] \in Txn
    BY <1>0, <1>1, <2>3 DEF StartsWrite, IdsAreIssued, Txn
  <2>4. QED BY <1>0, <1>3, <2>1, <2>2, <2>3, RequestStep
<1>4. QED BY <1>2, <1>3 DEF IdsAreIssued

\* A new id is in no row and in no other request; the id of a create that is
\* under way is in no row either, and no request can be begun on it.
LEMMA AloneStep ==
    ASSUME IInv, NEW w \in Workers, Shape(w)
    PROVE  CreatesAreAlone'
<1>0. TypeOK /\ IdsAreIssued /\ CreatesAreAlone
  BY DEF IInv
<1> SUFFICES ASSUME NEW v \in Workers, ~Idle(v)', txn'[v].op = "create"
             PROVE  /\ rows'[txn'[v].id] = NoRow
                    /\ \A u \in Workers \ {v} : ~Idle(u)' => txn'[u].id # txn'[v].id
  BY DEF CreatesAreAlone, Exists
<1>1. CASE SameRequest(v)
  <2>1. /\ ~Idle(v) /\ txn[v].op = "create" /\ txn'[v].id = txn[v].id
        /\ txn[v].id \in Ids /\ ~Exists(txn[v].id)
    BY <1>0, <1>1, BusyTxn DEF SameRequest, CreatesAreAlone
  <2>2. rows'[txn[v].id] = NoRow
    <3>1. ~(Commit(w) /\ txn[w].id = txn[v].id)
      BY <1>0, <2>1, CommitEnds DEF CreatesAreAlone
    <3>2. QED BY <1>0, <2>1, <3>1, RowStep DEF Exists
  <2>3. ASSUME NEW u \in Workers \ {v}, ~Idle(u)'
        PROVE  txn'[u].id # txn[v].id
    <3>1. CASE SameRequest(u)
      BY <1>0, <2>1, <3>1 DEF SameRequest, CreatesAreAlone
    <3>2. CASE StartsCreate(w, txn'[u])
      BY <1>0, <2>1, <3>2 DEF StartsCreate, IdsAreIssued
    <3>3. CASE StartsWrite(w, txn'[u])
      BY <2>1, <3>3 DEF StartsWrite
    <3>4. QED BY <1>0, <2>3, <3>1, <3>2, <3>3, RequestStep
  <2>4. QED BY <2>1, <2>2, <2>3
<1>2. CASE v = w /\ txn'[v] \in Txn /\ StartsCreate(w, txn'[v])
  <2>1. /\ txn'[v].id \in Ids /\ txn'[v].id \notin issued /\ rows' = rows
    BY <1>2 DEF StartsCreate, Started, Txn
  <2>2. ASSUME NEW u \in Workers \ {v}, ~Idle(u)'
        PROVE  txn'[u].id # txn'[v].id
    <3>1. SameRequest(u)
      BY <1>0, <1>2, <2>2, RequestStep
    <3>2. QED BY <1>0, <2>1, <3>1 DEF SameRequest, IdsAreIssued
  <2>3. QED BY <1>0, <2>1, <2>2 DEF IdsAreIssued, Exists
<1>3. ~StartsWrite(w, txn'[v])
  BY DEF StartsWrite
<1>4. QED BY <1>0, <1>1, <1>2, <1>3, RequestStep

\* What CreatorsAgree says of a request and its row.
CreatorKnown(v) == Exists(txn[v].id) => txn[v].inst.createdBy = rows[txn[v].id].createdBy

\* A commit writes the creator its request read, and every other request for
\* the same listing has read the same one.
LEMMA CreatorStep ==
    ASSUME IInv, NEW w \in Workers, Shape(w)
    PROVE  CreatorsAgree'
<1>0. TypeOK /\ WritersHoldTheirRow /\ IdsAreIssued /\ CreatesAreAlone /\ CreatorsAgree
  BY DEF IInv
<1>1. ASSUME NEW v \in Workers, ~Idle(v)'
      PROVE  CreatorKnown(v)'
  <2>1. CASE SameRequest(v)
    <3> DEFINE i == txn[v].id
    <3>1. /\ ~Idle(v) /\ i \in Ids /\ txn'[v].id = i /\ txn'[v].inst = txn[v].inst
          /\ CreatorKnown(v)
      BY <1>0, <2>1, BusyTxn DEF SameRequest, CreatorsAgree, CreatorKnown
    <3>2. SUFFICES ASSUME rows'[i] # NoRow
                   PROVE  txn[v].inst.createdBy = rows'[i].createdBy
      BY <3>1 DEF CreatorKnown, Exists
    <3>3. CASE rows'[i] = rows[i]
      BY <3>1, <3>2, <3>3 DEF CreatorKnown, Exists
    <3>4. CASE Exists(i) /\ rows'[i] = Restored(rows[i])
      <4>1. rows[i] \in Row
        BY <1>0, <3>1, <3>4 DEF TypeOK, Exists
      <4>2. QED BY <3>1, <3>4, <4>1, RestoredType DEF CreatorKnown
    <3>5. CASE Commit(w) /\ i = txn[w].id /\ rows'[i] = Written(txn[w])
      <4>1. ~Idle(w) /\ At(w, "commit")
        BY <1>0, <3>5, CommitEnds
      <4>2. txn[w].inst.createdBy = txn[v].inst.createdBy
        BY <1>0, <3>1, <3>5, <4>1 DEF CreatorsAgree
      <4>3. CASE txn[w].op = "delete"
        <5>1. rows[i] \in Row /\ rows'[i] = SoftDeleted(rows[i], txn[w].actor)
          BY <1>0, <3>5, <4>1, <4>3, WrittenRow
        <5>2. rows'[i].createdBy = rows[i].createdBy
          BY <1>0, <4>1, <5>1, BusyTxn, SoftDeletedType
        <5>3. Exists(i)
          BY <5>1, NullAssumption DEF Exists
        <5>4. QED BY <3>1, <5>2, <5>3 DEF CreatorKnown
      <4>4. CASE txn[w].op # "delete"
        BY <1>0, <3>5, <4>1, <4>2, <4>4, WrittenRow
      <4>5. QED BY <4>3, <4>4
    <3>6. QED BY <1>0, <3>1, <3>2, <3>3, <3>4, <3>5, RowStep
  <2>2. CASE StartsCreate(w, txn'[v]) /\ txn'[v] \in Txn
    <3>1. rows'[txn'[v].id] = NoRow
      BY <1>0, <2>2 DEF StartsCreate, Started, IdsAreIssued, Exists, Txn
    <3>2. QED BY <3>1 DEF CreatorKnown, Exists
  <2>3. CASE StartsWrite(w, txn'[v])
    BY <2>3 DEF StartsWrite, Started, CreatorKnown
  <2>4. QED BY <1>0, <1>1, <2>1, <2>2, <2>3, RequestStep
<1>2. ASSUME NEW u \in Workers, NEW v \in Workers, ~Idle(u)', SameRequest(v),
             txn'[u].id = txn'[v].id
      PROVE  txn'[u].inst.createdBy = txn'[v].inst.createdBy
  <2>1. /\ ~Idle(v) /\ txn[v].id \in issued
        /\ txn'[v].id = txn[v].id /\ txn'[v].inst = txn[v].inst
    BY <1>0, <1>2 DEF SameRequest, IdsAreIssued
  <2>2. CASE SameRequest(u)
    BY <1>0, <1>2, <2>1, <2>2 DEF SameRequest, CreatorsAgree
  <2>3. CASE StartsCreate(w, txn'[u])
    BY <1>2, <2>1, <2>3 DEF StartsCreate
  <2>4. CASE StartsWrite(w, txn'[u])
    BY <1>0, <1>2, <2>1, <2>4 DEF StartsWrite, CreatorsAgree
  <2>5. QED BY <1>0, <1>2, <2>2, <2>3, <2>4, RequestStep
<1>3. ASSUME NEW u \in Workers, NEW v \in Workers, ~Idle(u)', ~Idle(v)',
             txn'[u].id = txn'[v].id
      PROVE  txn'[u].inst.createdBy = txn'[v].inst.createdBy
  <2>1. SameRequest(v) \/ v = w
    BY <1>0, <1>3, RequestStep
  <2>2. SameRequest(u) \/ u = w
    BY <1>0, <1>3, RequestStep
  <2>3. QED BY <1>2, <1>3, <2>1, <2>2
<1>4. QED BY <1>1, <1>3 DEF CreatorsAgree, CreatorKnown

\* The deletion columns travel together: into the instance a request loads,
\* and from there, or from a soft delete or a restore, into the row.
LEMMA DeleterStep ==
    ASSUME IInv, NEW w \in Workers, Shape(w)
    PROVE  LiveRowsCarryNoDeleter' /\ InstancesCarryNoDeleter'
<1>0. TypeOK /\ WritersHoldTheirRow /\ LiveRowsCarryNoDeleter /\ InstancesCarryNoDeleter
  BY DEF IInv
<1>1. ASSUME NEW i \in Ids, rows'[i] # NoRow, ~rows'[i].deleted
      PROVE  rows'[i].deletedBy = NoUser
  <2>1. CASE rows'[i] = rows[i]
    BY <1>0, <1>1, <2>1 DEF LiveRowsCarryNoDeleter, Live, Exists
  <2>2. CASE Exists(i) /\ rows'[i] = Restored(rows[i])
    BY <1>0, <2>2, RestoredType DEF TypeOK, Exists
  <2>3. CASE Commit(w) /\ i = txn[w].id /\ rows'[i] = Written(txn[w])
    <3>1. ~Idle(w) /\ At(w, "commit") /\ txn[w].actor \in MaybeUser
      BY <1>0, <2>3, CommitEnds, BusyTxn
    <3>2. txn[w].op # "delete"
      BY <1>0, <1>1, <2>3, <3>1, WrittenRow, SoftDeletedType
    <3>3. QED BY <1>0, <1>1, <2>3, <3>1, <3>2, WrittenRow DEF InstancesCarryNoDeleter
  <2>4. QED BY <1>0, <1>1, <2>1, <2>2, <2>3, RowStep
<1>2. ASSUME NEW v \in Workers, ~Idle(v)', ~txn'[v].inst.deleted
      PROVE  txn'[v].inst.deletedBy = NoUser
  <2>1. CASE SameRequest(v)
    BY <1>0, <1>2, <2>1 DEF SameRequest, InstancesCarryNoDeleter
  <2>2. CASE StartsCreate(w, txn'[v])
    BY <2>2 DEF StartsCreate
  <2>3. CASE StartsWrite(w, txn'[v]) /\ txn'[v] \in Txn
    BY <1>0, <1>2, <2>3 DEF StartsWrite, LiveRowsCarryNoDeleter, Live, Txn
  <2>4. QED BY <1>0, <1>2, <2>1, <2>2, <2>3, RequestStep
<1>3. QED BY <1>1, <1>2 DEF LiveRowsCarryNoDeleter, Live, Exists, InstancesCarryNoDeleter

-----------------------------------------------------------------------------
(* Ownership and the audit columns.                                        *)

Names(row) == {row.createdBy, row.updatedBy, row.deletedBy}

\* The checks of a request are made on a snapshot, yet they entitle it for
\* good: the history of grants only grows, so an agent who has lost the listing
\* meanwhile is still one it had belonged to.
LEMMA EntitledStep ==
    ASSUME IInv, NEW w \in Workers, Shape(w)
    PROVE  WritersAreEntitled'
<1>0. /\ TypeOK /\ OwnerWasGranted /\ StampsAreAuthorised /\ WritersAreEntitled
  BY DEF IInv
<1> SUFFICES ASSUME NEW v \in Workers, ~Idle(v)'
             PROVE  IF txn'[v].op = "create"
                    THEN /\ Privileged(txn'[v].actor) \/ txn'[v].inst.agent = txn'[v].actor
                         /\ Names(txn'[v].inst) \subseteq {txn'[v].actor, NoUser}
                    ELSE /\ txn'[v].actor \in granted'[txn'[v].id] \cup Admins \cup {NoUser}
                         /\ \/ Privileged(txn'[v].actor)
                            \/ txn'[v].inst.agent \in granted'[txn'[v].id]
                         /\ Names(txn'[v].inst)
                              \subseteq granted'[txn'[v].id] \cup Admins \cup {NoUser}
  BY DEF WritersAreEntitled, Names, Entitled, Privileged, IsAdmin
<1>1. CASE SameRequest(v)
  <2>1. granted[txn[v].id] \subseteq granted'[txn[v].id]
    BY <1>0, <1>1, BusyTxn, RowStep DEF SameRequest
  <2>2. QED BY <1>0, <1>1, <2>1 DEF SameRequest, WritersAreEntitled, Names, Entitled
<1>2. CASE StartsCreate(w, txn'[v])
  BY <1>2 DEF StartsCreate, Names
<1>3. CASE StartsWrite(w, txn'[v]) /\ txn'[v] \in Txn
  <2> DEFINE i == txn'[v].id
  <2>1. i \in Ids /\ Exists(i) /\ granted' = granted /\ txn'[v].op # "create"
    BY <1>3 DEF StartsWrite, Started, Txn
  <2>2. rows[i].agent \in granted[i]
    BY <1>0, <2>1 DEF OwnerWasGranted
  <2>3. Names(rows[i]) \subseteq granted[i] \cup Admins \cup {NoUser}
    BY <1>0, <2>1 DEF StampsAreAuthorised, Names
  <2>4. txn'[v].actor \in granted[i] \cup Admins \cup {NoUser}
    BY <1>3, <2>2 DEF StartsWrite, Privileged, IsAdmin
  <2>5. Privileged(txn'[v].actor) \/ txn'[v].inst.agent \in granted[i]
    BY <1>3, <2>2 DEF StartsWrite
  <2>6. Names(txn'[v].inst) \subseteq granted[i] \cup Admins \cup {NoUser}
    BY <1>3, <2>3, <2>4 DEF StartsWrite, Names
  <2>7. QED BY <2>1, <2>4, <2>5, <2>6
<1>4. QED BY <1>0, <1>1, <1>2, <1>3, RequestStep

\* A commit leaves an agent the history knows, and stamps of the entitled.
LEMMA OwnerStep ==
    ASSUME IInv, NEW w \in Workers, Shape(w)
    PROVE  OwnerWasGranted' /\ StampsAreAuthorised'
<1>0. /\ TypeOK /\ WritersHoldTheirRow
      /\ OwnerWasGranted /\ StampsAreAuthorised /\ WritersAreEntitled
  BY DEF IInv
<1> SUFFICES ASSUME NEW i \in Ids, rows'[i] # NoRow
             PROVE  /\ rows'[i].agent \in granted'[i]
                    /\ Names(rows'[i]) \subseteq granted'[i] \cup Admins \cup {NoUser}
  BY DEF OwnerWasGranted, StampsAreAuthorised, Exists, Names
<1>1. granted[i] \subseteq granted'[i]
  BY <1>0, RowStep
<1>2. Exists(i) => /\ rows[i] \in Row /\ rows[i].agent \in granted[i]
                   /\ Names(rows[i]) \subseteq granted[i] \cup Admins \cup {NoUser}
  BY <1>0 DEF TypeOK, OwnerWasGranted, StampsAreAuthorised, Exists, Names
<1>3. CASE rows'[i] = rows[i]
  BY <1>1, <1>2, <1>3 DEF Exists
<1>4. CASE Exists(i) /\ rows'[i] = Restored(rows[i])
  BY <1>1, <1>2, <1>4, RestoredType DEF Names
<1>5. CASE Commit(w) /\ i = txn[w].id /\ rows'[i] = Written(txn[w])
  <2>1. ~Idle(w) /\ At(w, "commit") /\ txn[w].actor \in MaybeUser
    BY <1>0, <1>5, CommitEnds, BusyTxn
  <2>2. granted'[i] = granted[i] \cup Grants(txn[w])
    BY <1>0, <1>5 DEF Commit, TypeOK
  <2>3. CASE txn[w].op = "delete"
    <3>1. rows[i] \in Row /\ rows'[i] = SoftDeleted(rows[i], txn[w].actor)
      BY <1>0, <1>5, <2>1, <2>3, WrittenRow
    <3>2. Exists(i)
      BY <3>1, NullAssumption DEF Exists
    <3>3. txn[w].actor \in granted[i] \cup Admins \cup {NoUser}
      BY <1>0, <1>5, <2>1, <2>3 DEF WritersAreEntitled, Entitled
    <3>4. QED BY <1>1, <1>2, <2>1, <3>1, <3>2, <3>3, SoftDeletedType DEF Names
  <2>4. CASE txn[w].op # "delete"
    <3>1. rows'[i] = txn[w].inst
      BY <1>0, <1>5, <2>1, <2>4, WrittenRow
    <3>2. CASE txn[w].op = "create"
      BY <1>0, <1>5, <2>1, <2>2, <3>1, <3>2
         DEF WritersAreEntitled, Grants, Privileged, IsAdmin, Names
    <3>3. CASE txn[w].op # "create"
      BY <1>0, <1>5, <2>1, <2>2, <2>4, <3>1, <3>3
         DEF WritersAreEntitled, Entitled, Grants, Privileged, IsAdmin, Names
    <3>4. QED BY <3>2, <3>3
  <2>5. QED BY <2>3, <2>4
<1>6. QED BY <1>0, <1>3, <1>4, <1>5, RowStep

-----------------------------------------------------------------------------
(* The theorems.                                                           *)

\* The invariant is inductive: each group of its conjuncts survives a step of
\* every shape.
LEMMA StepIInv == IInv /\ [Next]_vars => IInv'
<1>1. ASSUME IInv, UNCHANGED vars
      PROVE  IInv'
  BY <1>1 DEF vars, IInv, TypeOK, WritersHoldTheirRow, DeletesNeverInsert, IdsAreIssued,
              CreatesAreAlone, CreatorsAgree, LiveRowsCarryNoDeleter,
              InstancesCarryNoDeleter, OwnerWasGranted, StampsAreAuthorised,
              WritersAreEntitled, Writing, At, Idle, Exists, Live, Privileged, Entitled
<1>2. ASSUME IInv, Next
      PROVE  IInv'
  <2>1. Workers # {}
    BY <1>2 DEF Next
  <2>2. PICK w \in Workers : Shape(w)
    BY <1>2, <2>1, StepShapes DEF IInv
  <2>3. QED BY <1>2, <2>2, TypeStep, LockStep, IssueStep, AloneStep, CreatorStep,
               DeleterStep, OwnerStep, EntitledStep DEF IInv
<1>3. QED BY <1>1, <1>2

\* The inductive invariant holds in every behaviour of the listings table and
\* its write requests, however they interleave, crash or wait for each other.
THEOREM Invariance == Spec => []IInv
<1>1. Init => IInv
  BY InitIInv
<1>2. IInv /\ [Next]_vars => IInv'
  BY StepIInv
<1>3. QED BY <1>1, <1>2, PTL DEF Spec

\* Every variable keeps its type: whatever a request loads, edits, inserts or
\* restores is a well-formed row, and every lock belongs to a worker.
THEOREM TypeCorrectness == Spec => []TypeOK
<1>1. IInv => TypeOK
  BY DEF IInv
<1>2. QED BY <1>1, Invariance, PTL

\* No mixture of full saves, update_fields saves and bulk restores leaves a
\* deleter on a row that is not deleted.
THEOREM LiveRowsCarryNoDeleterAlways == Spec => []LiveRowsCarryNoDeleter
<1>1. IInv => LiveRowsCarryNoDeleter
  BY DEF IInv
<1>2. QED BY <1>1, Invariance, PTL

\* A listing never belongs to anybody but its creator or a user an
\* administrator gave it to, stale saves included.
THEOREM OwnerWasGrantedAlways == Spec => []OwnerWasGranted
<1>1. IInv => OwnerWasGranted
  BY DEF IInv
<1>2. QED BY <1>1, Invariance, PTL

\* The audit columns name only administrators and agents the listing belonged
\* to, although the permission check and the write are separate steps.
THEOREM StampsAreAuthorisedAlways == Spec => []StampsAreAuthorised
<1>1. IInv => StampsAreAuthorised
  BY DEF IInv
<1>2. QED BY <1>1, Invariance, PTL

\* One step leaves the creator of a row that stays as it is.
LEMMA CreatorKept ==
    ASSUME IInv, NEW w \in Workers, Shape(w), NEW i \in Ids, Exists(i), Exists(i)'
    PROVE  rows'[i].createdBy = rows[i].createdBy
<1>0. TypeOK /\ WritersHoldTheirRow /\ CreatorsAgree /\ rows[i] \in Row
  BY DEF IInv, TypeOK, Exists
<1>1. CASE rows'[i] = Restored(rows[i])
  BY <1>0, <1>1, RestoredType
<1>2. CASE Commit(w) /\ i = txn[w].id /\ rows'[i] = Written(txn[w])
  <2>1. ~Idle(w) /\ At(w, "commit") /\ txn[w].actor \in MaybeUser
    BY <1>0, <1>2, CommitEnds, BusyTxn
  <2>2. txn[w].inst.createdBy = rows[i].createdBy
    BY <1>0, <1>2, <2>1 DEF CreatorsAgree
  <2>3. txn[w].op = "delete" => rows'[i].createdBy = rows[i].createdBy
    BY <1>0, <1>2, <2>1, WrittenRow, SoftDeletedType
  <2>4. QED BY <1>0, <1>2, <2>1, <2>2, <2>3, WrittenRow
<1>3. QED BY <1>0, <1>1, <1>2, RowStep DEF Exists

\* created_by is written once: a full save of a snapshot, or the INSERT it
\* falls back to, writes back the creator that is there.
THEOREM CreatorNeverRewrittenEver == Spec => CreatorNeverRewritten
<1>1. IInv /\ [Next]_vars =>
        [\A i \in Ids : Exists(i) /\ Exists(i)' => rows'[i].createdBy = rows[i].createdBy]_vars
  <2> SUFFICES ASSUME IInv, Next
               PROVE  \A i \in Ids : Exists(i) /\ Exists(i)'
                                       => rows'[i].createdBy = rows[i].createdBy
    OBVIOUS
  <2>1. Workers # {}
    BY DEF Next
  <2>2. PICK w \in Workers : Shape(w)
    BY <2>1, StepShapes DEF IInv
  <2>3. QED BY <2>2, CreatorKept
<1>2. QED BY <1>1, Invariance, PTL DEF Spec, CreatorNeverRewritten
=============================================================================
