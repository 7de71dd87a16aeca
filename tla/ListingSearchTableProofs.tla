---------------------- MODULE ListingSearchTableProofs ----------------------
(***************************************************************************)
(* What ListingSearch promises that rests on the contents of the table:    *)
(* its types, and that cached results are current while requests take      *)
(* turns.                                                                  *)
(*                                                                         *)
(* Behaviours of the composition are behaviours of the table               *)
(* (ImplementsTable), but what ListingStoreProofs proves of those cannot   *)
(* be cited for an instance, so the part of its argument that is needed    *)
(* here is made again.                                                     *)
(***************************************************************************)
EXTENDS ListingSearchProofs

\* The types of the table are inductive with what the locks guarantee: the row
\* of a soft deletion is there until the deletion commits.
TableIInv == Table!TypeOK /\ Table!WritersHoldTheirRow /\ Table!DeletesNeverInsert

\* What a step does to the table, as far as the types and the locks can tell.
Starts(w, t) ==
    /\ Table!Idle(w) /\ txn' = [txn EXCEPT ![w] = t]
    /\ t.pc \in {"save", "insert"} /\ (t.pc = "insert" => t.op # "delete")
    /\ t.actor = NoUser => AdminSite
    /\ issued' \subseteq Ids /\ UNCHANGED <<rows, lock, granted>>

Moves(w, pc) ==
    /\ ~Table!Idle(w) /\ txn' = [txn EXCEPT ![w].pc = pc]
    /\ \/ pc = "insert" /\ txn[w].op = "update" /\ UNCHANGED lock
       \/ pc = "commit" /\ Table!Writing(w) /\ UNCHANGED lock
       \/ /\ pc # "insert" /\ lock[txn[w].id] = NoWorker
          /\ txn[w].op = "delete" => Table!Exists(txn[w].id)
          /\ lock' = [lock EXCEPT ![txn[w].id] = w]
    /\ UNCHANGED <<rows, issued, granted>>

BulkWrites(S) ==
    /\ AdminSite
    /\ \A i \in S : Table!Exists(i) /\ lock[i] = NoWorker
    /\ \/ rows' = [i \in Ids |-> IF i \in S THEN Table!Restored(rows[i]) ELSE rows[i]]
       \/ rows' = [i \in Ids |-> IF i \in S THEN NoRow ELSE rows[i]]
    /\ UNCHANGED <<issued, lock, txn, granted>>

TableShape(w) ==
    \/ \E t \in Table!Txn : Starts(w, t)
    \/ \E pc \in {"save", "insert", "invalidate", "commit"} : Moves(w, pc)
    \/ Table!Rollback(w)
    \/ Table!Commit(w)
    \/ \E S \in SUBSET Ids : BulkWrites(S)
    \/ UNCHANGED tableVars

-----------------------------------------------------------------------------
(* Each step has a shape.                                                  *)

\* An update of a row, by a form or a payload, is a row.
LEMMA EditedIsRow ==
    ASSUME NEW row \in Table!Row, NEW new \in Table!PartialPayload,
           NEW wanted \in Table!MaybeUser, NEW u \in Table!MaybeUser
    PROVE  Table!Edited(row, new, wanted, u) \in Table!Row /\ DOMAIN new \subseteq Fields
<1> DEFINE columns == [f \in Fields |-> IF f \in DOMAIN new THEN new[f] ELSE row.fields[f]]
<1>1. PICK S \in SUBSET Fields : new \in [S -> Values]
  BY DEF Table!PartialPayload
<1>2. row.fields \in [Fields -> Values]
  BY DEF Table!Row
<1>3. columns \in [Fields -> Values]
  BY <1>1, <1>2
<1>4. Table!Edited(row, new, wanted, u) =
        [row EXCEPT !.fields = columns,
                    !.agent = IF wanted = NoUser THEN @ ELSE wanted,
                    !.updatedBy = u]
  BY DEF Table!Edited, Table!Row
<1> HIDE DEF columns
<1>5. QED BY <1>1, <1>3, <1>4 DEF Table!Row, Table!MaybeUser

\* Whatever a request begins with is a transaction.
LEMMA BeginShape ==
    ASSUME NEW w \in Clients, NEW first \in {"save", "insert"},
           NEW op \in {"create", "update", "delete"}, first = "insert" => op # "delete",
           NEW actor \in Table!MaybeUser, actor = NoUser => AdminSite,
           NEW i \in Ids, NEW S \in SUBSET Fields, NEW row \in Table!Row,
           Table!Idle(w), issued' \subseteq Ids, Table!Begin(w, first, op, actor, i, S, row)
    PROVE  TableShape(w)
<1> DEFINE t == [pc |-> first, op |-> op, actor |-> actor, id |-> i,
                 supplied |-> S, inst |-> row]
<1>1. t \in Table!Txn
  BY DEF Table!Txn
<1>2. Starts(w, t)
  BY DEF Starts, Table!Begin
<1>3. QED BY <1>1, <1>2 DEF TableShape

\* A deletion begins a transaction, or finds the row deleted and writes nothing.
LEMMA SoftDeleteShape ==
    ASSUME Table!TypeOK, NEW w \in Clients, NEW actor \in Table!MaybeUser,
           actor = NoUser => AdminSite, NEW i \in Ids,
           Table!Idle(w), Table!Exists(i), Table!SoftDelete(w, actor, i)
    PROVE  TableShape(w)
<1>1. rows[i] \in Table!Row
  BY DEF Table!TypeOK, Table!Exists
<1>2. CASE UNCHANGED Table!vars
  BY <1>2 DEF Table!vars, tableVars, TableShape
<1>3. CASE /\ Table!Begin(w, "save", "delete", actor, i, {}, rows[i])
           /\ UNCHANGED issued
  <2>1. issued' \subseteq Ids
    BY <1>3 DEF Table!TypeOK
  <2>2. QED BY <1>1, <1>3, <2>1, BeginShape
<1>4. QED BY <1>2, <1>3 DEF Table!SoftDelete

\* A request of the API is refused, or begins a transaction with a row.
LEMMA ApiShape ==
    ASSUME Table!TypeOK, NEW w \in Clients, Table!ApiRequest(w)
    PROVE  TableShape(w)
<1>0. \A i \in Ids : Table!Exists(i) => rows[i] \in Table!Row
  BY DEF Table!TypeOK, Table!Exists
<1>1. ASSUME NEW status, Table!Answer(w, status)
      PROVE  TableShape(w)
  BY <1>1 DEF Table!Answer, Table!vars, tableVars, TableShape
<1>2. CASE Table!Refuse(w)
  BY <1>1, <1>2 DEF Table!Refuse
<1>3. ASSUME NEW actor \in Users, NEW new \in Table!Payload, NEW wanted \in Table!MaybeUser,
             Table!Create(w, actor, new, wanted)
      PROVE  TableShape(w)
  <2> DEFINE row == Table!NewRow(Table!ResolveAgent(actor, wanted), new, actor)
  <2>1. ASSUME NEW i \in Ids \ issued, issued' = issued \cup {i}, Table!Idle(w),
               Table!Begin(w, "insert", "create", actor, i, Fields, row)
        PROVE  TableShape(w)
    <3>1. row \in Table!Row
      BY DEF Table!NewRow, Table!ResolveAgent, Table!Row, Table!Payload, Table!MaybeUser
    <3>2. issued' \subseteq Ids /\ actor \in Table!MaybeUser /\ actor # NoUser
      BY <2>1, TableAssumption DEF Table!TypeOK, Table!MaybeUser
    <3> HIDE DEF row
    <3>3. QED BY <2>1, <3>1, <3>2, BeginShape
  <2>2. QED BY <1>1, <1>3, <2>1 DEF Table!Create
<1>4. ASSUME NEW actor \in Users, NEW i \in Ids, NEW partial \in BOOLEAN,
             NEW new \in Table!PartialPayload, NEW wanted \in Table!MaybeUser,
             Table!Update(w, actor, i, partial, new, wanted)
      PROVE  TableShape(w)
  <2> DEFINE row == Table!Edited(rows[i], new, wanted, actor)
  <2>1. ASSUME Table!Idle(w), Table!Live(i), UNCHANGED issued,
               Table!Begin(w, "save", "update", actor, i, DOMAIN new, row)
        PROVE  TableShape(w)
    <3>1. row \in Table!Row /\ DOMAIN new \subseteq Fields /\ actor \in Table!MaybeUser
      BY <1>0, <2>1, EditedIsRow DEF Table!Live, Table!MaybeUser
    <3>2. issued' \subseteq Ids /\ actor # NoUser
      BY <2>1, TableAssumption DEF Table!TypeOK
    <3> HIDE DEF row
    <3>3. QED BY <2>1, <3>1, <3>2, BeginShape
  <2>2. QED BY <1>1, <1>4, <2>1 DEF Table!Update
<1>5. ASSUME NEW actor \in Users, NEW i \in Ids, Table!Delete(w, actor, i)
      PROVE  TableShape(w)
  <2>1. ASSUME Table!Idle(w), Table!Live(i), Table!SoftDelete(w, actor, i)
        PROVE  TableShape(w)
    <3>1. actor \in Table!MaybeUser /\ actor # NoUser /\ Table!Exists(i)
      BY <2>1, TableAssumption DEF Table!Live, Table!MaybeUser
    <3>2. QED BY <2>1, <3>1, SoftDeleteShape
  <2>2. QED BY <1>1, <1>5, <2>1 DEF Table!Delete
<1>6. QED BY <1>2, <1>3, <1>4, <1>5 DEF Table!ApiRequest

\* So does a form of the admin site; its bulk actions write at once.
LEMMA AdminShape ==
    ASSUME Table!TypeOK, NEW w \in Clients, Table!AdminRequest(w)
    PROVE  TableShape(w)
<1>0. \A i \in Ids : Table!Exists(i) => rows[i] \in Table!Row
  BY DEF Table!TypeOK, Table!Exists
<1>1. issued \subseteq Ids /\ NoUser \in Table!MaybeUser
  BY DEF Table!TypeOK, Table!MaybeUser
<1>2. ASSUME NEW agent \in Users, NEW new \in Table!Payload, Table!AdminAdd(w, agent, new)
      PROVE  TableShape(w)
  <2> DEFINE row == Table!NewRow(agent, new, NoUser)
  <2>1. row \in Table!Row
    BY DEF Table!NewRow, Table!Row, Table!Payload, Table!MaybeUser
  <2>2. PICK i \in Ids \ issued :
          /\ issued' = issued \cup {i}
          /\ Table!Begin(w, "insert", "create", NoUser, i, Fields, row)
    BY <1>2 DEF Table!AdminAdd
  <2> HIDE DEF row
  <2>3. QED BY <1>1, <1>2, <2>1, <2>2, BeginShape DEF Table!AdminAdd
<1>3. ASSUME NEW i \in Ids, NEW agent \in Users, NEW new \in Table!Payload,
             Table!AdminChange(w, i, agent, new)
      PROVE  TableShape(w)
  <2> DEFINE row == Table!Edited(rows[i], new, agent, rows[i].updatedBy)
  <2>1. rows[i] \in Table!Row /\ rows[i].updatedBy \in Table!MaybeUser
    BY <1>0, <1>3 DEF Table!AdminChange, Table!Row
  <2>2. new \in Table!PartialPayload /\ agent \in Table!MaybeUser
    BY DEF Table!Payload, Table!PartialPayload, Table!MaybeUser
  <2>3. row \in Table!Row
    BY <2>1, <2>2, EditedIsRow
  <2> HIDE DEF row
  <2>4. Table!Begin(w, "save", "update", NoUser, i, Fields, row)
    BY <1>3 DEF Table!AdminChange, row
  <2>5. QED BY <1>1, <1>3, <2>3, <2>4, BeginShape DEF Table!AdminChange
<1>4. ASSUME NEW i \in Ids, Table!AdminDelete(w, i)
      PROVE  TableShape(w)
  BY <1>1, <1>4, SoftDeleteShape DEF Table!AdminDelete
<1>5. ASSUME NEW S \in SUBSET Ids, Table!AdminRestore(w, S) \/ Table!AdminHardDelete(w, S)
      PROVE  TableShape(w)
  <2>1. BulkWrites(S)
    BY <1>5 DEF Table!AdminRestore, Table!AdminHardDelete, Table!AdminStatement, BulkWrites
  <2>2. QED BY <2>1 DEF TableShape
<1>6. QED BY <1>2, <1>3, <1>4, <1>5 DEF Table!AdminRequest

\* So do the later steps of a transaction.
LEMMA TableShapes ==
    ASSUME TableIInv, NEW w \in Clients,
           Table!ApiRequest(w) \/ Table!AdminRequest(w) \/ Table!Continue(w) \/ Table!Abort(w)
    PROVE  TableShape(w)
<1>1. CASE Table!Save(w)
  <2>1. ~Table!Idle(w)
    BY <1>1 DEF Table!Save, Table!At, Table!Idle
  <2>2. CASE Table!Exists(txn[w].id) /\ lock[txn[w].id] = NoWorker /\ Table!Wrote(w)
    BY <2>1, <2>2 DEF Table!Wrote, Table!AfterWrite, Moves, TableShape
  <2>3. CASE txn[w].op = "update" /\ txn' = [txn EXCEPT ![w].pc = "insert"]
             /\ UNCHANGED <<rows, issued, lock, granted>>
    BY <2>1, <2>3 DEF Moves, TableShape
  <2>4. QED BY <1>1, <2>2, <2>3 DEF Table!Save, TableShape
<1>2. CASE Table!Insert(w)
  <2>1. ~Table!Idle(w) /\ txn[w].op # "delete"
    BY <1>2 DEF Table!Insert, Table!At, Table!Idle, TableIInv, Table!DeletesNeverInsert
  <2>2. CASE Table!Wrote(w)
    BY <1>2, <2>1, <2>2 DEF Table!Insert, Table!Wrote, Table!AfterWrite, Moves, TableShape
  <2>3. QED BY <1>2, <2>2 DEF Table!Insert, TableShape
<1>3. CASE Table!Invalidate(w)
  BY <1>3 DEF Table!Invalidate, Table!At, Table!Idle, Table!Writing, Moves, TableShape
<1>4. QED BY <1>1, <1>2, <1>3, ApiShape, AdminShape
          DEF TableIInv, Table!Continue, Table!Abort, TableShape

-----------------------------------------------------------------------------
(* The shapes keep the types and what the locks guarantee.                 *)

\* A busy thread has a transaction.
LEMMA BusyThread ==
    ASSUME Table!TypeOK, NEW w \in Clients, ~Table!Idle(w)
    PROVE  /\ txn[w] \in Table!Txn /\ txn[w].id \in Ids /\ txn[w].inst \in Table!Row
           /\ txn[w].actor \in Table!MaybeUser
           /\ txn[w].op \in {"create", "update", "delete"}
  BY DEF Table!TypeOK, Table!Idle, Table!Txn

\* A commit writes a row: that of its instance, or one that the lock has kept.
LEMMA CommittedIsRow ==
    ASSUME TableIInv, NEW w \in Clients, Table!At(w, "commit")
    PROVE  Table!Written(txn[w]) \in Table!Row
<1>1. ~Table!Idle(w) /\ Table!Writing(w)
  BY DEF Table!At, Table!Idle, Table!Writing
<1>2. txn[w].op = "delete" => rows[txn[w].id] \in Table!Row
  BY <1>1, BusyThread DEF TableIInv, Table!WritersHoldTheirRow, Table!Exists, Table!TypeOK
<1>3. QED BY <1>1, <1>2, BusyThread
          DEF TableIInv, Table!Written, Table!SoftDeleted, Table!Row, Table!MaybeUser

\* Every shape keeps the types.
LEMMA TableTypes ==
    ASSUME TableIInv, NEW w \in Clients, TableShape(w)
    PROVE  Table!TypeOK'
<1>0. Table!TypeOK
  BY DEF TableIInv
<1>1. ASSUME NEW t \in Table!Txn, Starts(w, t)
      PROVE  Table!TypeOK'
  BY <1>0, <1>1 DEF Table!TypeOK, Starts
<1>2. ASSUME NEW pc \in {"save", "insert", "invalidate", "commit"}, Moves(w, pc)
      PROVE  Table!TypeOK'
  <2>1. txn[w] \in Table!Txn /\ txn[w].id \in Ids
    BY <1>0, <1>2, BusyThread DEF Moves
  <2>2. [txn[w] EXCEPT !.pc = pc] \in Table!Txn
    BY <2>1 DEF Table!Txn
  <2>3. txn' \in [Clients -> Table!Txn \cup {NoTxn}]
    BY <1>0, <1>2, <2>2 DEF Moves, Table!TypeOK
  <2>4. lock' \in [Ids -> Clients \cup {NoWorker}]
    BY <1>0, <1>2, <2>1 DEF Moves, Table!TypeOK
  <2>5. QED BY <1>0, <1>2, <2>3, <2>4 DEF Moves, Table!TypeOK
<1>3. CASE Table!Rollback(w)
  BY <1>0, <1>3 DEF Table!Rollback, Table!Finish, Table!Released, Table!TypeOK
<1>4. CASE Table!Commit(w)
  <2>1. /\ Table!Written(txn[w]) \in Table!Row
        /\ txn[w].inst \in Table!Row /\ txn[w].actor \in Table!MaybeUser
    BY <1>0, <1>4, CommittedIsRow, BusyThread DEF Table!Commit, Table!At, Table!Idle
  <2>2. Table!Grants(txn[w]) \in SUBSET Users
    BY <2>1, TableAssumption DEF Table!Grants, Table!Row, Table!MaybeUser, Table!IsAdmin
  <2>3. rows' \in [Ids -> Table!Row \cup {NoRow}]
    BY <1>0, <1>4, <2>1 DEF Table!Commit, Table!TypeOK
  <2>4. granted' \in [Ids -> SUBSET Users]
    BY <1>0, <1>4, <2>2 DEF Table!Commit, Table!TypeOK
  <2>5. QED BY <1>0, <1>4, <2>3, <2>4
            DEF Table!Commit, Table!Finish, Table!Released, Table!TypeOK
<1>5. ASSUME NEW S \in SUBSET Ids, BulkWrites(S)
      PROVE  Table!TypeOK'
  <2>1. \A i \in S : rows[i] \in Table!Row
    BY <1>0, <1>5 DEF BulkWrites, Table!TypeOK, Table!Exists
  <2>2. \A i \in S : Table!Restored(rows[i]) \in Table!Row
    BY <2>1 DEF Table!Restored, Table!Row, Table!MaybeUser
  <2>3. rows' \in [Ids -> Table!Row \cup {NoRow}]
    BY <1>0, <1>5, <2>2 DEF BulkWrites, Table!TypeOK
  <2>4. QED BY <1>0, <1>5, <2>3 DEF BulkWrites, Table!TypeOK
<1>6. CASE UNCHANGED tableVars
  BY <1>0, <1>6 DEF Table!TypeOK, tableVars
<1>7. QED BY <1>1, <1>2, <1>3, <1>4, <1>5, <1>6 DEF TableShape

\* What the locks guarantee of one thread.
Guarded(v) ==
    /\ Table!Writing(v) => /\ lock[txn[v].id] = v
                           /\ txn[v].op = "delete" => Table!Exists(txn[v].id)
    /\ Table!At(v, "insert") => txn[v].op # "delete"

\* A step that leaves a thread its transaction, its lock and its row leaves it
\* what the locks guarantee.
LEMMA GuardKept ==
    ASSUME NEW v \in Clients, Guarded(v), txn'[v] = txn[v],
           Table!Writing(v) => lock'[txn[v].id] = v,
           Table!Writing(v) /\ Table!Exists(txn[v].id) => rows'[txn[v].id] # NoRow
    PROVE  Guarded(v)'
  BY DEF Guarded, Table!Writing, Table!At, Table!Exists

\* Every shape keeps that: a lock is taken when it is free, given back by its
\* holder alone, and a row is removed when nobody holds it.
LEMMA TableLocks ==
    ASSUME TableIInv, NEW w \in Clients, TableShape(w), NEW v \in Clients
    PROVE  Guarded(v)'
<1>0. Table!TypeOK /\ Guarded(v) /\ (txn[v] # NoTxn => txn[v].id \in Ids)
  BY BusyThread DEF TableIInv, Table!WritersHoldTheirRow, Table!DeletesNeverInsert, Guarded,
                    Table!Idle
<1>1. ASSUME NEW t \in Table!Txn, Starts(w, t)
      PROVE  Guarded(v)'
  <2>1. CASE v = w
    <3>1. txn'[v] = t
      BY <1>0, <1>1, <2>1 DEF Starts, Table!TypeOK
    <3>2. QED BY <1>1, <3>1 DEF Starts, Guarded, Table!Writing, Table!At
  <2>2. CASE v # w
    <3>1. txn'[v] = txn[v] /\ lock' = lock /\ rows' = rows
      BY <1>0, <1>1, <2>2 DEF Starts, Table!TypeOK
    <3>2. QED BY <1>0, <3>1, GuardKept DEF Guarded, Table!Exists
  <2>3. QED BY <2>1, <2>2
<1>2. ASSUME NEW pc \in {"save", "insert", "invalidate", "commit"}, Moves(w, pc)
      PROVE  Guarded(v)'
  <2>1. txn[w] \in Table!Txn /\ txn[w].id \in Ids /\ rows' = rows
    BY <1>0, <1>2, BusyThread DEF Moves
  <2>2. CASE v = w
    <3>1. txn'[v].id = txn[v].id /\ txn'[v].op = txn[v].op /\ txn'[v].pc = pc
      BY <1>0, <1>2, <2>1, <2>2 DEF Moves, Table!TypeOK, Table!Txn
    <3>2. QED BY <1>0, <1>2, <2>1, <2>2, <3>1
              DEF Moves, Table!TypeOK, Guarded, Table!Writing, Table!At, Table!Exists
  <2>3. CASE v # w
    <3>1. txn'[v] = txn[v]
      BY <1>0, <1>2, <2>3 DEF Moves, Table!TypeOK
    <3>2. Table!Writing(v) => lock'[txn[v].id] = v
      BY <1>0, <1>2, <2>1, <2>3, TableAssumption
         DEF Moves, Table!TypeOK, Guarded, Table!Writing, Table!At
    <3>3. QED BY <1>0, <2>1, <3>1, <3>2, GuardKept DEF Table!Exists
  <2>4. QED BY <2>2, <2>3
<1>3. ASSUME Table!Finish(w), \A i \in Ids : Table!Exists(i) => rows'[i] # NoRow
      PROVE  Guarded(v)'
  <2>1. CASE v = w
    BY <1>0, <1>3, <2>1 DEF Table!Finish, Table!TypeOK, Guarded, Table!Writing, Table!At
  <2>2. CASE v # w
    <3>1. txn'[v] = txn[v]
      BY <1>0, <1>3, <2>2 DEF Table!Finish, Table!TypeOK
    <3>2. Table!Writing(v) => txn[v].id \in Ids
      BY <1>0 DEF Table!Writing, Table!At
    <3>3. Table!Writing(v) => lock'[txn[v].id] = v
      BY <1>0, <1>3, <2>2, <3>2 DEF Table!Finish, Table!Released, Guarded
    <3>4. QED BY <1>0, <1>3, <3>1, <3>2, <3>3, GuardKept
  <2>3. QED BY <2>1, <2>2
<1>4. CASE Table!Rollback(w)
  BY <1>3, <1>4 DEF Table!Rollback, Table!Exists
<1>5. CASE Table!Commit(w)
  <2>1. Table!Written(txn[w]) # NoRow
    BY <1>5, CommittedIsRow, TableAssumption DEF Table!Commit
  <2>2. \A i \in Ids : Table!Exists(i) => rows'[i] # NoRow
    BY <1>0, <1>5, <2>1 DEF Table!Commit, Table!Exists, Table!TypeOK
  <2>3. QED BY <1>3, <1>5, <2>2 DEF Table!Commit
<1>6. ASSUME NEW S \in SUBSET Ids, BulkWrites(S)
      PROVE  Guarded(v)'
  <2>1. txn' = txn /\ lock' = lock
    BY <1>6 DEF BulkWrites
  <2>2. ASSUME Table!Writing(v), Table!Exists(txn[v].id)
        PROVE  rows'[txn[v].id] # NoRow
    <3>1. txn[v].id \in Ids \ S
      BY <1>0, <1>6, <2>2, TableAssumption DEF BulkWrites, Guarded, Table!Writing, Table!At
    <3>2. rows'[txn[v].id] = rows[txn[v].id]
      BY <1>6, <3>1 DEF BulkWrites
    <3>3. QED BY <2>2, <3>2 DEF Table!Exists
  <2>3. QED BY <1>0, <2>1, <2>2, GuardKept DEF Guarded
<1>7. CASE UNCHANGED tableVars
  BY <1>0, <1>7, GuardKept DEF tableVars, Guarded, Table!Exists
<1>8. QED BY <1>1, <1>2, <1>4, <1>5, <1>6, <1>7 DEF TableShape

-----------------------------------------------------------------------------
\* The types of the table and what the locks guarantee hold of an empty table,
\* and every step of the composition keeps them.
LEMMA TableInvariance == SearchSpec => []TableIInv
<1>1. SearchInit => TableIInv
  <2> SUFFICES ASSUME SearchInit PROVE TableIInv
    OBVIOUS
  <2>1. Table!TypeOK
    BY DEF SearchInit, Table!Init, Table!TypeOK
  <2>2. QED BY <2>1 DEF SearchInit, Table!Init, TableIInv, Table!WritersHoldTheirRow,
                        Table!DeletesNeverInsert, Table!Writing, Table!At
<1>2. TableIInv /\ [SearchNext]_searchVars => TableIInv'
  <2> SUFFICES ASSUME TableIInv, [Table!Next]_tableVars PROVE TableIInv'
    BY TableStep
  <2>1. ASSUME NEW w \in Clients, TableShape(w)
        PROVE  TableIInv'
    <3>1. Table!TypeOK'
      BY <2>1, TableTypes
    <3>2. \A v \in Clients : Guarded(v)'
      BY <2>1, TableLocks
    <3>3. QED BY <3>1, <3>2
              DEF TableIInv, Table!WritersHoldTheirRow, Table!DeletesNeverInsert, Guarded
  <2>2. CASE Table!Next
    <3>1. PICK w \in Clients : TableShape(w)
      BY <2>2, TableShapes DEF Table!Next
    <3>2. QED BY <2>1, <3>1
  <2>3. CASE UNCHANGED tableVars
    BY <2>3 DEF tableVars, TableIInv, Table!TypeOK, Table!WritersHoldTheirRow,
                Table!DeletesNeverInsert, Table!Writing, Table!At, Table!Exists
  <2>4. QED BY <2>2, <2>3
<1>3. QED BY <1>1, <1>2, PTL DEF SearchSpec

\* Rows, locks and requests, cache entries and calls, and searches stay well
\* formed in every behaviour of the composition (ListingService, CacheManager).
THEOREM SearchTypeCorrectness == SearchSpec => []SearchTypeOK
<1>1. SearchIInv /\ TableIInv => SearchTypeOK
  BY DEF SearchIInv, IInv, TableIInv, SearchTypeOK
<1>2. QED BY <1>1, SearchInvariance, TableInvariance, PTL

-----------------------------------------------------------------------------
(* Requests that take turns.                                               *)

\* Requests do not overlap: one begins when the last has ended, in any thread.
TurnTaking == \A v, w \in Clients : ~Idle(v) /\ ~Idle(w) => v = w

\* Nothing has met a write, a race or the admin site.
Clean ==
    /\ suspect = {} /\ overlapped = {}
    /\ \A w \in Clients : ~mixed[w] /\ (~Table!Idle(w) => txn[w].actor # NoUser)

\* While one thread is busy, no other has a cache call.
LEMMA OthersFree ==
    ASSUME CallsBelong, TurnTaking, NEW w \in Clients, ~Idle(w)
    PROVE  /\ \A v \in Clients \ {w} : Idle(v) /\ Free(v)
           /\ Alone(w) /\ Met(w) = {}
<1>1. ASSUME NEW v \in Clients \ {w} PROVE Idle(v) /\ Free(v)
  BY DEF TurnTaking, CallsBelong, Idle, Table!Idle, Table!At, Searching
<1>2. QED BY <1>1 DEF Alone, Met, Setting, Clearing, At

\* So no call makes a key suspect.
LEMMA NoSuspicion ==
    ASSUME SearchIInv, TurnTaking, Clean, ~Faulty, SearchNext
    PROVE  suspect' = {}
<1>0. /\ CallsBelong /\ OwnTypes /\ suspect = {}
  BY DEF SearchIInv, Clean
<1>1. UNCHANGED cacheVars => suspect' = {}
  BY <1>0 DEF cacheVars
<1>2. ASSUME NEW w \in Clients, SearchStep(w)
      PROVE  suspect' = {}
  <2>1. CASE SearchStore(w)
    <3>1. Alone(w)
      BY <1>0, <2>1, OthersFree DEF SearchStore, Searching, Idle
    <3>2. QED BY <1>0, <2>1, <3>1 DEF SearchStore, Store, SuspectOnSet
  <2>2. CASE SearchRegister(w)
    BY <1>0, <2>2 DEF SearchRegister, RegisterRead, IndexReads, RegisterWrite
  <2>3. QED BY <1>1, <1>2, <2>1, <2>2
            DEF SearchStep, SearchHit, SearchMiss, SearchQuery, SearchMaterialise, SearchCrash
<1>3. ASSUME NEW w \in Clients, ClearForWrite(w)
      PROVE  suspect' = {}
  <2>1. Met(w) = {}
    BY <1>0, <1>3, OthersFree DEF ClearForWrite, Table!At, Table!Idle, Idle
  <2>2. QED BY <1>0, <1>3, <2>1 DEF ClearForWrite, ClearRead, IndexReads, ClearDelete, ClearIndex,
                                    SuspectOnClear
<1>4. ASSUME NEW w \in Clients, WriteStep(w) \/ AbortWrite(w)
      PROVE  suspect' = {}
  BY <1>1, <1>4 DEF WriteStep, AbortWrite, Crash
<1>5. Time => suspect' = {}
  BY <1>0 DEF Time, Tick
<1>6. QED BY <1>2, <1>3, <1>4, <1>5 DEF SearchNext

\* Without the admin site every transaction is the service's, and rows change at
\* its commit only.
LEMMA ServiceWrites ==
    ASSUME TableIInv, Clean, ~AdminSite, SearchNext
    PROVE  /\ \A v \in Clients : ~Table!Idle(v)' => txn'[v].actor # NoUser
           /\ \/ rows' = rows
              \/ \E w \in Clients : WriteStep(w) /\ ~Table!Idle(w) /\ ByService(w)
<1>0. Table!TypeOK /\ \A v \in Clients : ~Table!Idle(v) => txn[v].actor # NoUser
  BY DEF TableIInv, Clean
<1>1. ASSUME NEW w \in Clients, TableShape(w)
      PROVE  /\ \A v \in Clients : ~Table!Idle(v)' => txn'[v].actor # NoUser
             /\ rows' = rows \/ Table!Commit(w)
  <2>1. ASSUME NEW t \in Table!Txn, Starts(w, t)
        PROVE  \A v \in Clients : ~Table!Idle(v)' => txn'[v].actor # NoUser
    BY <1>0, <2>1 DEF Starts, Table!TypeOK, Table!Idle
  <2>2. ASSUME NEW pc, Moves(w, pc)
        PROVE  \A v \in Clients : ~Table!Idle(v)' => txn'[v].actor # NoUser
    <3>1. txn[w] \in Table!Txn
      BY <1>0, <2>2, BusyThread DEF Moves
    <3>2. [txn[w] EXCEPT !.pc = pc].actor = txn[w].actor
      BY <3>1 DEF Table!Txn
    <3>3. txn' = [txn EXCEPT ![w] = [txn[w] EXCEPT !.pc = pc]] /\ ~Table!Idle(w)
      BY <2>2 DEF Moves
    <3>4. QED BY <1>0, <3>2, <3>3 DEF Table!TypeOK, Table!Idle
  <2>3. Table!Rollback(w) \/ Table!Commit(w)
          => \A v \in Clients : ~Table!Idle(v)' => txn'[v].actor # NoUser
    BY <1>0 DEF Table!Rollback, Table!Commit, Table!Finish, Table!TypeOK, Table!Idle
  <2>4. \A S : ~BulkWrites(S)
    BY DEF BulkWrites
  <2>5. UNCHANGED tableVars => \A v \in Clients : ~Table!Idle(v)' => txn'[v].actor # NoUser
    BY <1>0 DEF tableVars, Table!Idle
  <2>6. rows' = rows \/ Table!Commit(w)
    BY <1>1, <2>4 DEF TableShape, Starts, Moves, Table!Rollback, tableVars
  <2>7. QED BY <1>1, <2>1, <2>2, <2>3, <2>4, <2>5, <2>6 DEF TableShape
<1>2. ASSUME NEW w \in Clients, WriteStep(w)
      PROVE  TableShape(w)
  BY <1>2, TableShapes DEF WriteStep, Table!Continue
<1>3. ASSUME NEW w \in Clients, Table!Commit(w)
      PROVE  ~Table!Idle(w) /\ ByService(w)
  BY <1>0, <1>3 DEF Table!Commit, Table!At, Table!Idle, ByService
<1>4. ASSUME NEW w \in Clients, ClearForWrite(w) \/ AbortWrite(w), ~UNCHANGED tableVars
      PROVE  TableShape(w) /\ rows' = rows
  BY <1>4, TableShapes DEF ClearForWrite, AbortWrite, Table!Continue, Table!Invalidate,
                           Table!Abort, Table!Rollback
<1>5. ASSUME UNCHANGED tableVars
      PROVE  rows' = rows /\ \A v \in Clients : ~Table!Idle(v)' => txn'[v].actor # NoUser
  BY <1>0, <1>5 DEF tableVars, Table!Idle
<1>6. ASSUME NEW w \in Clients, SearchStep(w)
      PROVE  UNCHANGED tableVars
  BY <1>6 DEF SearchStep, SearchHit, SearchMiss, SearchQuery, SearchStore, SearchRegister,
              SearchMaterialise, SearchCrash
<1>7. Time => UNCHANGED tableVars
  BY DEF Time
<1>8. QED BY <1>1, <1>2, <1>3, <1>4, <1>5, <1>6, <1>7 DEF SearchNext

\* Turns keep everything clean.
LEMMA CleanStep ==
    ASSUME SearchIInv, SearchIInv', TableIInv, TurnTaking, TurnTaking', Clean,
           ~Faulty, ~AdminSite, [SearchNext]_searchVars
    PROVE  Clean'
<1>1. CASE UNCHANGED searchVars
  BY <1>1 DEF searchVars, tableVars, cacheVars, Clean, Table!Idle
<1>2. CASE SearchNext
  <2>1. suspect' = {}
    BY <1>2, NoSuspicion
  <2>2. overlapped' = {}
    <3>1. ASSUME NEW w \in Clients, WriteStep(w)
          PROVE  rows' = rows \/ ByService(w)
      <4>1. TableShape(w)
        BY <3>1, TableShapes DEF WriteStep, Table!Continue
      <4>2. rows' = rows \/ Table!Commit(w)
        BY <4>1 DEF TableShape, Starts, Moves, Table!Rollback, tableVars, BulkWrites
      <4>3. QED BY <4>2 DEF Table!Commit, Table!At, Table!Idle, ByService, Clean
    <3>2. ASSUME NEW w \in Clients, SearchStep(w)
          PROVE  overlapped' = {}
      BY <3>2 DEF SearchStep, SearchHit, SearchMiss, SearchQuery, SearchStore, SearchRegister,
                  SearchMaterialise, SearchCrash, Clean
    <3>3. QED BY <1>2, <3>1, <3>2
              DEF SearchNext, WriteStep, ClearForWrite, AbortWrite, Time, Clean
  <2>3. ASSUME NEW v \in Clients
        PROVE  ~mixed'[v]
    <3>1. mixed'[v] = IF search'[v] = NoSearch \/ search'[v].pc # "store" THEN FALSE
                      ELSE mixed[v] \/ rows' # rows \/ \E u \in Clients : txn'[u] # NoTxn
      BY <1>2 DEF SearchNext, History
    <3>2. CASE search'[v] = NoSearch
      BY <3>1, <3>2
    <3>3. CASE search'[v] # NoSearch
      <4>1. \A u \in Clients : txn'[u] = NoTxn
        BY <3>3 DEF TurnTaking, Idle, Table!Idle, SearchIInv, CallsBelong
      <4>2. rows' = rows
        <5> SUFFICES ASSUME NEW w \in Clients, WriteStep(w), ~Table!Idle(w) PROVE FALSE
          BY <1>2, ServiceWrites
        <5>1. search' = search /\ search[w] = NoSearch
          BY DEF WriteStep
        <5>2. v = w
          BY <3>3, <5>1 DEF TurnTaking, Idle
        <5>3. QED BY <3>3, <5>1, <5>2
      <4>3. QED BY <3>1, <4>1, <4>2 DEF Clean
    <3>4. QED BY <3>2, <3>3
  <2>4. QED BY <1>2, <2>1, <2>2, <2>3, ServiceWrites DEF Clean
<1>3. QED BY <1>1, <1>2

\* "Cached results cannot outlive a write" is right as long as requests take turns,
\* no cache command fails and the admin site is not used: clearing inside the
\* writing transaction is enough, and it is the overlaps alone that break the promise
\* (ListingService.search, _invalidate_search_cache).
THEOREM CachedResultsAreCurrentInTurns ==
    ~Faulty /\ ~AdminSite => (SearchSpec /\ []TurnTaking => []CachedResultsAreCurrent)
<1> SUFFICES ASSUME ~Faulty, ~AdminSite
             PROVE  SearchSpec /\ []TurnTaking => []CachedResultsAreCurrent
  OBVIOUS
<1>1. SearchInit => Clean
  BY DEF SearchInit, Init, Table!Init, Clean, Table!Idle
<1>2. SearchIInv /\ SearchIInv' /\ TableIInv /\ TurnTaking /\ TurnTaking' /\ Clean
        /\ [SearchNext]_searchVars => Clean'
  BY CleanStep
<1>3. SearchIInv /\ Clean => CachedResultsAreCurrent
  BY DEF SearchIInv, StaleOnlyByOverlap, Clean, CachedResultsAreCurrent, Current
<1>4. QED BY <1>1, <1>2, <1>3, SearchInvariance, TableInvariance, PTL DEF SearchSpec
=============================================================================
