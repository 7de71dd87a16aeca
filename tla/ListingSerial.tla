---------------------------- MODULE ListingSerial ----------------------------
(***************************************************************************)
(* ListingStore with one request at a time implements ListingRegistry: the *)
(* statements of a request, its locks, its fall back to INSERT and the     *)
(* clearing of the cache come down to one step of the table, its COMMIT.   *)
(***************************************************************************)
EXTENDS ListingStore

Registry == INSTANCE ListingRegistry

\* Why it does: with nobody else at work, what a request decided when it read
\* the row still holds of the row it overwrites.
Snapshot(t) ==
    /\ t.actor = NoUser => AdminSite
    /\ IF t.op = "create" THEN ~Exists(t.id) /\ Fresh(t)
                          ELSE Exists(t.id) /\ Current(t, rows[t.id])

SnapshotsAreCurrent == \A w \in Workers : ~Idle(w) => Snapshot(txn[w])

\* Every change of the table is a write that ListingRegistry allows, by
\* somebody entitled to it at that very moment (ListingService.create, update
\* and delete, ListingAdmin), when requests do not overlap.
ImplementsRegistry == Registry!Spec

-----------------------------------------------------------------------------
(* Two hypotheses under which requests do not overlap.  The runs have one  *)
(* worker; the weaker one allows any number of them, as long as nobody     *)
(* changes a listing between a request's read and its commit.              *)

OneWorker == \A v, w \in Workers : v = w

Undisturbed ==
    [][\A w \in Workers : ~Idle(w) /\ ~Commit(w) => rows'[txn[w].id] = rows[txn[w].id]]_vars
=============================================================================
