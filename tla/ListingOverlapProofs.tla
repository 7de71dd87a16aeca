------------------------ MODULE ListingOverlapProofs ------------------------
(***************************************************************************)
(* Theorems about requests that overlap, for every set of ids, users,      *)
(* columns, values and workers.                                            *)
(*                                                                         *)
(* ListingSerialProofs has the same two facts for requests that nobody     *)
(* disturbs; here there is no hypothesis, and what may go wrong is up to   *)
(* requests that were overtaken.                                           *)
(***************************************************************************)
EXTENDS ListingOverlap, ListingSerialProofs

-----------------------------------------------------------------------------
(* The history hides no behaviour from the invariant of the table.         *)

LEMMA OverlapInvariance == OverlapSpec => []IInv
<1>1. OverlapInit => Init
  BY DEF OverlapInit
<1>2. [OverlapNext]_overlapVars => [Next]_vars
  BY DEF OverlapNext, overlapVars
<1>3. QED BY <1>1, <1>2, InitIInv, StepIInv, PTL DEF OverlapSpec

\* A request that the step does not overtake had not been overtaken before, and
\* its row is as it was.
LEMMA NotOvertaken ==
    ASSUME Watch, NEW v \in Workers, ~Idle(v), ~Idle(v)', ~overtaken'[v]
    PROVE  ~overtaken[v] /\ rows'[txn[v].id] = rows[txn[v].id]
BY DEF Watch

\* The snapshots of requests that are not overtaken stay current.
LEMMA OverlapSnapshotsKept ==
    IInv /\ SnapshotsOutdatedOnlyByOverlap /\ [OverlapNext]_overlapVars
        => SnapshotsOutdatedOnlyByOverlap'
<1>1. ASSUME SnapshotsOutdatedOnlyByOverlap, UNCHANGED overlapVars
      PROVE  SnapshotsOutdatedOnlyByOverlap'
  BY <1>1 DEF overlapVars, vars, SnapshotsOutdatedOnlyByOverlap, Snapshot, Idle, Exists,
              Current, Fresh, Privileged, CanMutate
<1>2. ASSUME IInv, SnapshotsOutdatedOnlyByOverlap, Next, Watch,
             NEW v \in Workers, ~Idle(v)', ~overtaken'[v]
      PROVE  Snapshot(txn[v])'
  <2>1. PICK w \in Workers : Shape(w)
    BY <1>2, StepShapes DEF IInv, Next
  <2>2. ASSUME SameRequest(v)
        PROVE  Snapshot(txn[v]) /\ rows'[txn[v].id] = rows[txn[v].id]
    BY <1>2, <2>2, NotOvertaken DEF SameRequest, SnapshotsOutdatedOnlyByOverlap
  <2>3. QED BY <1>2, <2>1, <2>2, SnapshotKept
<1>3. QED BY <1>1, <1>2 DEF OverlapNext, SnapshotsOutdatedOnlyByOverlap

\* A request that nobody has overtaken knows the row it is about to write,
\* whatever the other requests do (ListingService.update and delete).
THEOREM SnapshotsOutdatedOnlyByOverlapAlways == OverlapSpec => []SnapshotsOutdatedOnlyByOverlap
<1>1. OverlapInit => SnapshotsOutdatedOnlyByOverlap
  BY DEF OverlapInit, Init, SnapshotsOutdatedOnlyByOverlap, Idle
<1>2. QED BY <1>1, OverlapInvariance, OverlapSnapshotsKept, PTL DEF OverlapSpec

\* Whatever overlaps, each change of the table is a write that the registry
\* allows at that moment, or the commit of a request that was overtaken: a
\* deleted or removed listing never returns, no agent, column or deleter is set
\* back in any other way (ListingService.update and delete).
THEOREM OnlyOvertakenCommitsBreakRulesEver == OverlapSpec => OnlyOvertakenCommitsBreakRules
<1>1. IInv /\ SnapshotsOutdatedOnlyByOverlap /\ [OverlapNext]_overlapVars =>
        [Registry!Next \/ \E w \in Workers : Commit(w) /\ overtaken[w]]_rows
  <2> SUFFICES ASSUME IInv, SnapshotsOutdatedOnlyByOverlap, [OverlapNext]_overlapVars,
                      ~ \E w \in Workers : Commit(w) /\ overtaken[w]
               PROVE  [Registry!Next]_rows
    OBVIOUS
  <2>1. [Next]_vars
    BY DEF OverlapNext, overlapVars
  <2>2. ASSUME NEW w \in Workers, Commit(w) PROVE Snapshot(txn[w])
    BY <2>2, CommitEnds DEF IInv, SnapshotsOutdatedOnlyByOverlap
  <2>3. QED BY <2>1, <2>2, StepImplements
<1>2. QED BY <1>1, OverlapInvariance, SnapshotsOutdatedOnlyByOverlapAlways, PTL
          DEF OverlapSpec, OnlyOvertakenCommitsBreakRules
=============================================================================
