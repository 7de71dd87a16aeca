--------------------------- MODULE ListingOverlap ---------------------------
(***************************************************************************)
(* ListingStore with requests that overlap.  The unlocked read-check-save  *)
(* of update and delete breaks what ListingSerial shows of requests that   *)
(* take turns: a deleted listing is live again, a removed one is inserted  *)
(* again, an agent or a column is set back, a deleter is overwritten.      *)
(* `overtaken` remembers which requests that can happen to; every other    *)
(* write of the table is one that ListingRegistry allows.                  *)
(***************************************************************************)
EXTENDS ListingSerial

\* History: has anybody changed its listing since the request read it?
VARIABLE overtaken

overlapVars == <<vars, overtaken>>

Watch ==
    overtaken' = [w \in Workers |->
        ~Idle(w) /\ ~Idle(w)' /\ (overtaken[w] \/ rows'[txn[w].id] # rows[txn[w].id])]

OverlapInit == Init /\ overtaken = [w \in Workers |-> FALSE]

OverlapNext == Next /\ Watch

OverlapSpec == OverlapInit /\ [][OverlapNext]_overlapVars

OverlapFairSpec == OverlapSpec /\ Fairness

-----------------------------------------------------------------------------
\* However many requests are at work on a listing, one that nobody has overtaken
\* still knows its row: what it checked and what it will save are what the table
\* says, up to the statement that writes (ListingService.update and delete read
\* the row without a lock).
SnapshotsOutdatedOnlyByOverlap ==
    \A w \in Workers : ~Idle(w) /\ ~overtaken[w] => Snapshot(txn[w])

\* Whatever overlaps, a write that ListingRegistry would not allow at that moment
\* is the commit of a request whose listing changed between its read and its
\* commit: nothing else makes a deleted listing live or a removed one exist, gives
\* it to another agent, sets back a column or renames its deleter
\* (ListingService.update and delete, listing.save()).
OnlyOvertakenCommitsBreakRules ==
    [][Registry!Next \/ \E w \in Workers : Commit(w) /\ overtaken[w]]_rows
=============================================================================
