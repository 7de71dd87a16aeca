----------------------------- MODULE MCSeedDemo -----------------------------
(* SeedDemo with tuples and records for constants.                         *)
EXTENDS SeedDemo, TLC

CONSTANTS demo_admin, demo_agent

OneAgent == <<demo_agent>>

\* What a run can draw, and one draw earlier or later.
MCTitles == {OwnTitle} \cup {<<index, drawn>> : index \in 1..MaxCount, drawn \in 0..(2 * MaxCount)}

AllOps == {"create", "update", "delete", "change", "retire"}

Two == {"agent", "admin"}

TryBound(rows, open, count, kinds, ops) ==
    [listings |-> rows, open |-> open, count |-> count, kinds |-> kinds, ops |-> ops]

\* Two transactions on one listing, without the command; runs of the command
\* with other kinds of requests between them; and runs next to a request or a form.
MCBounds ==
    {TryBound(1, 2, 0, Two, {"create", "update", "delete"}),
     TryBound(1, 2, 0, Two, {"create", "update", "change"}),
     TryBound(1, 2, 0, Two, {"create", "change", "retire"}),
     TryBound(3, 1, 2, Two, {"delete", "change", "retire"}),
     TryBound(2, 1, 1, Kinds, AllOps),
     TryBound(1, 2, 1, Two, {"change"}),
     TryBound(2, 2, 1, Two, {"create", "delete"}),
     TryBound(1, 2, 1, Two, {"create", "update", "retire"})}

Symmetry == Permutations(Uids) \cup Permutations(Lids) \cup Permutations(Workers)
=============================================================================
