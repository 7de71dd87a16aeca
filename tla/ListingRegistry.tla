--------------------------- MODULE ListingRegistry ---------------------------
(***************************************************************************)
(* What the listings service promises, without how: a table that changes   *)
(* in one step per write, each by somebody who may make it, judged by the  *)
(* row as it is then.  What callers are promised is in the docstrings of   *)
(* ListingService and of the views; the admin site's staff answer to       *)
(* nobody, and leave no stamp.                                             *)
(***************************************************************************)
CONSTANTS Ids, Users, Admins, Fields, Values, AdminSite, NoUser, NoRow

VARIABLE rows

Exists(i) == rows[i] # NoRow
Live(i) == Exists(i) /\ ~rows[i].deleted

\* Its agent, or an administrator.
Owns(u, i) == u \in Admins \/ rows[i].agent = u

Columns == [Fields -> Values]
New(agent, columns, by) ==
    [agent |-> agent, fields |-> columns, createdBy |-> by, updatedBy |-> by,
     deleted |-> FALSE, deletedBy |-> NoUser]

Puts(i, row) == rows' = [rows EXCEPT ![i] = row]

-----------------------------------------------------------------------------
Add(u, i, agent, columns) ==
    /\ ~Exists(i)
    /\ agent = u \/ u \in Admins
    /\ Puts(i, New(agent, columns, u))

Change(u, i, agent, columns) ==
    /\ Live(i) /\ Owns(u, i)
    /\ agent # rows[i].agent => u \in Admins
    /\ Puts(i, [rows[i] EXCEPT !.agent = agent, !.fields = columns, !.updatedBy = u])

Withdraw(u, i) ==
    /\ Live(i) /\ Owns(u, i)
    /\ Puts(i, [rows[i] EXCEPT !.deleted = TRUE, !.deletedBy = u])

SiteAdd(i, agent, columns) == ~Exists(i) /\ Puts(i, New(agent, columns, NoUser))

SiteChange(i, agent, columns) ==
    /\ Exists(i)
    /\ Puts(i, [rows[i] EXCEPT !.agent = agent, !.fields = columns])

SiteWithdraw(i) == Live(i) /\ Puts(i, [rows[i] EXCEPT !.deleted = TRUE])

SiteRestore(S) ==
    /\ \A i \in S : Exists(i) /\ rows[i].deleted
    /\ rows' = [i \in Ids |-> IF i \in S THEN [rows[i] EXCEPT !.deleted = FALSE, !.deletedBy = NoUser]
                                         ELSE rows[i]]

SiteRemove(S) == rows' = [i \in Ids |-> IF i \in S THEN NoRow ELSE rows[i]]

-----------------------------------------------------------------------------
Init == rows = [i \in Ids |-> NoRow]

ServiceWrite ==
    \E u \in Users, i \in Ids :
        \/ Withdraw(u, i)
        \/ \E agent \in Users, columns \in Columns :
              Add(u, i, agent, columns) \/ Change(u, i, agent, columns)

SiteWrite ==
    /\ AdminSite
    /\ \/ \E i \in Ids, agent \in Users, columns \in Columns :
             SiteAdd(i, agent, columns) \/ SiteChange(i, agent, columns)
       \/ \E i \in Ids : SiteWithdraw(i)
       \/ \E S \in SUBSET Ids : SiteRestore(S) \/ SiteRemove(S)

Next == ServiceWrite \/ SiteWrite

Spec == Init /\ [][Next]_rows
=============================================================================
