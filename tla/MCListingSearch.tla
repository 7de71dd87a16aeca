--------------------------- MODULE MCListingSearch ---------------------------
(***************************************************************************)
(* Small instances of ListingSearch.  The queries are the empty filter,    *)
(* which a row leaves only by being deleted, and one that a row leaves and *)
(* enters as its column changes.                                           *)
(***************************************************************************)
EXTENDS ListingSearch, TLC

CONSTANTS low, high

AllListings == [f \in Fields |-> Values]
LowOnly == [f \in Fields |-> {low}]

TwoQueries == {AllListings, LowOnly}
OneQuery == {LowOnly}

SetsOfIds == SUBSET Ids

Threads == Permutations(Clients)
=============================================================================
