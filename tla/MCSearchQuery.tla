--------------------------- MODULE MCSearchQuery ---------------------------
(***************************************************************************)
(* An instance of SearchQuery: tables in which prices, bedrooms, places    *)
(* and creation times differ and coincide, and parameters of every kind,   *)
(* alone, around a centre, and as a price range.                           *)
(***************************************************************************)
EXTENDS SearchQuery

Listing(type, price, bedrooms, lat, lng, created) ==
    [type |-> type, price |-> price, bedrooms |-> bedrooms,
     lat |-> lat, lng |-> lng, created |-> created]

SomeTables == {
    <<Listing("rent", 0, 0, 0, 0, 1), Listing("sale", 1, 1, 0, 1, 2), Listing("rent", 1, 0, 1, 1, 3)>>,
    <<Listing("sale", 1, 1, 1, 1, 1), Listing("sale", 1, 0, 1, 0, 1)>>}

NoParams ==
    [type |-> Unset, min_price |-> Unset, max_price |-> Unset, bedrooms |-> Unset,
     bedrooms_min |-> Unset, lat |-> Unset, lng |-> Unset, radius |-> Unset, ordering |-> Unset]

ValuesSent == [type |-> {"rent"}, min_price |-> 0..1, max_price |-> 0..1, bedrooms |-> 0..1,
            bedrooms_min |-> 0..1, lat |-> {0}, lng |-> {1}, radius |-> {2},
            ordering |-> {"distance", "newest", "price_asc", "price_desc"}]

One(p) == {p} \cup UNION {{[p EXCEPT ![name] = v] : v \in ValuesSent[name]} : name \in DOMAIN p}

Centred == {[NoParams EXCEPT !.lat = 0, !.lng = c] : c \in 0..1}

SomeParams ==
    One(NoParams) \cup UNION {One(p) : p \in Centred}
        \cup {[NoParams EXCEPT !.min_price = a, !.max_price = b] : a, b \in 0..1}
=============================================================================
