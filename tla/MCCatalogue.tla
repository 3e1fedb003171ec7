----------------------------- MODULE MCCatalogue -----------------------------
(***************************************************************************)
(* A category, two products and a third to come, a customer with a     *)
(* channel, a tree of two locations and a third to come, two prices.       *)
(***************************************************************************)
EXTENDS Catalogue, TLC

CONSTANTS cat1, prod1, prod2, prod3, chan1, cust1, loc1, loc2, loc3,
          p1, p2, p3, p4, r1, r2

Resources == (cat1 :> "categories" @@ prod1 :> "products" @@ prod2 :> "products" @@ prod3 :> "products"
              @@ chan1 :> "sales-channels" @@ cust1 :> "customers"
              @@ loc1 :> "locations" @@ loc2 :> "locations" @@ loc3 :> "locations")

Seeded == <<cat1, prod1, chan1, prod2, cust1, loc1, loc2>>

Under(category) == [t \in {"categories"} |-> category]
Place(parent) == [t \in {"locations", "sales-channels"} |->
                     IF t = "locations" THEN parent ELSE None]

SeededRefs == (cat1 :> << >> @@ prod1 :> Under(cat1) @@ prod2 :> Under(cat1)
               @@ chan1 :> << >> @@ cust1 :> [t \in {"sales-channels"} |-> None]
               @@ loc1 :> Place(None) @@ loc2 :> Place(loc1))

RowsOfKey == [key \in {"customer+channel", "customer", "channel", "general"} |->
                 {prod1} \cup (IF key \in {"customer+channel", "customer"} THEN {cust1} ELSE {})
                 \cup (IF key \in {"customer+channel", "channel"} THEN {chan1} ELSE {})]

\* A general price, and one for the customer that begins later.
SeededPrices == (p1 :> [key |-> "general", from |-> 0, to |-> None, min |-> 1,
                        status |-> "ACTIVE"]
                 @@ p2 :> [key |-> "customer", from |-> 1, to |-> None, min |-> 1,
                           status |-> "ACTIVE"]
                 @@ p3 :> None @@ p4 :> None)

Symmetry == Permutations(Request)

=============================================================================
