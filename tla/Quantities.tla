----------------------------- MODULE Quantities -----------------------------
(***************************************************************************)
(* What sales and purchase documents list: a quantity for each item, and   *)
(* the amount it comes to.                                                 *)
(***************************************************************************)
EXTENDS Totals

CONSTANTS
    Item,   \* order items
    Price   \* Price[i]: the unit price an order keeps for item i

ASSUME PriceAssumption == Price \in [Item -> Nat] /\ IsFiniteSet(Item)

Quantity == [Item -> Nat]

Zero == [i \in Item |-> 0]

OnlyItem(i, n) == [Zero EXCEPT ![i] = n]

Amount(qty) == Total([i \in Item |-> Price[i] * qty[i]])

Fits(qty, limit) == \A i \in Item : qty[i] <= limit[i]

Plus(q1, q2) == [i \in Item |-> q1[i] + q2[i]]

Minus(q1, q2) == [i \in Item |-> q1[i] - q2[i]]

Smaller(m, n) == IF m < n THEN m ELSE n

=============================================================================
