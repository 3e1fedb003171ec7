--------------------------- MODULE MCQualityClaim ---------------------------
(***************************************************************************)
(* A return of two units and one of a unit, which is no supplier's, and    *)
(* settlements of each type.                                               *)
(***************************************************************************)
EXTENDS QualityLedger, TLC

CONSTANTS r1, r2, b1, s1, s2, k1, k2, p1, p2

TwoReturns == r1 :> 2 @@ r2 :> 1

First == r1 :> 2 @@ r2 :> 0

OneReturn == r1 :> 2

Whole(type, amount) == [NoPayload EXCEPT !.type = type, !.amount = amount]

OnItem(type, quantity) ==
    [NoPayload EXCEPT !.type = type, !.onItem = TRUE, !.quantity = quantity]

Replace(dispose) ==
    [OnItem("REPLACEMENT", 1) EXCEPT !.dispose = dispose, !.batch = b1]

\* Requests for whole claims and for the item, within and beyond the claim.
Requests == {Whole("CASH", 2), [OnItem("CREDIT", 1) EXCEPT !.amount = 1],
             Replace(0), Replace(1), OnItem("SCRAP", 2), Whole("REJECTED", 0)}

\* Requests for money only.
Money == {Whole("CASH", 1), Whole("CASH", 2), Whole("SELF_BEAR", 0)}

Symmetry == Permutations(Process) \cup Permutations(Settlement)
              \cup Permutations(Key)

=============================================================================
