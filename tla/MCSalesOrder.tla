---------------------------- MODULE MCSalesOrder ----------------------------
(***************************************************************************)
(* Two orders of one item each: o1 for a channel with a quota smaller than *)
(* the order, o2 for a channel without default location.                   *)
(***************************************************************************)
EXTENDS SalesLedger, TLC

CONSTANTS o1, o2, i1, i2, s1, s2, s3, t1, t2, k1, p1, p2

TwoOrders == i1 :> o1 @@ i2 :> o2
TwoEach == i1 :> 2 @@ i2 :> 2
OneEach == i1 :> 1 @@ i2 :> 1
OneAndThree == i1 :> 1 @@ i2 :> 3
ThreeEach == i1 :> 3 @@ i2 :> 3

\* One order only.
OneOrder == i1 :> o1
Two == i1 :> 2
One == i1 :> 1

Symmetry == Permutations(Process) \cup Permutations(Issue)
              \cup Permutations(Return)

=============================================================================
