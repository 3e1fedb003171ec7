-------------------------- MODULE MCPurchaseOrder --------------------------
(***************************************************************************)
(* One order of one item, at two suppliers, and two requests.              *)
(***************************************************************************)
EXTENDS PurchaseLedger, TLC

CONSTANTS o1, i1, u1, u2, r1, r2, t1, t2, k1, p1, p2

One == i1 :> 1

Symmetry == Permutations(Process) \cup Permutations(Receipt)
              \cup Permutations(Return) \cup Permutations(Supplier)

=============================================================================
