----------------------------- MODULE MCFinance -----------------------------
(***************************************************************************)
(* Two payables and a credit with one supplier, a refund to a customer and *)
(* what a customer and a supplier owe.                                     *)
(***************************************************************************)
EXTENDS FinanceLedger, TLC

CONSTANTS a1, y1, y2, f1, v1, w1, c1, s1, s2, d1, d2, d3, d4, k1, k2

Owed == (y1 :> 2) @@ (y2 :> 1) @@ (f1 :> 1) @@ (v1 :> 2) @@ (w1 :> 1)
             @@ (c1 :> 2)

With == (y1 :> s1) @@ (y2 :> s1) @@ (f1 :> s2) @@ (v1 :> s2) @@ (w1 :> s1)
             @@ (c1 :> s1)

Symmetry == Permutations(Payment) \cup Permutations(Receipt)
              \cup Permutations(Key)

=============================================================================
