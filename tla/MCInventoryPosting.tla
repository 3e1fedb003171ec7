------------------------ MODULE MCInventoryPosting -------------------------
(***************************************************************************)
(* A small warehouse: two locations, one sku, good and defective stock.    *)
(* Item(...) is one row of a document.                                     *)
(***************************************************************************)
EXTENDS InventoryLedger, InventoryDocuments, TLC

CONSTANTS l1, l2, s1, b1, b2, b3, open1, in1, out1, move1, back1, r1, r2, k1, k2

Item(loc, status, qty, cost, b) ==
    [loc |-> loc, sku |-> s1, status |-> status, qty |-> qty, cost |-> cost,
     batch |-> b]

\* Two batches at different costs (the later one the older), an issue that
\* needs both, a transfer, and a purchase return that insists on its batch.
FlowInput ==
    (open1 :> OpeningInput([at |-> 1, items |-> <<
                  Item(l1, "AVAILABLE", 3, 333, b1),
                  Item(l1, "DEFECTIVE", 1, 200, b3)>>])
     @@ in1 :> AdjustmentInInput([at |-> 0, items |-> <<
                  Item(l1, "AVAILABLE", 1, 500, b2)>>])
     @@ out1 :> AdjustmentOutInput([at |-> 2, items |-> <<
                  Item(l1, "AVAILABLE", 2, NoCost, None)>>])
     @@ move1 :> TransferInput([at |-> 2, from |-> l1, to |-> l2, items |-> <<
                  Item(None, "AVAILABLE", 2, NoCost, None)>>])
     @@ back1 :> PurchaseReturnInput([at |-> 3, items |-> <<
                  Item(l1, "AVAILABLE", 2, NoCost, b1)>>]))

\* Two openings that use the same batch number, and an issue that the stock
\* allows twice.
KeysInput ==
    (open1 :> OpeningInput([at |-> 1, items |-> <<
                  Item(l1, "AVAILABLE", 2, 333, b1)>>])
     @@ in1 :> OpeningInput([at |-> 2, items |-> <<
                  Item(l1, "AVAILABLE", 1, 100, b1)>>])
     @@ out1 :> AdjustmentOutInput([at |-> 2, items |-> <<
                  Item(l1, "AVAILABLE", 1, NoCost, None)>>]))

Symmetry == Permutations(Request)

=============================================================================
