------------------------- MODULE InventoryDocuments -------------------------
(***************************************************************************)
(* The PostingInput that the handlers of InventoryService and              *)
(* PurchaseService build from their documents.  A document is a record     *)
(* with the fields its kind has:                                           *)
(*   items : sequence of [loc, sku, status, qty, cost, batch]              *)
(*   from, to : locations of a transfer         at : occurredAt            *)
(***************************************************************************)
EXTENDS InventoryPosting

Line(loc, item, qty, cost, allocate, preferred) ==
    [cell |-> <<loc, item.sku, item.status>>, qty |-> qty, cost |-> cost,
     group |-> item.status, allocate |-> allocate, preferred |-> preferred]

EachItem(items, F(_)) == [i \in 1..Len(items) |-> F(items[i])]

OwnBatch(item) == [no |-> item.batch, sku |-> item.sku, qty |-> item.qty]

\* postOpening: every row enters at its cost and opens its own batch.
OpeningInput(doc) ==
    LET In(item) == Line(item.loc, item, item.qty, item.cost, FALSE, None)
    IN [at |-> doc.at, lines |-> EachItem(doc.items, In),
        batches |-> EachItem(doc.items, OwnBatch)]

\* postAdjustment, direction IN: as an opening, with a batch for each item.
AdjustmentInInput(doc) ==
    LET In(item) == Line(item.loc, item, item.qty, item.cost, FALSE, None)
    IN [at |-> doc.at, lines |-> EachItem(doc.items, In),
        batches |-> EachItem(doc.items, OwnBatch)]

\* postAdjustment, direction OUT: the stock leaves at its average cost and,
\* where it is available stock, is taken from the oldest batches.
AdjustmentOutInput(doc) ==
    LET Out(item) == Line(item.loc, item, - item.qty, NoCost, TRUE, None)
    IN [at |-> doc.at, lines |-> EachItem(doc.items, Out), batches |-> <<>>]

\* postTransfer: each item leaves and enters, and its batches stay as they are.
TransferInput(doc) ==
    LET Out(item) == Line(doc.from, item, - item.qty, NoCost, FALSE, None)
        In(item)  == Line(doc.to, item, item.qty, NoCost, FALSE, None)
    IN [at |-> doc.at,
        lines |-> [i \in 1..(2 * Len(doc.items)) |->
                     IF i % 2 = 1 THEN Out(doc.items[(i + 1) \div 2])
                                  ELSE In(doc.items[i \div 2])],
        batches |-> <<>>]

\* PurchaseService.postReturn: the stock leaves from the batch it came in.
PurchaseReturnInput(doc) ==
    LET Out(item) == Line(item.loc, item, - item.qty, NoCost, TRUE, item.batch)
    IN [at |-> doc.at, lines |-> EachItem(doc.items, Out), batches |-> <<>>]

=============================================================================
