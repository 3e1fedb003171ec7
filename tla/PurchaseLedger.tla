--------------------------- MODULE PurchaseLedger ---------------------------
(***************************************************************************)
(* The properties of purchase orders, receipts, returns and payables.      *)
(***************************************************************************)
EXTENDS PurchaseOrder

\* What the posted documents of D moved.
Moved(D) == [i \in Item |-> Total([d \in D |-> ledger[d][i]])]

ReceiptsOf(o) == {r \in Receipt : receipt[r].order = o}

ReturnsOf(r) == {t \in Return : ret[t].receipt = r}

ContentRow == [ver : Nat, supplier : Supplier \cup {None}, qty : Quantity]

Status == {"ABSENT", "DRAFT", "POSTED"}

ReceiptRow == [status : Status, order : Order \cup {None}, ver : Nat,
               qty : Quantity]

ReturnRow == [status : Status, receipt : Receipt \cup {None}, qty : Quantity]

PayableRow == [supplier : Supplier \cup {None}, original : Nat, paid : Nat,
               adjusted : Nat, outstanding : Nat]

Op == {"idle", "updateOrder", "confirmOrder", "cancelOrder", "createReceipt",
       "postReceipt", "createReturn", "postReturn"}

ProcRow == [op : Op, id : Order \cup Doc \cup {None}, qty : Quantity,
            key : Key \cup {None}, content : ContentRow, due : Nat]

\* The rows of the tables; whatever was read before, no payable is taken
\* below 0.
TypeOK ==
    /\ orderStatus \in [Order -> {"ABSENT", "DRAFT", "CONFIRMED",
                                  "PARTIALLY_RECEIVED", "RECEIVED", "CANCELLED"}]
    /\ content \in [Order -> ContentRow]
    /\ received \in [Order -> Quantity]
    /\ receipt \in [Receipt -> ReceiptRow]
    /\ ret \in [Return -> ReturnRow]
    /\ returned \in [Receipt -> Quantity]
    /\ ledger \in [Doc -> Quantity]
    /\ payable \in [Receipt -> PayableRow]
    /\ credit \in [Return -> Nat]
    /\ idem \in [Doc -> SUBSET Key]
    /\ proc \in [Process -> ProcRow]

\* "Concurrent receipts make the quantity exceed the purchase order" is what
\* postReceipt refuses: what the order counts as received is what its posted
\* receipts brought in, and never more than the order says, though updateOrder
\* may be replacing the items.
ReceivedIsPosted ==
    \A o \in Order : /\ received[o] = Moved(ReceiptsOf(o))
                     /\ Fits(received[o], content[o].qty)

\* "Once a receipt is created the content of the order is locked" (docs/17):
\* a receipt, draft or posted, lists items the order still has, and its
\* payable is owed to the supplier of the order, though updateOrder looks for
\* receipts in a statement of its own.
OrderLockedByReceipt ==
    \A r \in Receipt :
        LET o == receipt[r].order IN
        /\ receipt[r].status # "ABSENT" => receipt[r].ver = content[o].ver
        /\ receipt[r].status = "POSTED" =>
               payable[r].supplier = content[o].supplier

\* "Concurrent returns make the quantity exceed what can be returned" is what
\* postReturn refuses: no receipt is sent back more than it brought, though
\* drafts of returns reserve nothing.
ReturnsWithinReceipt ==
    \A r \in Receipt : /\ returned[r] = Moved(ReturnsOf(r))
                       /\ Fits(returned[r], ledger[r])

\* What is sent back is either taken off the payable or a credit with the
\* supplier, never both and never lost (decisions, ADR on purchase returns),
\* whatever the handler had read.
ReturnsCredited ==
    \A r \in Receipt :
        payable[r].adjusted + Total([t \in ReturnsOf(r) |-> credit[t]])
          = Amount(Moved(ReturnsOf(r)))

\* Orders, receipts, returns and what the supplier is owed agree with what the
\* stock ledger says was moved, out of well-formed rows (finalize of postReceipt
\* and postReturn).
ReceiptsAndReturnsAgree ==
    TypeOK /\ ReceivedIsPosted /\ ReturnsWithinReceipt /\ ReturnsCredited

=============================================================================
