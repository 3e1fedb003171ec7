------------------------------- MODULE Screens -------------------------------
(***************************************************************************)
(* What the dialogs and the row buttons of the web client ask of the       *)
(* server: for which rows they are offered, which calls a submission makes *)
(* and in which order, and which lists the hooks fetch again.  Beside it   *)
(* what the handlers of the server ask of the row.                         *)
(*                                                                         *)
(* A row has the status the server sees; a draft issue whose order is not  *)
(* open and a confirmed order with a draft receipt have one of their own.  *)
(***************************************************************************)
EXTENDS Naturals, Sequences

\* A dialog: it is offered for rows (or, without a target, always), makes its
\* calls one after the other and stays open when one fails.  Submitted again, it
\* repeats them all.
Dialog(offered, calls) ==
  [offered |-> offered, calls |-> calls, dialog |-> TRUE, remembers |-> FALSE,
   rechecks |-> FALSE]

\* A button of a row: one call, and nothing stops a second click.
Button(offered, to) ==
  [offered |-> offered, calls |-> <<to>>, dialog |-> FALSE, remembers |-> FALSE,
   rechecks |-> FALSE]

\* Calls: create a document, finish it (confirm, post, attach), update the
\* row; any other call is the status it gives the row.
NoTarget == {"NONE"}

SalesPriceDialog == Dialog(NoTarget, <<"create">>)
SalesOrderDialog == Dialog(NoTarget, <<"create", "finish">>)
SalesIssueDialog == Dialog({"DRAFT"}, <<"update", "POSTED">>)
SalesReturnDialog == Dialog({"POSTED"}, <<"create", "finish">>)
ConfirmSalesOrder == Button({"DRAFT"}, "CONFIRMED")
PostSalesReturn == Button({"DRAFT"}, "POSTED")

PurchasePriceDialog == Dialog(NoTarget, <<"create">>)
PurchaseOrderDialog == Dialog(NoTarget, <<"create">>)
EditPurchaseOrder == Dialog({"DRAFT", "CONFIRMED"}, <<"update">>)
PurchaseReceiptDialog == Dialog({"CONFIRMED", "PARTIALLY_RECEIVED"}, <<"create", "finish">>)
PurchaseReturnDialog == Dialog({"POSTED"}, <<"create", "finish">>)
ConfirmPurchaseOrder == Button({"DRAFT"}, "CONFIRMED")
PostPurchaseDocument == Button({"DRAFT"}, "POSTED")

\* The finance dialogs leave out what is finished.
PayableStatus == {"OPEN", "PARTIALLY_PAID", "SETTLED", "VOID"}
ReceivableStatus == {"OPEN", "PARTIALLY_RECEIVED", "SETTLED", "VOID"}

AccountDialog == Dialog(NoTarget, <<"create">>)
ExpenseDialog == Dialog(NoTarget, <<"create">>)
AdjustmentDialog == Dialog(NoTarget, <<"create", "finish">>)
PaymentDialog == Dialog(PayableStatus \ {"SETTLED", "PAID", "VOID"}, <<"create", "finish">>)
ReceiptDialog == Dialog(ReceivableStatus \ {"SETTLED", "VOID"}, <<"create", "finish">>)
PostFinanceDocument == Button({"DRAFT"}, "POSTED")
PostExpense == Button({"DRAFT"}, "POSTED")

\* Nothing is submitted for a return that left the list of the pending ones.
InspectionDialog ==
  [Dialog({"PENDING"}, <<"create", "finish">>) EXCEPT !.rechecks = TRUE]
SettlementDialog == Dialog({"SUBMITTED", "PARTIALLY_SETTLED"}, <<"create">>)

LocationDialog == Dialog(NoTarget, <<"create">>)
OpeningDialog == Dialog(NoTarget, <<"create", "finish">>)
StockAdjustmentDialog == Dialog(NoTarget, <<"create", "finish">>)
TransferDialog == Dialog(NoTarget, <<"create", "finish">>)

\* The form keeps what it saved: only the images are sent again.
MasterDataFormDialog ==
  [Dialog(NoTarget, <<"create", "finish">>) EXCEPT !.remembers = TRUE]
DeactivateDialog == Dialog({"ACTIVE"}, <<"INACTIVE">>)

Screens ==
  [salesPrice |-> SalesPriceDialog, salesOrder |-> SalesOrderDialog,
   salesIssue |-> SalesIssueDialog, salesReturn |-> SalesReturnDialog,
   confirmSalesOrder |-> ConfirmSalesOrder, postSalesReturn |-> PostSalesReturn,
   purchasePrice |-> PurchasePriceDialog, purchaseOrder |-> PurchaseOrderDialog,
   editPurchaseOrder |-> EditPurchaseOrder, purchaseReceipt |-> PurchaseReceiptDialog,
   purchaseReturn |-> PurchaseReturnDialog, confirmPurchaseOrder |-> ConfirmPurchaseOrder,
   postPurchase |-> PostPurchaseDocument,
   account |-> AccountDialog, expense |-> ExpenseDialog, adjustment |-> AdjustmentDialog,
   payment |-> PaymentDialog, receipt |-> ReceiptDialog,
   postFinance |-> PostFinanceDocument, postExpense |-> PostExpense,
   inspection |-> InspectionDialog, settlement |-> SettlementDialog,
   location |-> LocationDialog, opening |-> OpeningDialog,
   stockAdjustment |-> StockAdjustmentDialog, transfer |-> TransferDialog,
   masterData |-> MasterDataFormDialog, deactivate |-> DeactivateDialog]

-----------------------------------------------------------------------------
(* What the server asks of the row: the statuses it accepts, the moves a    *)
(* submission makes and those that only work elsewhere makes.               *)

Row(accepts, moves, cancels) == [accepts |-> accepts, moves |-> moves, cancels |-> cancels]

DraftRow == Row({"DRAFT"}, {<<"DRAFT", "POSTED">>}, {})
Untargeted == Row(NoTarget, {}, {})

SalesOrderRow == Row({"DRAFT"}, {<<"DRAFT", "CONFIRMED">>}, {<<"DRAFT", "CANCELLED">>})

\* Cancelling the order cancels its draft issues; another issue completes it.
IssueRow == Row({"DRAFT"}, {<<"DRAFT", "POSTED">>},
                {<<"DRAFT", "CANCELLED">>, <<"DRAFT", "DRAFT OF ISSUED ORDER">>})
PostedRow == Row({"POSTED"}, {}, {})

PurchaseOrderRow == Row({"DRAFT"}, {<<"DRAFT", "CONFIRMED">>}, {<<"DRAFT", "CANCELLED">>})

\* updateOrder refuses an order that has a receipt, a draft one too.
EditedOrderRow == Row({"DRAFT", "CONFIRMED"}, {},
                      {<<"CONFIRMED", "CONFIRMED WITH DRAFT RECEIPT">>,
                       <<"CONFIRMED", "CANCELLED">>,
                       <<"CONFIRMED WITH DRAFT RECEIPT", "PARTIALLY_RECEIVED">>})
ReceivedOrderRow == Row({"CONFIRMED", "PARTIALLY_RECEIVED"},
                        {<<"CONFIRMED", "PARTIALLY_RECEIVED">>,
                         <<"PARTIALLY_RECEIVED", "RECEIVED">>},
                        {<<"CONFIRMED", "CANCELLED">>})

\* What is outstanding can still be allocated.
PayableRow == Row({"OPEN", "PARTIALLY_PAID"},
                  {<<"OPEN", "PARTIALLY_PAID">>, <<"PARTIALLY_PAID", "SETTLED">>}, {})
ReceivableRow == Row({"OPEN", "PARTIALLY_RECEIVED"},
                     {<<"OPEN", "PARTIALLY_RECEIVED">>,
                      <<"PARTIALLY_RECEIVED", "SETTLED">>}, {})

\* A return is pending until it has an inspection, a draft one too.
PendingRow == Row({"PENDING"}, {<<"PENDING", "INSPECTED">>}, {})
ClaimRow == Row({"DRAFT", "SUBMITTED", "PARTIALLY_SETTLED"},
                {<<"SUBMITTED", "PARTIALLY_SETTLED">>, <<"SUBMITTED", "REJECTED">>,
                 <<"PARTIALLY_SETTLED", "SETTLED">>}, {})

\* Deactivating twice is accepted.
MasterRow == Row({"ACTIVE", "INACTIVE"}, {<<"ACTIVE", "INACTIVE">>}, {})

RowOf(screen) ==
  CASE screen = "salesIssue" -> IssueRow
    [] screen \in {"salesReturn", "purchaseReturn"} -> PostedRow
    [] screen = "confirmSalesOrder" -> SalesOrderRow
    [] screen = "confirmPurchaseOrder" -> PurchaseOrderRow
    [] screen = "editPurchaseOrder" -> EditedOrderRow
    [] screen = "purchaseReceipt" -> ReceivedOrderRow
    [] screen \in {"postSalesReturn", "postPurchase", "postFinance", "postExpense"} -> DraftRow
    [] screen = "payment" -> PayableRow
    [] screen = "receipt" -> ReceivableRow
    [] screen = "inspection" -> PendingRow
    [] screen = "settlement" -> ClaimRow
    [] screen = "deactivate" -> MasterRow
    [] OTHER -> Untargeted

Statuses(screen) ==
  Screens[screen].offered \cup RowOf(screen).accepts
    \cup UNION {{m[1], m[2]} : m \in RowOf(screen).moves \cup RowOf(screen).cancels}

\* The list of orders does not tell of draft receipts.
Seen(status) == IF status = "CONFIRMED WITH DRAFT RECEIPT" THEN "CONFIRMED" ELSE status
=============================================================================
