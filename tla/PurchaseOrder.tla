--------------------------- MODULE PurchaseOrder ---------------------------
(***************************************************************************)
(* PurchaseService: orders, receipts, returns and the payables they        *)
(* create.  As in sales, a handler reads and checks first (Load...) and    *)
(* writes in a second step; receipts and returns are posted through the    *)
(* kernel, one step here.  updateOrder deletes the items of the order and  *)
(* creates new ones: ver counts these generations, and the foreign key of  *)
(* receipt items (ON DELETE RESTRICT) ties a receipt to one of them.       *)
(*                                                                         *)
(* Each item is one sku with one price; locations, batches and stock are   *)
(* those of the kernel, which may refuse a posting for reasons of its own. *)
(***************************************************************************)
EXTENDS Quantities

CONSTANTS
    Order,
    Supplier,
    MaxQuantity, \* bound: quantity of an item
    MaxVer,      \* bound: times the items of an order are replaced
    Receipt,     \* bound: the receipts and
    Return,      \* the returns there can be
    Key,
    Process,     \* requests that may be in progress at the same time
    None

ASSUME PurchaseAssumption ==
    /\ MaxQuantity \in Nat \ {0}
    /\ MaxVer \in Nat
    /\ IsFiniteSet(Receipt) /\ IsFiniteSet(Return) /\ Receipt \cap Return = {}
    /\ None \notin Process \cup Order \cup Receipt \cup Return \cup Key \cup Supplier

Doc == Receipt \cup Return

VARIABLES
    orderStatus, \* PurchaseOrder.status
    content,     \* PurchaseOrder.supplierId and its items
    received,    \* PurchaseOrderItem.receivedQuantity
    receipt,     \* PurchaseReceipt with its items
    ret,         \* PurchaseReturn with its items
    returned,    \* PurchaseReceiptItem.returnedQuantity
    ledger,      \* what the posted document moved
    payable,     \* the Payable of a receipt
    credit,      \* the SupplierCredit of a return
    idem,        \* IdempotencyRecord: the keys a document was posted under
    proc         \* what a request has read and is about to write

vars == <<orderStatus, content, received, receipt, ret, returned, ledger,
          payable, credit, idem, proc>>

orders == <<orderStatus, content, received>>
posted == <<returned, ledger, payable, credit, idem>>

NoContent == [ver |-> 0, supplier |-> None, qty |-> Zero]

NoReceipt == [status |-> "ABSENT", order |-> None, ver |-> 0, qty |-> Zero]

NoReturn == [status |-> "ABSENT", receipt |-> None, qty |-> Zero]

NoPayable == [supplier |-> None, original |-> 0, paid |-> 0, adjusted |-> 0,
              outstanding |-> 0]

\* content: the order as it was read or is to be written; due: the outstanding
\* amount of the payable as it was read.
IdleProc == [op |-> "idle", id |-> None, qty |-> Zero, key |-> None,
             content |-> NoContent, due |-> 0]

Init ==
    /\ orderStatus = [o \in Order |-> "ABSENT"]
    /\ content = [o \in Order |-> NoContent]
    /\ received = [o \in Order |-> Zero]
    /\ receipt = [r \in Receipt |-> NoReceipt]
    /\ ret = [t \in Return |-> NoReturn]
    /\ returned = [r \in Receipt |-> Zero]
    /\ ledger = [d \in Doc |-> Zero]
    /\ payable = [r \in Receipt |-> NoPayable]
    /\ credit = [t \in Return |-> 0]
    /\ idem = [d \in Doc |-> {}]
    /\ proc = [p \in Process |-> IdleProc]

\* positive(): a document has at least one item, with a positive quantity.
Lists == [Item -> 0..MaxQuantity] \ {Zero}

Loads(p, row) == proc[p].op = "idle" /\ proc' = [proc EXCEPT ![p] = row]

Ends(p) == proc' = [proc EXCEPT ![p] = IdleProc]

\* Mutant: only receipts that are posted hold on to the items.
ReferencedByPosted(o) ==
    \E r \in Receipt : receipt[r].order = o /\ receipt[r].status = "POSTED"

\* Rows that refer to items of the order: the database does not delete those.
Referenced(o) == \E r \in Receipt : receipt[r].order = o

(***************************************************************************)
(* Orders.                                                                 *)
(***************************************************************************)

CreateOrder(o, supplier, qty) ==
    /\ orderStatus[o] = "ABSENT"
    /\ orderStatus' = [orderStatus EXCEPT ![o] = "DRAFT"]
    /\ content' = [content EXCEPT ![o] =
                      [ver |-> 0, supplier |-> supplier, qty |-> qty]]
    /\ UNCHANGED <<received, receipt, ret, posted, proc>>

\* No receipt, not even a draft, when the handler looks.
LoadUpdateOrder(p, o, supplier, qty) ==
    /\ orderStatus[o] \in {"DRAFT", "CONFIRMED"}
    /\ \A r \in Receipt : receipt[r].order # o
    /\ content[o].ver < MaxVer
    /\ Loads(p, [IdleProc EXCEPT !.op = "updateOrder", !.id = o,
                    !.content = [ver |-> 0, supplier |-> supplier, qty |-> qty]])
    /\ UNCHANGED <<orders, receipt, ret, posted>>

\* One nested write: new items and header, whatever the status is by now.
UpdateOrder(p) ==
    LET o == proc[p].id IN
    /\ proc[p].op = "updateOrder"
    /\ ~ Referenced(o)
    /\ content' = [content EXCEPT ![o] =
                      [proc[p].content EXCEPT !.ver = content[o].ver + 1]]
    /\ received' = [received EXCEPT ![o] = Zero]
    /\ Ends(p)
    /\ UNCHANGED <<orderStatus, receipt, ret, posted>>

LoadConfirm(p, o) ==
    /\ orderStatus[o] = "DRAFT"
    /\ Loads(p, [IdleProc EXCEPT !.op = "confirmOrder", !.id = o])
    /\ UNCHANGED <<orders, receipt, ret, posted>>

LoadCancel(p, o) ==
    /\ orderStatus[o] \in {"DRAFT", "CONFIRMED"}
    /\ received[o] = Zero
    /\ Loads(p, [IdleProc EXCEPT !.op = "cancelOrder", !.id = o])
    /\ UNCHANGED <<orders, receipt, ret, posted>>

\* confirmOrder and cancelOrder write the status and nothing else.
SetStatus(p, op, status) ==
    /\ proc[p].op = op
    /\ orderStatus' = [orderStatus EXCEPT ![proc[p].id] = status]
    /\ Ends(p)
    /\ UNCHANGED <<content, received, receipt, ret, posted>>

ConfirmOrder(p) == SetStatus(p, "confirmOrder", "CONFIRMED")

CancelOrder(p) == SetStatus(p, "cancelOrder", "CANCELLED")

(***************************************************************************)
(* Receipts.                                                               *)
(***************************************************************************)

LoadCreateReceipt(p, o, qty) ==
    /\ orderStatus[o] \in {"CONFIRMED", "PARTIALLY_RECEIVED"}
    /\ Fits(qty, Minus(content[o].qty, received[o]))
    /\ Loads(p, [IdleProc EXCEPT !.op = "createReceipt", !.id = o, !.qty = qty,
                                 !.content = content[o]])
    /\ UNCHANGED <<orders, receipt, ret, posted>>

\* The items that were read must still be there: foreign key.
CreateReceipt(p) ==
    LET o == proc[p].id IN
    /\ proc[p].op = "createReceipt"
    /\ content[o].ver = proc[p].content.ver
    /\ \E r \in Receipt :
         /\ receipt[r].status = "ABSENT"
         /\ receipt' = [receipt EXCEPT ![r] =
                           [status |-> "DRAFT", order |-> o,
                            ver |-> content[o].ver, qty |-> proc[p].qty]]
    /\ Ends(p)
    /\ UNCHANGED <<orders, ret, posted>>

\* updateOrder and createReceipt meet a row of the other.
ForeignKeyError(p) ==
    LET o == proc[p].id IN
    /\ \/ proc[p].op = "updateOrder" /\ Referenced(o)
       \/ proc[p].op = "createReceipt" /\ content[o].ver # proc[p].content.ver
    /\ Ends(p)
    /\ UNCHANGED <<orders, receipt, ret, posted>>

\* Any status of the order will do.
LoadPostReceipt(p, r, k) ==
    /\ receipt[r].status # "ABSENT"
    /\ Loads(p, [IdleProc EXCEPT !.op = "postReceipt", !.id = r, !.key = k,
                                 !.qty = receipt[r].qty,
                                 !.content = content[receipt[r].order]])
    /\ UNCHANGED <<orders, receipt, ret, posted>>

FirstUse(p) == proc[p].key \notin idem[proc[p].id]

\* Mutant: the receipt is compared with the order alone.
OverreceivesAlone(o, qty) == ~ Fits(qty, content[o].qty)

Overreceives(o, qty) == ~ Fits(Plus(received[o], qty), content[o].qty)

StatusAfter(o, receivedNow) ==
    IF receivedNow = content[o].qty THEN "RECEIVED" ELSE "PARTIALLY_RECEIVED"

PostReceipt(p) ==
    LET r   == proc[p].id
        o   == receipt[r].order
        now == Plus(received[o], proc[p].qty)
        due == Amount(proc[p].qty)
    IN
    /\ proc[p].op = "postReceipt"
    /\ FirstUse(p)
    /\ receipt[r].status = "DRAFT"
    /\ ~ Overreceives(o, proc[p].qty)
    /\ ledger' = [ledger EXCEPT ![r] = proc[p].qty]
    /\ received' = [received EXCEPT ![o] = now]
    /\ orderStatus' = [orderStatus EXCEPT ![o] = StatusAfter(o, now)]
    /\ payable' = [payable EXCEPT ![r] =
                      [supplier |-> proc[p].content.supplier, original |-> due,
                       paid |-> 0, adjusted |-> 0, outstanding |-> due]]
    /\ receipt' = [receipt EXCEPT ![r].status = "POSTED"]
    /\ idem' = [idem EXCEPT ![r] = @ \cup {proc[p].key}]
    /\ Ends(p)
    /\ UNCHANGED <<content, ret, returned, credit>>

(***************************************************************************)
(* Returns.                                                                *)
(***************************************************************************)

\* Drafts claim nothing: only what was posted counts as returned.
LoadCreateReturn(p, r, qty) ==
    /\ receipt[r].status = "POSTED"
    /\ Fits(qty, Minus(receipt[r].qty, returned[r]))
    /\ Loads(p, [IdleProc EXCEPT !.op = "createReturn", !.id = r, !.qty = qty])
    /\ UNCHANGED <<orders, receipt, ret, posted>>

CreateReturn(p) ==
    /\ proc[p].op = "createReturn"
    /\ \E t \in Return :
         /\ ret[t].status = "ABSENT"
         /\ ret' = [ret EXCEPT ![t] = [status |-> "DRAFT",
                                       receipt |-> proc[p].id,
                                       qty |-> proc[p].qty]]
    /\ Ends(p)
    /\ UNCHANGED <<orders, receipt, posted>>

LoadPostReturn(p, t, k) ==
    /\ ret[t].status # "ABSENT"
    /\ Loads(p, [IdleProc EXCEPT !.op = "postReturn", !.id = t, !.key = k,
                                 !.qty = ret[t].qty,
                                 !.due = payable[ret[t].receipt].outstanding])
    /\ UNCHANGED <<orders, receipt, ret, posted>>

Overreturns(r, qty) == ~ Fits(Plus(returned[r], qty), receipt[r].qty)

\* The amount first reduces what is outstanding, as it was read before the
\* transaction; the rest becomes a credit.
Settled(row, due, amount) ==
    LET adjustment == Smaller(due, amount) IN
    IF adjustment > 0
    THEN [row EXCEPT !.adjusted = @ + adjustment,
                     !.outstanding = due - adjustment]
    ELSE row

PostReturn(p) ==
    LET t      == proc[p].id
        r      == ret[t].receipt
        amount == Amount(proc[p].qty)
    IN
    /\ proc[p].op = "postReturn"
    /\ FirstUse(p)
    /\ ret[t].status = "DRAFT"
    /\ ~ Overreturns(r, proc[p].qty)
    /\ ledger' = [ledger EXCEPT ![t] = proc[p].qty]
    /\ returned' = [returned EXCEPT ![r] = Plus(@, proc[p].qty)]
    /\ payable' = [payable EXCEPT ![r] = Settled(@, proc[p].due, amount)]
    /\ credit' = [credit EXCEPT ![t] = amount - Smaller(proc[p].due, amount)]
    /\ ret' = [ret EXCEPT ![t].status = "POSTED"]
    /\ idem' = [idem EXCEPT ![t] = @ \cup {proc[p].key}]
    /\ Ends(p)
    /\ UNCHANGED <<orders, receipt>>

\* A replay, a refusal of finalize, or one of the kernel (stock, batch
\* numbers, locations, conflicts): nothing is written.
PostRefused(p) ==
    /\ proc[p].op \in {"postReceipt", "postReturn"}
    /\ Ends(p)
    /\ UNCHANGED <<orders, receipt, ret, posted>>

\* FinanceService.postPayment reads and writes the payable in one transaction.
PostPayment(r, amount) ==
    /\ amount <= payable[r].outstanding
    /\ payable' = [payable EXCEPT ![r].paid = @ + amount,
                                  ![r].outstanding = @ - amount]
    /\ UNCHANGED <<orders, receipt, ret, returned, ledger, credit, idem, proc>>

OrderStep(p) ==
    \/ \E o \in Order :
         \/ LoadConfirm(p, o) \/ LoadCancel(p, o)
         \/ \E s \in Supplier, qty \in Lists : LoadUpdateOrder(p, o, s, qty)
    \/ UpdateOrder(p) \/ ConfirmOrder(p) \/ CancelOrder(p)

ReceiptStep(p) ==
    \/ \E o \in Order, qty \in Lists : LoadCreateReceipt(p, o, qty)
    \/ \E r \in Receipt, k \in Key : LoadPostReceipt(p, r, k)
    \/ CreateReceipt(p) \/ ForeignKeyError(p) \/ PostReceipt(p)

ReturnStep(p) ==
    \/ \E r \in Receipt, qty \in Lists : LoadCreateReturn(p, r, qty)
    \/ \E t \in Return, k \in Key : LoadPostReturn(p, t, k)
    \/ CreateReturn(p) \/ PostReturn(p)

Next ==
    \/ \E o \in Order, s \in Supplier, qty \in Lists : CreateOrder(o, s, qty)
    \/ \E p \in Process :
         OrderStep(p) \/ ReceiptStep(p) \/ ReturnStep(p) \/ PostRefused(p)
    \/ \E r \in Receipt : \E amount \in 1..payable[r].outstanding :
            PostPayment(r, amount)

Spec == Init /\ [][Next]_vars

=============================================================================
