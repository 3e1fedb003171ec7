--------------------------- MODULE PurchaseProofs ---------------------------
(***************************************************************************)
(* Proofs about purchases, for any orders, suppliers, documents and        *)
(* requests.                                                               *)
(*                                                                         *)
(* updateOrder looks for receipts in one statement and replaces the items  *)
(* in another; the foreign key of receipt items closes the gap from both   *)
(* sides. A receipt names the items it was created for, so that neither a  *)
(* replacement behind a receipt nor a receipt of replaced items can be     *)
(* written, and what postReceipt read of the order is still true when it   *)
(* makes the payable.                                                      *)
(*                                                                         *)
(* The books follow: what orders count as received, what receipts were     *)
(* sent back and what suppliers are owed for it are sums over posted       *)
(* documents, each written by the transaction that posts one of them.      *)
(***************************************************************************)
EXTENDS PurchaseLedger, TotalProofs

Orders == /\ orderStatus = [o \in Order |-> orderStatus[o]]
          /\ content = [o \in Order |-> content[o]]

\* A receipt names an order that exists and items it still has.
ReceiptKept(row) ==
    /\ row = [status |-> row.status, order |-> row.order, ver |-> row.ver, qty |-> row.qty]
    /\ row.status # "ABSENT" =>
          /\ row.order \in Order
          /\ orderStatus[row.order] # "ABSENT"
          /\ row.ver = content[row.order].ver

Receipts == /\ receipt = [r \in Receipt |-> receipt[r]]
            /\ \A r \in Receipt : ReceiptKept(receipt[r])

PayableShape(row) ==
    row = [supplier |-> row.supplier, original |-> row.original, paid |-> row.paid,
           adjusted |-> row.adjusted, outstanding |-> row.outstanding]

Payables ==
    /\ payable = [r \in Receipt |-> payable[r]]
    /\ \A r \in Receipt :
          /\ PayableShape(payable[r])
          /\ receipt[r].status = "POSTED" =>
                payable[r].supplier = content[receipt[r].order].supplier

\* What a request has read of an order that a receipt names is still true.
RequestKept(row) ==
    /\ row.op = "createReceipt" => row.id \in Order /\ orderStatus[row.id] # "ABSENT"
    /\ row.op = "postReceipt" =>
          /\ row.id \in Receipt /\ receipt[row.id].status # "ABSENT"
          /\ row.content.supplier = content[receipt[row.id].order].supplier

Requests == proc = [p \in Process |-> proc[p]] /\ \A p \in Process : RequestKept(proc[p])

PurchaseInv == Orders /\ Receipts /\ Payables /\ Requests

\* What a step leaves of orders and receipts.
OrdersGoOn ==
    /\ Orders'
    /\ \A o \in Order : orderStatus[o] # "ABSENT" => orderStatus'[o] # "ABSENT"
    /\ \A r \in Receipt : receipt[r].status # "ABSENT" =>
          content'[receipt[r].order] = content[receipt[r].order]

ReceiptsGoOn ==
    \A r \in Receipt : receipt[r].status # "ABSENT" =>
        receipt'[r].status # "ABSENT" /\ receipt'[r].order = receipt[r].order

(***************************************************************************)
(* Steps.                                                                  *)
(***************************************************************************)

\* The steps that write orders, receipts or payables; all others read.
Writes(p) ==
    \/ UpdateOrder(p) \/ ConfirmOrder(p) \/ CancelOrder(p)
    \/ CreateReceipt(p) \/ PostReceipt(p) \/ PostReturn(p)

LEMMA StepKinds ==
    ASSUME [Next]_vars
    PROVE  \/ \E o \in Order, s \in Supplier, qty \in Lists : CreateOrder(o, s, qty)
           \/ \E p \in Process : Writes(p)
           \/ \E r \in Receipt : \E amount \in 1..payable[r].outstanding : PostPayment(r, amount)
           \/ UNCHANGED <<orders, receipt, posted>>
<1>1. ASSUME NEW p \in Process, OrderStep(p) \/ ReceiptStep(p) \/ ReturnStep(p) \/ PostRefused(p)
      PROVE  Writes(p) \/ UNCHANGED <<orders, receipt, posted>>
  BY <1>1 DEF OrderStep, ReceiptStep, ReturnStep, Writes, LoadConfirm, LoadCancel, LoadUpdateOrder,
              LoadCreateReceipt, LoadPostReceipt, ForeignKeyError, LoadCreateReturn,
              LoadPostReturn, CreateReturn, PostRefused
<1>2. UNCHANGED vars => UNCHANGED <<orders, receipt, posted>>
  BY DEF vars, orders, posted
<1>. QED
  BY <1>1, <1>2 DEF Next

\* The steps that write returns.
LEMMA ReturnKinds ==
    ASSUME [Next]_vars
    PROVE  (\E p \in Process : CreateReturn(p) \/ PostReturn(p)) \/ UNCHANGED ret
<1>1. ASSUME NEW p \in Process, OrderStep(p) \/ ReceiptStep(p) \/ PostRefused(p)
      PROVE  UNCHANGED ret
  BY <1>1 DEF OrderStep, ReceiptStep, LoadConfirm, LoadCancel, LoadUpdateOrder, UpdateOrder,
              ConfirmOrder, CancelOrder, SetStatus, LoadCreateReceipt, LoadPostReceipt,
              CreateReceipt, ForeignKeyError, PostReceipt, PostRefused
<1>2. ASSUME NEW p \in Process, ReturnStep(p)
      PROVE  UNCHANGED ret \/ CreateReturn(p) \/ PostReturn(p)
  BY <1>2 DEF ReturnStep, LoadCreateReturn, LoadPostReturn
<1>3. ASSUME NEW o, NEW s, NEW qty, CreateOrder(o, s, qty)
      PROVE  UNCHANGED ret
  BY <1>3 DEF CreateOrder
<1>4. ASSUME NEW r, NEW amount, PostPayment(r, amount)
      PROVE  UNCHANGED ret
  BY <1>4 DEF PostPayment
<1>5. UNCHANGED vars => UNCHANGED ret
  BY DEF vars
<1>. QED
  BY <1>1, <1>2, <1>3, <1>4, <1>5 DEF Next

\* An order that exists goes on to exist, and one that a receipt names keeps its
\* content: a new order has no receipts, and the foreign key holds a replacement off.
LEMMA OrdersStep == PurchaseInv /\ [Next]_vars => OrdersGoOn
<1> SUFFICES ASSUME PurchaseInv, [Next]_vars
             PROVE  OrdersGoOn
  OBVIOUS
<1> USE DEF PurchaseInv, Orders, OrdersGoOn
<1>1. ASSUME NEW o \in Order, NEW s \in Supplier, NEW qty \in Lists, CreateOrder(o, s, qty)
      PROVE  OrdersGoOn
  BY <1>1 DEF CreateOrder, Receipts, ReceiptKept
<1>2. ASSUME NEW p \in Process, UpdateOrder(p)
      PROVE  OrdersGoOn
  BY <1>2 DEF UpdateOrder, Referenced, Receipts, ReceiptKept
<1>3. ASSUME NEW p \in Process, ConfirmOrder(p) \/ CancelOrder(p)
      PROVE  OrdersGoOn
  BY <1>3 DEF ConfirmOrder, CancelOrder, SetStatus
<1>4. ASSUME NEW p \in Process, CreateReceipt(p) \/ PostReturn(p)
      PROVE  OrdersGoOn
  BY <1>4 DEF CreateReceipt, PostReturn, orders
<1>5. ASSUME NEW p \in Process, PostReceipt(p)
      PROVE  OrdersGoOn
  BY <1>5 DEF PostReceipt, StatusAfter
<1>6. ASSUME NEW r \in Receipt, NEW amount, PostPayment(r, amount)
      PROVE  OrdersGoOn
  BY <1>6 DEF PostPayment, orders
<1>7. CASE UNCHANGED <<orders, receipt, posted>>
  BY <1>7 DEF orders
<1>. QED
  BY <1>1, <1>2, <1>3, <1>4, <1>5, <1>6, <1>7, StepKinds DEF Writes

\* A receipt is created for items that are there, and keeps its order.
LEMMA ReceiptsStep == PurchaseInv /\ [Next]_vars => Receipts' /\ ReceiptsGoOn
<1> SUFFICES ASSUME PurchaseInv, [Next]_vars
             PROVE  Receipts' /\ ReceiptsGoOn
  OBVIOUS
<1>0. OrdersGoOn
  BY OrdersStep
<1> DEFINE Stays(row) ==
             /\ row = [status |-> row.status, order |-> row.order, ver |-> row.ver,
                       qty |-> row.qty]
             /\ row.status # "ABSENT" =>
                   /\ row.order \in Order
                   /\ orderStatus'[row.order] # "ABSENT"
                   /\ row.ver = content'[row.order].ver
<1>1. \A r \in Receipt : Stays(receipt[r])
  BY <1>0 DEF PurchaseInv, Receipts, ReceiptKept, OrdersGoOn
<1>2. (/\ receipt' = [r \in Receipt |-> receipt'[r]]
       /\ \A r \in Receipt : Stays(receipt'[r]))
      => Receipts'
  BY DEF Receipts, ReceiptKept
<1>3. UNCHANGED receipt => Receipts' /\ ReceiptsGoOn
  BY <1>1, <1>2 DEF PurchaseInv, Receipts, ReceiptsGoOn
<1>4. ASSUME NEW p \in Process, CreateReceipt(p)
      PROVE  Receipts' /\ ReceiptsGoOn
  <2>. DEFINE o == proc[p].id
              row == [status |-> "DRAFT", order |-> o, ver |-> content[o].ver, qty |-> proc[p].qty]
  <2>1. PICK r \in Receipt : receipt[r].status = "ABSENT" /\ receipt' = [receipt EXCEPT ![r] = row]
    BY <1>4 DEF CreateReceipt
  <2>2. Stays(row)
    BY <1>0, <1>4 DEF CreateReceipt, PurchaseInv, Requests, RequestKept, OrdersGoOn, orders
  <2>. HIDE DEF row, Stays
  <2>3. /\ receipt' = [x \in Receipt |-> receipt'[x]]
        /\ \A x \in Receipt : Stays(receipt'[x])
    BY <1>1, <2>1, <2>2 DEF PurchaseInv, Receipts
  <2>. QED
    BY <1>2, <2>1, <2>3 DEF PurchaseInv, Receipts, ReceiptsGoOn
<1>5. ASSUME NEW p \in Process, PostReceipt(p)
      PROVE  Receipts' /\ ReceiptsGoOn
  <2>. DEFINE r == proc[p].id
  <2>1. r \in Receipt /\ receipt[r].status = "DRAFT" /\ receipt' = [receipt EXCEPT ![r].status = "POSTED"]
    BY <1>5 DEF PostReceipt, PurchaseInv, Requests, RequestKept
  <2>. HIDE DEF r
  <2>2. receipt'[r] = [status |-> "POSTED", order |-> receipt[r].order, ver |-> receipt[r].ver,
                       qty |-> receipt[r].qty]
    BY <1>1, <2>1 DEF PurchaseInv, Receipts
  <2>3. \A x \in Receipt : x # r => receipt'[x] = receipt[x]
    BY <2>1 DEF PurchaseInv, Receipts
  <2>4. Stays(receipt'[r])
    <3>1. Stays(receipt[r])
      BY <1>1, <2>1
    <3>2. PICK o, v, q : receipt'[r] = [status |-> "POSTED", order |-> o, ver |-> v, qty |-> q]
                         /\ o = receipt[r].order /\ v = receipt[r].ver
      BY <2>2
    <3>. QED
      BY <2>1, <3>1, <3>2
  <2>. HIDE DEF Stays
  <2>5. \A x \in Receipt : Stays(receipt'[x])
    BY <1>1, <2>3, <2>4
  <2>6. receipt' = [x \in Receipt |-> receipt'[x]]
    BY <2>1 DEF PurchaseInv, Receipts
  <2>. QED
    BY <1>2, <2>1, <2>2, <2>3, <2>5, <2>6 DEF ReceiptsGoOn
<1>6. ASSUME NEW p \in Process, UpdateOrder(p) \/ ConfirmOrder(p) \/ CancelOrder(p) \/ PostReturn(p)
      PROVE  UNCHANGED receipt
  BY <1>6 DEF UpdateOrder, ConfirmOrder, CancelOrder, SetStatus, PostReturn
<1>7. ASSUME NEW o, NEW s, NEW qty, CreateOrder(o, s, qty)
      PROVE  UNCHANGED receipt
  BY <1>7 DEF CreateOrder
<1>8. ASSUME NEW r, NEW amount, PostPayment(r, amount)
      PROVE  UNCHANGED receipt
  BY <1>8 DEF PostPayment
<1>. QED
  BY <1>3, <1>4, <1>5, <1>6, <1>7, <1>8, StepKinds DEF Writes

\* What is written of the amounts says nothing of the supplier.
LEMMA AmountsSupplier ==
    ASSUME NEW row, PayableShape(row), NEW m, NEW n
    PROVE  /\ LET new == [row EXCEPT !.adjusted = m, !.outstanding = n]
              IN PayableShape(new) /\ new.supplier = row.supplier
           /\ LET new == [row EXCEPT !.paid = m, !.outstanding = n]
              IN PayableShape(new) /\ new.supplier = row.supplier
<1>1. PICK a, b, c, d, e : row = [supplier |-> a, original |-> b, paid |-> c, adjusted |-> d,
                                  outstanding |-> e]
  BY DEF PayableShape
<1>2. [row EXCEPT !.adjusted = m, !.outstanding = n]
        = [supplier |-> a, original |-> b, paid |-> c, adjusted |-> m, outstanding |-> n]
  <2>. DEFINE mid == [row EXCEPT !.adjusted = m]
  <2>1. mid = [supplier |-> a, original |-> b, paid |-> c, adjusted |-> m, outstanding |-> e]
    BY <1>1
  <2>2. [row EXCEPT !.adjusted = m, !.outstanding = n] = [mid EXCEPT !.outstanding = n]
    BY <1>1
  <2>. HIDE DEF mid
  <2>. QED
    BY <2>1, <2>2
<1>3. [row EXCEPT !.paid = m, !.outstanding = n]
        = [supplier |-> a, original |-> b, paid |-> m, adjusted |-> d, outstanding |-> n]
  <2>. DEFINE mid == [row EXCEPT !.paid = m]
  <2>1. mid = [supplier |-> a, original |-> b, paid |-> m, adjusted |-> d, outstanding |-> e]
    BY <1>1
  <2>2. [row EXCEPT !.paid = m, !.outstanding = n] = [mid EXCEPT !.outstanding = n]
    BY <1>1
  <2>. HIDE DEF mid
  <2>. QED
    BY <2>1, <2>2
<1>. QED
  BY <1>1, <1>2, <1>3 DEF PayableShape

\* A return takes off what is outstanding.
LEMMA SettledSupplier ==
    ASSUME NEW row, NEW due, NEW amount, PayableShape(row)
    PROVE  PayableShape(Settled(row, due, amount))
           /\ Settled(row, due, amount).supplier = row.supplier
<1> DEFINE adjustment == Smaller(due, amount)
           settled == [row EXCEPT !.adjusted = row.adjusted + adjustment,
                                  !.outstanding = due - adjustment]
<1>1. Settled(row, due, amount) = IF adjustment > 0 THEN settled ELSE row
  BY DEF Settled
<1>2. PayableShape(settled) /\ settled.supplier = row.supplier
  BY AmountsSupplier
<1> HIDE DEF settled
<1>. QED
  BY <1>1, <1>2

\* A payable is made for the supplier of the order, and keeps it.
LEMMA PayablesStep == PurchaseInv /\ [Next]_vars => Payables'
<1> SUFFICES ASSUME PurchaseInv, [Next]_vars
             PROVE  Payables'
  OBVIOUS
<1>0. OrdersGoOn /\ Receipts' /\ ReceiptsGoOn
  BY OrdersStep, ReceiptsStep
<1>1. ASSUME NEW p \in Process, PostReceipt(p)
      PROVE  Payables'
  <2>. DEFINE r == proc[p].id
              due == Amount(proc[p].qty)
              row == [supplier |-> proc[p].content.supplier, original |-> due, paid |-> 0,
                      adjusted |-> 0, outstanding |-> due]
  <2>1. /\ r \in Receipt /\ receipt[r].status # "ABSENT"
        /\ proc[p].content.supplier = content[receipt[r].order].supplier
    BY <1>1 DEF PostReceipt, PurchaseInv, Requests, RequestKept
  <2>2. /\ payable' = [payable EXCEPT ![r] = row]
        /\ receipt' = [receipt EXCEPT ![r].status = "POSTED"]
        /\ content' = content
    BY <1>1 DEF PostReceipt
  <2>. HIDE DEF r, due
  <2>3. PayableShape(row)
    BY DEF PayableShape
  <2>4. row.supplier = content'[receipt'[r].order].supplier
    BY <1>0, <2>1, <2>2 DEF ReceiptsGoOn
  <2>. HIDE DEF row
  <2>5. /\ payable' = [x \in Receipt |-> payable'[x]] /\ payable'[r] = row
        /\ \A x \in Receipt : x # r => payable'[x] = payable[x] /\ receipt'[x] = receipt[x]
    BY <2>1, <2>2 DEF PurchaseInv, Payables, Receipts
  <2>. QED
    BY <2>2, <2>3, <2>4, <2>5 DEF PurchaseInv, Payables
<1>2. ASSUME payable' = [r \in Receipt |-> payable'[r]],
             \A r \in Receipt : PayableShape(payable'[r])
                                /\ payable'[r].supplier = payable[r].supplier,
             \A r \in Receipt : receipt'[r].status = "POSTED" => receipt[r].status = "POSTED"
      PROVE  Payables'
  BY <1>0, <1>2 DEF OrdersGoOn, ReceiptsGoOn, PurchaseInv, Payables, PayableShape
<1>3. ASSUME NEW p \in Process, PostReturn(p)
      PROVE  Payables'
  <2>. DEFINE s == ret[proc[p].id].receipt
              amount == Amount(proc[p].qty)
              row == Settled(payable[s], proc[p].due, amount)
  <2>1. payable' = [payable EXCEPT ![s] = row] /\ UNCHANGED receipt
    BY <1>3 DEF PostReturn
  <2>. HIDE DEF s
  <2>2. s \in Receipt => PayableShape(row) /\ row.supplier = payable[s].supplier
    BY SettledSupplier DEF PurchaseInv, Payables
  <2>. HIDE DEF row
  <2>. QED
    BY <1>2, <2>1, <2>2 DEF PurchaseInv, Payables
<1>4. ASSUME NEW s \in Receipt, NEW amount, PostPayment(s, amount)
      PROVE  Payables'
  <2>. DEFINE row == [payable[s] EXCEPT !.paid = payable[s].paid + amount,
                                        !.outstanding = payable[s].outstanding - amount]
  <2>1. payable' = [payable EXCEPT ![s] = row] /\ UNCHANGED receipt
    BY <1>4 DEF PostPayment, PurchaseInv, Payables
  <2>2. PayableShape(row) /\ row.supplier = payable[s].supplier
    <3>. DEFINE base == payable[s]
                m == payable[s].paid + amount
                n == payable[s].outstanding - amount
    <3>1. PayableShape(base)
      BY DEF PurchaseInv, Payables
    <3>2. row = [base EXCEPT !.paid = m, !.outstanding = n]
      OBVIOUS
    <3>. HIDE DEF base, m, n
    <3>3. LET new == [base EXCEPT !.paid = m, !.outstanding = n]
          IN PayableShape(new) /\ new.supplier = base.supplier
      BY <3>1, AmountsSupplier
    <3>. QED
      BY <3>2, <3>3 DEF base
  <2>. HIDE DEF row
  <2>3. payable'[s] = row /\ \A r \in Receipt : r # s => payable'[r] = payable[r]
    BY <2>1 DEF PurchaseInv, Payables
  <2>4. payable' = [r \in Receipt |-> payable'[r]]
    BY <2>1 DEF PurchaseInv, Payables
  <2>. HIDE DEF row
  <2>. QED
    BY <1>2, <2>1, <2>2, <2>3, <2>4 DEF PurchaseInv, Payables
<1>5. UNCHANGED <<payable, receipt>> => Payables'
  BY <1>2 DEF PurchaseInv, Payables
<1>6. ASSUME NEW p \in Process, CreateReceipt(p)
      PROVE  Payables'
  <2>1. UNCHANGED payable
    BY <1>6 DEF CreateReceipt, posted
  <2>2. \A r \in Receipt : receipt'[r].status = "POSTED" => receipt[r].status = "POSTED"
    BY <1>6 DEF CreateReceipt, PurchaseInv, Receipts
  <2>. QED
    BY <1>2, <2>1, <2>2 DEF PurchaseInv, Payables
<1>7. ASSUME NEW p \in Process, UpdateOrder(p) \/ ConfirmOrder(p) \/ CancelOrder(p)
      PROVE  UNCHANGED <<payable, receipt>>
  BY <1>7 DEF UpdateOrder, ConfirmOrder, CancelOrder, SetStatus, posted
<1>8. ASSUME NEW o, NEW s, NEW qty, CreateOrder(o, s, qty)
      PROVE  UNCHANGED <<payable, receipt>>
  BY <1>8 DEF CreateOrder, posted
<1>. QED
  BY <1>1, <1>3, <1>4, <1>5, <1>6, <1>7, <1>8, StepKinds DEF Writes, posted

\* A request to post reads the order behind a receipt, which keeps it as it was.
LEMMA RequestsStep == PurchaseInv /\ [Next]_vars => Requests'
<1> SUFFICES ASSUME PurchaseInv, [Next]_vars
             PROVE  Requests'
  OBVIOUS
<1>0. OrdersGoOn /\ ReceiptsGoOn
  BY OrdersStep, ReceiptsStep
<1> DEFINE Stays(row) ==
             /\ row.op = "createReceipt" => row.id \in Order /\ orderStatus'[row.id] # "ABSENT"
             /\ row.op = "postReceipt" =>
                   /\ row.id \in Receipt /\ receipt'[row.id].status # "ABSENT"
                   /\ row.content.supplier = content'[receipt'[row.id].order].supplier
<1>1. \A row : RequestKept(row) => Stays(row)
  BY <1>0 DEF OrdersGoOn, ReceiptsGoOn, RequestKept
<1>2. \A p \in Process : Stays(proc[p])
  BY <1>1 DEF PurchaseInv, Requests
<1>3. \A p, row : Stays(row) /\ proc' = [proc EXCEPT ![p] = row] => Requests'
  BY <1>2 DEF PurchaseInv, Requests, RequestKept
<1>4. UNCHANGED proc => Requests'
  BY <1>2 DEF PurchaseInv, Requests, RequestKept
<1>5. Stays(IdleProc)
  BY DEF IdleProc
<1>6. \A p : Ends(p) => Requests'
  BY <1>3, <1>5 DEF Ends
<1>7. \A p, row : RequestKept(row) /\ Loads(p, row) => Requests'
  BY <1>1, <1>3 DEF Loads
<1> HIDE DEF Stays
<1>8. \A op, id, qty, key, c, due : op \notin {"createReceipt", "postReceipt"} =>
         RequestKept([op |-> op, id |-> id, qty |-> qty, key |-> key, content |-> c, due |-> due])
  BY DEF RequestKept
<1>9. ASSUME NEW p \in Process, NEW o \in Order, LoadConfirm(p, o) \/ LoadCancel(p, o)
      PROVE  Requests'
  BY <1>7, <1>9 DEF LoadConfirm, LoadCancel, RequestKept, IdleProc
<1>10. ASSUME NEW p \in Process, NEW o \in Order, NEW s \in Supplier, NEW qty \in Lists,
              LoadUpdateOrder(p, o, s, qty)
       PROVE  Requests'
  BY <1>7, <1>10 DEF LoadUpdateOrder, RequestKept, IdleProc
<1>11. ASSUME NEW p \in Process, NEW o \in Order, NEW qty \in Lists, LoadCreateReceipt(p, o, qty)
       PROVE  Requests'
  BY <1>7, <1>11 DEF LoadCreateReceipt, RequestKept, IdleProc
<1>12. ASSUME NEW p \in Process, NEW r \in Receipt, NEW k \in Key, LoadPostReceipt(p, r, k)
       PROVE  Requests'
  BY <1>7, <1>12 DEF LoadPostReceipt, RequestKept, IdleProc
<1>13. ASSUME NEW p \in Process, NEW r \in Receipt, NEW qty \in Lists, LoadCreateReturn(p, r, qty)
       PROVE  Requests'
  BY <1>7, <1>13 DEF LoadCreateReturn, RequestKept, IdleProc
<1>14. ASSUME NEW p \in Process, NEW t \in Return, NEW k \in Key, LoadPostReturn(p, t, k)
       PROVE  Requests'
  <2>. DEFINE due == payable[ret[t].receipt].outstanding
              row == [IdleProc EXCEPT !.op = "postReturn", !.id = t, !.key = k,
                                      !.qty = ret[t].qty, !.due = due]
  <2>1. Loads(p, row)
    BY <1>14 DEF LoadPostReturn
  <2>. HIDE DEF due
  <2>2. RequestKept(row)
    BY DEF RequestKept, IdleProc
  <2>. QED
    BY <1>7, <2>1, <2>2
<1>15. ASSUME NEW p \in Process, Writes(p) \/ ForeignKeyError(p) \/ CreateReturn(p) \/ PostRefused(p)
       PROVE  Requests'
  BY <1>6, <1>15 DEF Writes, UpdateOrder, ConfirmOrder, CancelOrder, SetStatus, CreateReceipt,
                     PostReceipt, PostReturn, ForeignKeyError, CreateReturn, PostRefused
<1>16. ASSUME NEW o, NEW s, NEW qty, CreateOrder(o, s, qty)
       PROVE  Requests'
  BY <1>4, <1>16 DEF CreateOrder
<1>17. ASSUME NEW r, NEW amount, PostPayment(r, amount)
       PROVE  Requests'
  BY <1>4, <1>17 DEF PostPayment
<1>18. UNCHANGED vars => Requests'
  BY <1>4 DEF vars
<1>. QED
  BY <1>9, <1>10, <1>11, <1>12, <1>13, <1>14, <1>15, <1>16, <1>17, <1>18
     DEF Next, OrderStep, ReceiptStep, ReturnStep, Writes

\* At the start there is nothing.
LEMMA PurchaseInit == Init => PurchaseInv
BY DEF Init, PurchaseInv, Orders, Receipts, ReceiptKept, NoReceipt, Payables, PayableShape,
       NoPayable, Requests, RequestKept, IdleProc

LEMMA PurchaseStep == PurchaseInv /\ [Next]_vars => PurchaseInv'
BY OrdersStep, ReceiptsStep, PayablesStep, RequestsStep DEF PurchaseInv, OrdersGoOn

\* The invariant of purchases.
THEOREM PurchaseInvariant == Spec => []PurchaseInv
BY PurchaseInit, PurchaseStep, PTL DEF Spec

\* A receipt, draft or posted, lists items its order still has, and its payable is
\* owed to the supplier of the order, whatever requests interleave (updateOrder,
\* createReceipt, postReceipt of PurchaseService).
THEOREM ReceiptsLockOrders == Spec => []OrderLockedByReceipt
<1>1. ASSUME PurchaseInv
      PROVE  OrderLockedByReceipt
  BY <1>1 DEF PurchaseInv, Receipts, ReceiptKept, Payables, OrderLockedByReceipt
<1>. QED
  BY <1>1, PurchaseInvariant, PTL

(***************************************************************************)
(* Amounts, and what documents moved.                                      *)
(***************************************************************************)

\* What an order pays for a quantity, and for two quantities.
LEMMA Amounts ==
    /\ Zero \in Quantity /\ Amount(Zero) = 0
    /\ \A q \in Quantity : Amount(q) \in Nat
    /\ \A q, r \in Quantity :
          Plus(q, r) \in Quantity /\ Amount(Plus(q, r)) = Amount(q) + Amount(r)
<1>1. Zero \in Quantity /\ \A i \in Item : Zero[i] = 0
  BY DEF Zero, Quantity
<1>2. Amount(Zero) = 0
  BY <1>1, PriceAssumption, WorthZero DEF Amount, Quantity
<1>3. ASSUME NEW q \in Quantity
      PROVE  Amount(q) \in Nat
  BY PriceAssumption, WorthNat DEF Amount, Quantity
<1>4. ASSUME NEW q \in Quantity, NEW r \in Quantity
      PROVE  Plus(q, r) \in Quantity /\ Amount(Plus(q, r)) = Amount(q) + Amount(r)
  <2>1. Plus(q, r) \in Quantity
    BY DEF Plus, Quantity
  <2>2. [i \in Item |-> Price[i] * Plus(q, r)[i]] = [i \in Item |-> Price[i] * (q[i] + r[i])]
    BY DEF Plus
  <2>3. Total([i \in Item |-> Price[i] * (q[i] + r[i])]) = Amount(q) + Amount(r)
    BY PriceAssumption, WorthPlus DEF Amount, Quantity
  <2>. QED
    BY <2>1, <2>2, <2>3 DEF Amount
<1>. QED
  BY <1>1, <1>2, <1>3, <1>4

\* What the documents of D moved, by the ledger L.
MovedBy(L, D) == Columns(Item, D, L)

\* What the returns of T leave as a credit.
OwedFor(R, T) == Total([t \in T |-> R[t]])

LEMMA DocsFinite == IsFiniteSet(Doc)
BY PurchaseAssumption, FS_Union DEF Doc

LEMMA MovedQuantity ==
    ASSUME NEW L \in [Doc -> Quantity], NEW D \in SUBSET Doc
    PROVE  MovedBy(L, D) \in Quantity
<1>1. Quantity = Counts(Item)
  BY DEF Quantity, Counts
<1>. QED
  BY <1>1, DocsFinite, ColumnsNat DEF MovedBy

\* A document that had moved nothing moves something, or enters or leaves the group.
LEMMA MovedMore ==
    ASSUME NEW L \in [Doc -> Quantity], NEW d \in Doc, L[d] = Zero,
           NEW M \in [Doc -> Quantity], M = [L EXCEPT ![d] = M[d]],
           NEW D \in SUBSET Doc, NEW E \in SUBSET Doc, E \ {d} = D \ {d}
    PROVE  /\ d \in E => MovedBy(M, E) = Plus(MovedBy(L, D), M[d])
           /\ d \notin E => MovedBy(M, E) = MovedBy(L, D)
<1>1. Quantity = Counts(Item) /\ Zero = [i \in Item |-> 0]
  BY DEF Quantity, Counts, Zero
<1>2. /\ d \in E => Columns(Item, E, M) = [i \in Item |-> Columns(Item, D, L)[i] + M[d][i]]
      /\ d \notin E => Columns(Item, E, M) = Columns(Item, D, L)
  BY <1>1, DocsFinite, ColumnsMore
<1>. QED
  BY <1>2 DEF MovedBy, Plus

\* A return that had no credit is given something, or enters or leaves the group.
LEMMA OwedMore ==
    ASSUME NEW R \in [Return -> Nat], NEW t \in Return, R[t] = 0,
           NEW Q \in [Return -> Nat], Q = [R EXCEPT ![t] = Q[t]],
           NEW T \in SUBSET Return, NEW U \in SUBSET Return, U \ {t} = T \ {t}
    PROVE  /\ OwedFor(R, T) \in Int
           /\ t \in U => OwedFor(Q, U) = OwedFor(R, T) + Q[t]
           /\ t \notin U => OwedFor(Q, U) = OwedFor(R, T)
<1>1. OwedFor(R, T) = Total(Restrict(R, T)) /\ OwedFor(Q, U) = Total(Restrict(Q, U))
  BY DEF OwedFor, Restrict
<1>2. /\ Total(Restrict(R, T)) \in Int
      /\ Total(Restrict(Q, U)) = Total(Restrict(R, T)) + (IF t \in U THEN Q[t] ELSE 0)
                                                       - (IF t \in T THEN R[t] ELSE 0)
  BY PurchaseAssumption, TotalOfGroup
<1>. QED
  BY <1>1, <1>2

(***************************************************************************)
(* Documents and requests.                                                 *)
(***************************************************************************)

\* What the documents are, whatever order they were made in: a return is of a
\* posted receipt.
Documents ==
    /\ orderStatus \in [Order -> {"ABSENT", "DRAFT", "CONFIRMED",
                                  "PARTIALLY_RECEIVED", "RECEIVED", "CANCELLED"}]
    /\ content \in [Order -> ContentRow]
    /\ receipt \in [Receipt -> ReceiptRow]
    /\ ret \in [Return -> ReturnRow]
    /\ \A t \in Return : ret[t].status # "ABSENT" =>
          ret[t].receipt \in Receipt /\ receipt[ret[t].receipt].status = "POSTED"

\* What a request holds of the document it names: a receipt is never edited.
HandlerKept(row) ==
    /\ row \in ProcRow
    /\ row.op \in {"updateOrder", "confirmOrder", "cancelOrder", "createReceipt"} =>
          row.id \in Order
    /\ row.op = "postReceipt" =>
          /\ row.id \in Receipt /\ receipt[row.id].status # "ABSENT"
          /\ row.qty = receipt[row.id].qty /\ row.key \in Key
    /\ row.op = "createReturn" =>
          row.id \in Receipt /\ receipt[row.id].status = "POSTED"
    /\ row.op = "postReturn" =>
          row.id \in Return /\ ret[row.id].status # "ABSENT" /\ row.key \in Key

Handlers == proc \in [Process -> ProcRow] /\ \A p \in Process : HandlerKept(proc[p])

\* Only posted documents have moved stock or money, and a receipt what it lists.
Books ==
    /\ received \in [Order -> Quantity]
    /\ returned \in [Receipt -> Quantity]
    /\ ledger \in [Doc -> Quantity]
    /\ payable \in [Receipt -> PayableRow]
    /\ credit \in [Return -> Nat]
    /\ idem \in [Doc -> SUBSET Key]
    /\ \A r \in Receipt :
          IF receipt[r].status = "POSTED" THEN ledger[r] = receipt[r].qty
          ELSE ledger[r] = Zero /\ payable[r] = NoPayable
    /\ \A t \in Return : ret[t].status # "POSTED" => ledger[t] = Zero /\ credit[t] = 0

Agreed == ReceivedIsPosted /\ ReturnsWithinReceipt /\ ReturnsCredited

PurchaseBooks == Documents /\ Handlers /\ Books /\ Agreed

\* What a client may ask for.
LEMMA AskedFor == \A qty \in Lists : qty \in Quantity
<1>1. \A n \in 0..MaxQuantity : n \in Nat
  BY PurchaseAssumption
<1>. QED
  BY <1>1 DEF Lists, Quantity

\* Every step leaves orders with a status and a content.
LEMMA OrdersTyped ==
    ASSUME PurchaseInv, Documents, Handlers, [Next]_vars
    PROVE  /\ orderStatus' \in [Order -> {"ABSENT", "DRAFT", "CONFIRMED",
                                          "PARTIALLY_RECEIVED", "RECEIVED", "CANCELLED"}]
           /\ content' \in [Order -> ContentRow]
<1>. DEFINE Typed == /\ orderStatus' \in [Order -> {"ABSENT", "DRAFT", "CONFIRMED",
                                                    "PARTIALLY_RECEIVED", "RECEIVED", "CANCELLED"}]
                     /\ content' \in [Order -> ContentRow]
<1>0. /\ orderStatus \in [Order -> {"ABSENT", "DRAFT", "CONFIRMED",
                                    "PARTIALLY_RECEIVED", "RECEIVED", "CANCELLED"}]
      /\ content \in [Order -> ContentRow]
  BY DEF Documents
<1>1. ASSUME NEW o \in Order, NEW s \in Supplier, NEW qty \in Lists, CreateOrder(o, s, qty)
      PROVE  Typed
  <2>1. [ver |-> 0, supplier |-> s, qty |-> qty] \in ContentRow
    BY AskedFor DEF ContentRow
  <2>. QED
    BY <1>0, <1>1, <2>1 DEF CreateOrder
<1>2. ASSUME NEW p \in Process, UpdateOrder(p)
      PROVE  Typed
  <2>. DEFINE o == proc[p].id
              new == [proc[p].content EXCEPT !.ver = content[o].ver + 1]
  <2>1. o \in Order /\ proc[p].content \in ContentRow
    BY <1>2 DEF UpdateOrder, Handlers, HandlerKept, ProcRow
  <2>2. content[o].ver + 1 \in Nat
    BY <1>0, <2>1 DEF ContentRow
  <2>3. new \in ContentRow
    BY <2>1, <2>2 DEF ContentRow
  <2>4. content' = [content EXCEPT ![o] = new] /\ UNCHANGED orderStatus
    BY <1>2 DEF UpdateOrder
  <2>. HIDE DEF o, new
  <2>. QED
    BY <1>0, <2>1, <2>3, <2>4
<1>3. ASSUME NEW p \in Process, ConfirmOrder(p) \/ CancelOrder(p)
      PROVE  Typed
  BY <1>0, <1>3 DEF ConfirmOrder, CancelOrder, SetStatus
<1>4. ASSUME NEW p \in Process, CreateReceipt(p) \/ PostReturn(p)
      PROVE  Typed
  BY <1>0, <1>4 DEF CreateReceipt, PostReturn, orders
<1>5. ASSUME NEW p \in Process, PostReceipt(p)
      PROVE  Typed
  BY <1>0, <1>5 DEF PostReceipt, StatusAfter
<1>6. ASSUME NEW r \in Receipt, NEW amount, PostPayment(r, amount)
      PROVE  Typed
  BY <1>0, <1>6 DEF PostPayment, orders
<1>7. CASE UNCHANGED <<orders, receipt, posted>>
  BY <1>0, <1>7 DEF orders
<1>. QED
  BY <1>1, <1>2, <1>3, <1>4, <1>5, <1>6, <1>7, StepKinds DEF Writes

\* A receipt is never edited, and stays posted.
ReceiptsKeep ==
    /\ receipt' \in [Receipt -> ReceiptRow]
    /\ \A r \in Receipt : receipt[r].status # "ABSENT" =>
          receipt'[r].status # "ABSENT" /\ receipt'[r].qty = receipt[r].qty
    /\ \A r \in Receipt : receipt[r].status = "POSTED" => receipt'[r] = receipt[r]

LEMMA ReceiptsKeepStep ==
    ASSUME PurchaseInv, Documents, Handlers, [Next]_vars
    PROVE  ReceiptsKeep
<1>1. ASSUME NEW p \in Process, CreateReceipt(p)
      PROVE  ReceiptsKeep
  <2>. DEFINE o == proc[p].id
              row == [status |-> "DRAFT", order |-> o, ver |-> content[o].ver, qty |-> proc[p].qty]
  <2>1. /\ o \in Order /\ proc[p].qty \in Quantity
    BY <1>1 DEF CreateReceipt, Handlers, HandlerKept, ProcRow
  <2>2. content[o].ver \in Nat
    BY <2>1 DEF Documents, ContentRow
  <2>3. row \in ReceiptRow
    BY <2>1, <2>2 DEF ReceiptRow, Status
  <2>4. PICK r \in Receipt : receipt[r].status = "ABSENT" /\ receipt' = [receipt EXCEPT ![r] = row]
    BY <1>1 DEF CreateReceipt
  <2>. HIDE DEF row
  <2>. QED
    BY <2>3, <2>4 DEF Documents, ReceiptsKeep
<1>2. ASSUME NEW p \in Process, PostReceipt(p)
      PROVE  ReceiptsKeep
  <2>. DEFINE r == proc[p].id
              row == [receipt[r] EXCEPT !.status = "POSTED"]
  <2>1. /\ r \in Receipt /\ receipt[r].status = "DRAFT"
        /\ receipt' = [receipt EXCEPT ![r] = row]
    BY <1>2 DEF PostReceipt, Handlers, HandlerKept
  <2>2. row \in ReceiptRow /\ row.qty = receipt[r].qty /\ row.status = "POSTED"
    <3>1. receipt[r] \in ReceiptRow
      BY <2>1 DEF Documents
    <3>. QED
      BY <3>1 DEF ReceiptRow, Status
  <2>. HIDE DEF r, row
  <2>. QED
    BY <2>1, <2>2 DEF Documents, ReceiptsKeep
<1>3. CASE UNCHANGED receipt
  BY <1>3 DEF Documents, ReceiptsKeep
<1>4. ASSUME NEW p \in Process, UpdateOrder(p) \/ ConfirmOrder(p) \/ CancelOrder(p) \/ PostReturn(p)
      PROVE  UNCHANGED receipt
  BY <1>4 DEF UpdateOrder, ConfirmOrder, CancelOrder, SetStatus, PostReturn
<1>5. ASSUME NEW o, NEW s, NEW qty, CreateOrder(o, s, qty)
      PROVE  UNCHANGED receipt
  BY <1>5 DEF CreateOrder
<1>6. ASSUME NEW r, NEW amount, PostPayment(r, amount)
      PROVE  UNCHANGED receipt
  BY <1>6 DEF PostPayment
<1>. QED
  BY <1>1, <1>2, <1>3, <1>4, <1>5, <1>6, StepKinds DEF Writes

\* A return keeps the receipt it was created for, and that receipt was posted.
ReturnsTraced ==
    /\ ret' \in [Return -> ReturnRow]
    /\ \A t \in Return : ret'[t].status # "ABSENT" =>
          ret'[t].receipt \in Receipt /\ receipt[ret'[t].receipt].status = "POSTED"
    /\ \A t \in Return : ret[t].status # "ABSENT" =>
          ret'[t].status # "ABSENT" /\ ret'[t].receipt = ret[t].receipt
    /\ \A t \in Return : ret[t].status = "POSTED" => ret'[t].status = "POSTED"

LEMMA ReturnsTracedStep ==
    ASSUME PurchaseInv, Documents, Handlers, [Next]_vars
    PROVE  ReturnsTraced
<1>1. ASSUME NEW p \in Process, CreateReturn(p)
      PROVE  ReturnsTraced
  <2>1. /\ proc[p] \in ProcRow /\ proc[p].id \in Receipt
        /\ receipt[proc[p].id].status = "POSTED"
    BY <1>1 DEF CreateReturn, Handlers, HandlerKept
  <2>. DEFINE row == [status |-> "DRAFT", receipt |-> proc[p].id, qty |-> proc[p].qty]
  <2>2. row \in ReturnRow
    BY <2>1 DEF ProcRow, ReturnRow, Status
  <2>3. PICK t \in Return : ret[t].status = "ABSENT" /\ ret' = [ret EXCEPT ![t] = row]
    BY <1>1 DEF CreateReturn
  <2>. QED
    BY <2>1, <2>2, <2>3 DEF ReturnsTraced, Documents
<1>2. ASSUME NEW p \in Process, PostReturn(p)
      PROVE  ReturnsTraced
  <2>. DEFINE t == proc[p].id
  <2>1. t \in Return /\ ret[t].status # "ABSENT" /\ ret' = [ret EXCEPT ![t].status = "POSTED"]
    BY <1>2 DEF PostReturn, Handlers, HandlerKept
  <2>. HIDE DEF t
  <2>2. \A row \in ReturnRow : /\ [row EXCEPT !.status = "POSTED"] \in ReturnRow
                               /\ [row EXCEPT !.status = "POSTED"].receipt = row.receipt
                               /\ [row EXCEPT !.status = "POSTED"].status = "POSTED"
    BY DEF ReturnRow, Status
  <2>3. ret' = [ret EXCEPT ![t] = [ret[t] EXCEPT !.status = "POSTED"]]
    BY <2>1
  <2>. QED
    BY <2>1, <2>2, <2>3 DEF ReturnsTraced, Documents
<1>3. CASE UNCHANGED ret
  BY <1>3 DEF ReturnsTraced, Documents
<1>. QED
  BY <1>1, <1>2, <1>3, ReturnKinds

\* Every step keeps the documents.
LEMMA DocumentsStep ==
    ASSUME PurchaseInv, Documents, Handlers, [Next]_vars
    PROVE  Documents'
<1>1. \A t \in Return : ret'[t].status # "ABSENT" =>
         ret'[t].receipt \in Receipt /\ receipt'[ret'[t].receipt].status = "POSTED"
  BY ReceiptsKeepStep, ReturnsTracedStep DEF ReceiptsKeep, ReturnsTraced
<1>. QED
  BY <1>1, OrdersTyped, ReceiptsKeepStep, ReturnsTracedStep DEF Documents, ReceiptsKeep, ReturnsTraced

\* A request names the documents it read, with the quantities they have.
LEMMA HandlersStep ==
    ASSUME PurchaseInv, Documents, Handlers, Books, [Next]_vars
    PROVE  Handlers'
<1>. DEFINE Kept(row) ==
              /\ row \in ProcRow
              /\ row.op \in {"updateOrder", "confirmOrder", "cancelOrder", "createReceipt"} =>
                    row.id \in Order
              /\ row.op = "postReceipt" =>
                    /\ row.id \in Receipt /\ receipt'[row.id].status # "ABSENT"
                    /\ row.qty = receipt'[row.id].qty /\ row.key \in Key
              /\ row.op = "createReturn" =>
                    row.id \in Receipt /\ receipt'[row.id].status = "POSTED"
              /\ row.op = "postReturn" =>
                    row.id \in Return /\ ret'[row.id].status # "ABSENT" /\ row.key \in Key
<1>0. /\ \A r \in Receipt : receipt[r].status # "ABSENT" =>
            receipt'[r].status # "ABSENT" /\ receipt'[r].qty = receipt[r].qty
      /\ \A r \in Receipt : receipt[r].status = "POSTED" => receipt'[r].status = "POSTED"
      /\ \A t \in Return : ret[t].status # "ABSENT" => ret'[t].status # "ABSENT"
  BY ReceiptsKeepStep, ReturnsTracedStep DEF ReceiptsKeep, ReturnsTraced
<1>1. \A row : HandlerKept(row) => Kept(row)
  BY <1>0 DEF HandlerKept
<1>2. \A p \in Process : Kept(proc[p])
  BY <1>1 DEF Handlers
<1>3. \A p \in Process : \A row :
         Kept(row) /\ proc' = [proc EXCEPT ![p] = row] => Handlers'
  BY <1>2 DEF Handlers, HandlerKept
<1>4. UNCHANGED proc => Handlers'
  BY <1>2 DEF Handlers, HandlerKept
<1>5. NoContent \in ContentRow /\ IdleProc \in ProcRow
  BY Amounts DEF IdleProc, ProcRow, Op, NoContent, ContentRow
<1>6. Kept(IdleProc)
  BY <1>5 DEF IdleProc
<1>7. \A p \in Process : Ends(p) => Handlers'
  BY <1>3, <1>6 DEF Ends
<1>8. \A p \in Process : \A row : HandlerKept(row) /\ Loads(p, row) => Handlers'
  BY <1>1, <1>3 DEF Loads
<1>. HIDE DEF Kept
<1>9. ASSUME NEW p \in Process, NEW o \in Order, LoadConfirm(p, o) \/ LoadCancel(p, o)
      PROVE  Handlers'
  BY <1>5, <1>8, <1>9 DEF LoadConfirm, LoadCancel, HandlerKept, IdleProc, ProcRow, Op
<1>10. ASSUME NEW p \in Process, NEW o \in Order, NEW s \in Supplier, NEW qty \in Lists,
              LoadUpdateOrder(p, o, s, qty)
       PROVE  Handlers'
  <2>1. [ver |-> 0, supplier |-> s, qty |-> qty] \in ContentRow
    BY AskedFor DEF ContentRow
  <2>. QED
    BY <1>5, <1>8, <1>10, <2>1 DEF LoadUpdateOrder, HandlerKept, IdleProc, ProcRow, Op
<1>11. ASSUME NEW p \in Process, NEW o \in Order, NEW qty \in Lists, LoadCreateReceipt(p, o, qty)
       PROVE  Handlers'
  <2>1. content[o] \in ContentRow /\ qty \in Quantity
    BY AskedFor DEF Documents
  <2>. QED
    BY <1>5, <1>8, <1>11, <2>1 DEF LoadCreateReceipt, HandlerKept, IdleProc, ProcRow, Op
<1>12. ASSUME NEW p \in Process, NEW r \in Receipt, NEW k \in Key, LoadPostReceipt(p, r, k)
       PROVE  Handlers'
  <2>1. /\ receipt[r].status # "ABSENT" /\ receipt[r].qty \in Quantity
        /\ content[receipt[r].order] \in ContentRow
    BY <1>12 DEF LoadPostReceipt, Documents, ReceiptRow, PurchaseInv, Receipts, ReceiptKept
  <2>. QED
    BY <1>5, <1>8, <1>12, <2>1 DEF LoadPostReceipt, HandlerKept, IdleProc, ProcRow, Op, Doc
<1>13. ASSUME NEW p \in Process, NEW r \in Receipt, NEW qty \in Lists, LoadCreateReturn(p, r, qty)
       PROVE  Handlers'
  <2>1. qty \in Quantity
    BY AskedFor
  <2>. QED
    BY <1>5, <1>8, <1>13, <2>1 DEF LoadCreateReturn, HandlerKept, IdleProc, ProcRow, Op, Doc
<1>14. ASSUME NEW p \in Process, NEW t \in Return, NEW k \in Key, LoadPostReturn(p, t, k)
       PROVE  Handlers'
  <2>. DEFINE due == payable[ret[t].receipt].outstanding
              row == [IdleProc EXCEPT !.op = "postReturn", !.id = t, !.key = k,
                                      !.qty = ret[t].qty, !.due = due]
  <2>1. ret[t].status # "ABSENT" /\ ret[t].qty \in Quantity /\ ret[t].receipt \in Receipt
    BY <1>14 DEF LoadPostReturn, Documents, ReturnRow
  <2>2. due \in Nat
    BY <2>1 DEF Books, PayableRow
  <2>3. Loads(p, row)
    BY <1>14 DEF LoadPostReturn
  <2>. HIDE DEF due
  <2>4. HandlerKept(row)
    BY <1>5, <2>1, <2>2 DEF HandlerKept, IdleProc, ProcRow, Op, Doc
  <2>. QED
    BY <1>8, <2>3, <2>4
<1>15. ASSUME NEW p \in Process, Writes(p) \/ ForeignKeyError(p) \/ CreateReturn(p) \/ PostRefused(p)
       PROVE  Handlers'
  BY <1>7, <1>15 DEF Writes, UpdateOrder, ConfirmOrder, CancelOrder, SetStatus, CreateReceipt,
                     PostReceipt, PostReturn, ForeignKeyError, CreateReturn, PostRefused
<1>16. ASSUME NEW o, NEW s, NEW qty, CreateOrder(o, s, qty)
       PROVE  Handlers'
  BY <1>4, <1>16 DEF CreateOrder
<1>17. ASSUME NEW r, NEW amount, PostPayment(r, amount)
       PROVE  Handlers'
  BY <1>4, <1>17 DEF PostPayment
<1>18. UNCHANGED vars => UNCHANGED proc
  BY DEF vars
<1>. QED
  BY <1>4, <1>9, <1>10, <1>11, <1>12, <1>13, <1>14, <1>15, <1>16, <1>17, <1>18
     DEF Next, OrderStep, ReceiptStep, ReturnStep, Writes

(***************************************************************************)
(* The books.                                                              *)
(***************************************************************************)

\* What Agreed says of an order and of a receipt.
OrderAgrees(o) ==
    received[o] = MovedBy(ledger, ReceiptsOf(o)) /\ Fits(received[o], content[o].qty)

ReceiptAgrees(r) ==
    /\ returned[r] = MovedBy(ledger, ReturnsOf(r)) /\ Fits(returned[r], ledger[r])
    /\ payable[r].adjusted + OwedFor(credit, ReturnsOf(r)) = Amount(MovedBy(ledger, ReturnsOf(r)))

LEMMA AgreedIs ==
    Agreed <=> (\A o \in Order : OrderAgrees(o)) /\ (\A r \in Receipt : ReceiptAgrees(r))
BY DEF Agreed, OrderAgrees, ReceiptAgrees, Moved, MovedBy, Columns, OwedFor, ReceivedIsPosted,
       ReturnsWithinReceipt, ReturnsCredited

LEMMA AgreedNext ==
    ASSUME \A o \in Order : OrderAgrees(o)', \A r \in Receipt : ReceiptAgrees(r)'
    PROVE  Agreed'
BY DEF Agreed, OrderAgrees, ReceiptAgrees, Moved, MovedBy, Columns, OwedFor, ReceivedIsPosted,
       ReturnsWithinReceipt, ReturnsCredited

\* Documents that moved nothing.
LEMMA MovedNothing ==
    ASSUME NEW D \in SUBSET Doc, \A d \in D : ledger[d] = Zero
    PROVE  MovedBy(ledger, D) = Zero
<1>1. IsFiniteSet(D) /\ \A d \in D : \A i \in Item : ledger[d][i] = 0
  BY DocsFinite, FS_Subset DEF Zero
<1>. QED
  BY <1>1, ColumnsZero DEF MovedBy, Zero

\* What the returns of a receipt moved does not change with orders and receipts.
LEMMA ReceiptsAgree ==
    ASSUME PurchaseBooks, UNCHANGED <<ret, posted>>
    PROVE  \A r \in Receipt : ReceiptAgrees(r)'
BY AgreedIs DEF PurchaseBooks, ReceiptAgrees, ReturnsOf, posted

\* A new order has no receipts, so nothing was received of it.
LEMMA CreateOrderBooks ==
    ASSUME PurchaseInv, PurchaseBooks, NEW o \in Order, NEW s \in Supplier, NEW qty \in Lists,
           CreateOrder(o, s, qty)
    PROVE  Books' /\ Agreed'
<1>1. /\ orderStatus[o] = "ABSENT" /\ UNCHANGED <<received, receipt, ret, posted>>
      /\ content' = [content EXCEPT ![o] = [ver |-> 0, supplier |-> s, qty |-> qty]]
  BY DEF CreateOrder
<1>2. Books'
  BY <1>1 DEF PurchaseBooks, Books, posted
<1>3. received[o] = Zero
  <2>1. ReceiptsOf(o) \in SUBSET Doc /\ \A r \in ReceiptsOf(o) : ledger[r] = Zero
    BY <1>1 DEF ReceiptsOf, Doc, PurchaseInv, Receipts, ReceiptKept, PurchaseBooks, Books
  <2>2. MovedBy(ledger, ReceiptsOf(o)) = Zero
    BY <2>1, MovedNothing
  <2>. QED
    BY <2>2, AgreedIs DEF PurchaseBooks, OrderAgrees
<1>4. content'[o].qty = qty /\ Fits(Zero, qty) /\ \A x \in Order : x # o => content'[x] = content[x]
  BY <1>1, AskedFor DEF PurchaseBooks, Documents, Fits, Zero, Quantity
<1>5. \A x \in Order : OrderAgrees(x)'
  BY <1>1, <1>3, <1>4, AgreedIs DEF PurchaseBooks, OrderAgrees, ReceiptsOf, posted
<1>. QED
  BY <1>1, <1>2, <1>5, ReceiptsAgree, AgreedNext

\* The items of an order that no receipt names are replaced.
LEMMA UpdateOrderBooks ==
    ASSUME PurchaseInv, PurchaseBooks, NEW p \in Process, UpdateOrder(p)
    PROVE  Books' /\ Agreed'
<1>. DEFINE o == proc[p].id
            new == [proc[p].content EXCEPT !.ver = content[o].ver + 1]
<1>1. /\ ~ Referenced(o) /\ received' = [received EXCEPT ![o] = Zero]
      /\ content' = [content EXCEPT ![o] = new]
      /\ UNCHANGED <<receipt, ret, posted>>
  BY DEF UpdateOrder
<1>2. o \in Order /\ new.qty \in Quantity
  BY DEF UpdateOrder, PurchaseBooks, Handlers, HandlerKept, ProcRow, ContentRow
<1>. HIDE DEF o, new
<1>3. Books'
  BY <1>1, Amounts DEF PurchaseBooks, Books, posted
<1>4. received'[o] = Zero /\ \A x \in Order : x # o => received'[x] = received[x] /\ content'[x] = content[x]
  BY <1>1, <1>2 DEF PurchaseBooks, Books, Documents
<1>5. MovedBy(ledger, ReceiptsOf(o)) = Zero
  BY <1>1, MovedNothing DEF Referenced, ReceiptsOf, Doc
<1>6. content'[o].qty = new.qty /\ Fits(Zero, new.qty)
  BY <1>1, <1>2 DEF PurchaseBooks, Documents, Fits, Zero, Quantity
<1>7. ASSUME NEW x \in Order
      PROVE  OrderAgrees(x)'
  <2>1. ReceiptsOf(x)' = ReceiptsOf(x) /\ ledger' = ledger
    BY <1>1 DEF ReceiptsOf, posted
  <2>2. CASE x = o
    BY <1>4, <1>5, <1>6, <2>1, <2>2 DEF OrderAgrees
  <2>3. CASE x # o
    BY <1>4, <2>1, <2>3, AgreedIs DEF PurchaseBooks, OrderAgrees
  <2>. QED
    BY <2>2, <2>3
<1>. QED
  BY <1>1, <1>3, <1>7, ReceiptsAgree, AgreedNext

\* A receipt that is created has brought nothing in.
LEMMA CreateReceiptBooks ==
    ASSUME PurchaseInv, PurchaseBooks, NEW p \in Process, CreateReceipt(p)
    PROVE  Books' /\ Agreed'
<1>. DEFINE o == proc[p].id
            row == [status |-> "DRAFT", order |-> o, ver |-> content[o].ver, qty |-> proc[p].qty]
<1>1. PICK r \in Receipt : receipt[r].status = "ABSENT" /\ receipt' = [receipt EXCEPT ![r] = row]
  BY DEF CreateReceipt
<1>2. row.status = "DRAFT"
  OBVIOUS
<1>. HIDE DEF row
<1>3. UNCHANGED <<orders, ret, posted>>
  BY DEF CreateReceipt
<1>4. Books'
  BY <1>1, <1>2, <1>3 DEF PurchaseBooks, Books, Documents, posted, orders
<1>5. /\ ledger \in [Doc -> Quantity] /\ ledger = [ledger EXCEPT ![r] = ledger[r]]
      /\ r \in Doc /\ ledger[r] = Zero
  BY <1>1 DEF PurchaseBooks, Books, Doc
<1>6. ASSUME NEW x \in Order
      PROVE  OrderAgrees(x)'
  <2>. DEFINE R == ReceiptsOf(x)
              U == ReceiptsOf(x)'
  <2>1. R \in SUBSET Doc /\ U \in SUBSET Doc /\ U \ {r} = R \ {r}
    BY <1>1 DEF ReceiptsOf, Doc
  <2>2. R = ReceiptsOf(x) /\ U = ReceiptsOf(x)'
    OBVIOUS
  <2>. HIDE DEF R, U
  <2>3. /\ r \in U => MovedBy(ledger, U) = Plus(MovedBy(ledger, R), ledger[r])
        /\ r \notin U => MovedBy(ledger, U) = MovedBy(ledger, R)
    BY <1>5, <2>1, MovedMore
  <2>4. Plus(MovedBy(ledger, R), Zero) = MovedBy(ledger, R)
    <3>1. MovedBy(ledger, R) \in Quantity
      BY <1>5, <2>1, MovedQuantity
    <3>. QED
      BY <3>1 DEF Plus, Zero, Quantity
  <2>5. MovedBy(ledger, U) = MovedBy(ledger, R)
    BY <1>5, <2>3, <2>4
  <2>. QED
    BY <1>3, <2>2, <2>5, AgreedIs DEF PurchaseBooks, OrderAgrees, posted, orders
<1>. QED
  BY <1>3, <1>4, <1>6, ReceiptsAgree, AgreedNext

\* Posting a receipt moves what it lists, within the order.
LEMMA PostReceiptBooks ==
    ASSUME PurchaseInv, PurchaseBooks, NEW p \in Process, PostReceipt(p), ReceiptsKeep, ReceiptsGoOn
    PROVE  Books' /\ Agreed'
<1>. DEFINE r == proc[p].id
            o == receipt[r].order
            qty == proc[p].qty
            due == Amount(qty)
            row == [supplier |-> proc[p].content.supplier, original |-> due, paid |-> 0,
                    adjusted |-> 0, outstanding |-> due]
            now == Plus(received[o], qty)
<1>1. /\ r \in Receipt /\ receipt[r].status = "DRAFT" /\ o \in Order
      /\ qty = receipt[r].qty /\ qty \in Quantity /\ proc[p].key \in Key
      /\ proc[p].content \in ContentRow
  BY DEF PostReceipt, PurchaseBooks, Handlers, HandlerKept, ProcRow, PurchaseInv, Receipts,
         ReceiptKept
<1>2. ledger[r] = Zero /\ payable[r] = NoPayable
  BY <1>1 DEF PurchaseBooks, Books
<1>3. /\ Fits(now, content[o].qty)
      /\ ledger' = [ledger EXCEPT ![r] = qty]
      /\ received' = [received EXCEPT ![o] = now]
      /\ payable' = [payable EXCEPT ![r] = row]
      /\ receipt' = [receipt EXCEPT ![r].status = "POSTED"]
      /\ idem' = [idem EXCEPT ![r] = idem[r] \cup {proc[p].key}]
      /\ UNCHANGED <<content, ret, returned, credit>>
  <2>1. r \in DOMAIN idem
    BY <1>1 DEF PurchaseBooks, Books, Doc
  <2>. QED
    BY <2>1 DEF PostReceipt, Overreceives
<1>4. row \in PayableRow /\ row.adjusted = 0
  <2>1. due \in Nat
    BY <1>1, Amounts
  <2>. HIDE DEF due
  <2>. QED
    BY <1>1, <2>1 DEF PayableRow, ContentRow
<1>5. now \in Quantity
  BY <1>1, Amounts DEF PurchaseBooks, Books
<1>6. r \in Doc /\ r \notin Return
  BY <1>1, PurchaseAssumption DEF Doc
<1>7. /\ receipt'[r].status = "POSTED" /\ receipt'[r].qty = qty
      /\ \A x \in Receipt : x # r => receipt'[x] = receipt[x]
      /\ \A x \in Receipt : receipt'[x].order = receipt[x].order
  BY <1>1, <1>3 DEF ReceiptsKeep, PurchaseBooks, Documents, ReceiptRow
<1>8. now = Plus(received[o], qty)
  OBVIOUS
<1>9. o = receipt[r].order
  OBVIOUS
<1>. HIDE DEF r, o, qty, row, now
<1>10. Books'
  <2>1. received' \in [Order -> Quantity] /\ ledger' \in [Doc -> Quantity]
        /\ payable' \in [Receipt -> PayableRow]
    BY <1>1, <1>3, <1>4, <1>5 DEF PurchaseBooks, Books
  <2>2. idem' \in [Doc -> SUBSET Key]
    BY <1>1, <1>3 DEF PurchaseBooks, Books
  <2>3. \A x \in Receipt :
           IF receipt'[x].status = "POSTED" THEN ledger'[x] = receipt'[x].qty
           ELSE ledger'[x] = Zero /\ payable'[x] = NoPayable
    BY <1>1, <1>3, <1>6, <1>7 DEF PurchaseBooks, Books, Doc
  <2>4. \A t \in Return : ret'[t].status # "POSTED" => ledger'[t] = Zero /\ credit'[t] = 0
    BY <1>3, <1>6 DEF PurchaseBooks, Books, Doc
  <2>. QED
    BY <1>3, <2>1, <2>2, <2>3, <2>4 DEF PurchaseBooks, Books
<1>11. /\ ledger \in [Doc -> Quantity] /\ ledger' \in [Doc -> Quantity]
       /\ ledger' = [ledger EXCEPT ![r] = ledger'[r]] /\ ledger'[r] = qty
  BY <1>3, <1>6, <1>10 DEF PurchaseBooks, Books
<1>12. ASSUME NEW x \in Order
       PROVE  OrderAgrees(x)'
  <2>. DEFINE R == ReceiptsOf(x)
  <2>1. R \in SUBSET Doc /\ ReceiptsOf(x)' = R /\ (r \in R <=> x = o)
    BY <1>1, <1>7, <1>9 DEF ReceiptsOf, Doc
  <2>2. R = ReceiptsOf(x)
    OBVIOUS
  <2>. HIDE DEF R
  <2>3. /\ r \in R => MovedBy(ledger', R) = Plus(MovedBy(ledger, R), ledger'[r])
        /\ r \notin R => MovedBy(ledger', R) = MovedBy(ledger, R)
    BY <1>2, <1>6, <1>11, <2>1, MovedMore
  <2>4. received[x] = MovedBy(ledger, R) /\ Fits(received[x], content[x].qty)
    BY <2>2, AgreedIs DEF PurchaseBooks, OrderAgrees
  <2>5. received'[x] = IF x = o THEN Plus(received[x], qty) ELSE received[x]
    BY <1>1, <1>3, <1>8 DEF PurchaseBooks, Books
  <2>6. Fits(received'[x], content'[x].qty)
    BY <1>3, <1>8, <2>4, <2>5
  <2>7. received'[x] = MovedBy(ledger', R)
    BY <1>11, <2>1, <2>3, <2>4, <2>5
  <2>. QED
    BY <2>1, <2>6, <2>7 DEF OrderAgrees
<1>13. ASSUME NEW x \in Receipt
       PROVE  ReceiptAgrees(x)'
  <2>. DEFINE R == ReturnsOf(x)
  <2>1. R \in SUBSET Doc /\ ReturnsOf(x)' = R /\ r \notin R
    BY <1>3, <1>6 DEF ReturnsOf, Doc
  <2>2. R = ReturnsOf(x)
    OBVIOUS
  <2>. HIDE DEF R
  <2>3. MovedBy(ledger', R) = MovedBy(ledger, R)
    BY <1>2, <1>6, <1>11, <2>1, MovedMore
  <2>4. ReceiptAgrees(x)
    BY AgreedIs DEF PurchaseBooks
  <2>5. Fits(returned[x], ledger'[x])
    <3>1. CASE x = r
      <4>1. Fits(returned[x], Zero) /\ returned[x] \in Quantity
        BY <1>2, <2>4, <3>1 DEF ReceiptAgrees, PurchaseBooks, Books
      <4>2. \A i \in Item : returned[x][i] = 0 /\ qty[i] \in Nat
        BY <1>1, <4>1 DEF Fits, Zero, Quantity
      <4>. QED
        BY <1>11, <3>1, <4>2 DEF Fits
    <3>2. CASE x # r
      BY <1>3, <2>4, <3>2 DEF ReceiptAgrees, PurchaseBooks, Books, Doc
    <3>. QED
      BY <3>1, <3>2
  <2>6. payable'[x].adjusted = payable[x].adjusted
    BY <1>1, <1>2, <1>3, <1>4 DEF PurchaseBooks, Books, NoPayable
  <2>. QED
    BY <1>3, <2>1, <2>2, <2>3, <2>4, <2>5, <2>6 DEF ReceiptAgrees
<1>. QED
  BY <1>10, <1>12, <1>13, AgreedNext

\* Posting a return takes off, and may credit, what the request read.
LEMMA PostReturnBooks ==
    ASSUME PurchaseInv, PurchaseBooks, NEW p \in Process, PostReturn(p)
    PROVE  Books' /\ Agreed'
<1>. DEFINE t == proc[p].id
            r == ret[t].receipt
            qty == proc[p].qty
            due == proc[p].due
            amount == Amount(qty)
            taken == Smaller(due, amount)
            row == Settled(payable[r], due, amount)
            now == Plus(returned[r], qty)
<1>1. /\ t \in Return /\ ret[t].status = "DRAFT" /\ qty \in Quantity /\ due \in Nat
      /\ r \in Receipt /\ receipt[r].status = "POSTED" /\ proc[p].key \in Key
  BY DEF PurchaseBooks, Documents, Handlers, HandlerKept, ProcRow, PostReturn
<1>2. ledger[t] = Zero /\ credit[t] = 0 /\ ledger[r] = receipt[r].qty
  BY <1>1 DEF PurchaseBooks, Books
<1>3. /\ Fits(now, receipt[r].qty)
      /\ returned' = [returned EXCEPT ![r] = now]
      /\ ledger' = [ledger EXCEPT ![t] = qty]
      /\ payable' = [payable EXCEPT ![r] = row]
      /\ credit' = [credit EXCEPT ![t] = amount - taken]
      /\ ret' = [ret EXCEPT ![t].status = "POSTED"]
      /\ idem' = [idem EXCEPT ![t] = idem[t] \cup {proc[p].key}]
      /\ UNCHANGED <<orders, receipt>>
  <2>1. r \in DOMAIN returned /\ r \in DOMAIN payable /\ t \in DOMAIN idem
    BY <1>1 DEF PurchaseBooks, Books, Doc
  <2>. QED
    BY <2>1 DEF PostReturn, Overreturns
<1>4. t \in Doc /\ t \notin Receipt
  BY <1>1, PurchaseAssumption DEF Doc
<1>5. amount \in Nat /\ taken \in Nat /\ due - taken \in Nat /\ amount - taken \in Nat
  <2>1. amount \in Nat
    BY <1>1, Amounts
  <2>. HIDE DEF amount
  <2>. QED
    BY <1>1, <2>1 DEF Smaller
<1>6. row \in PayableRow /\ row.adjusted = payable[r].adjusted + taken
  <2>. DEFINE old == payable[r]
              new == [old EXCEPT !.adjusted = old.adjusted + taken, !.outstanding = due - taken]
              rest == due - taken
              more == old.adjusted + taken
  <2>1. old \in PayableRow
    BY <1>1 DEF PurchaseBooks, Books
  <2>2. row = IF taken > 0 THEN new ELSE old
    BY <2>1 DEF Settled, PayableRow
  <2>3. rest \in Nat /\ more \in Nat /\ new = [old EXCEPT !.adjusted = more, !.outstanding = rest]
    BY <1>5, <2>1 DEF PayableRow
  <2>. HIDE DEF old, rest, row, new, more
  <2>4. new \in PayableRow /\ new.adjusted = more
    BY <2>1, <2>3 DEF PayableRow
  <2>5. taken > 0 \/ taken = 0
    BY <1>5
  <2>6. old.adjusted \in Nat
    BY <2>1 DEF PayableRow
  <2>. QED
    BY <2>1, <2>2, <2>4, <2>5, <2>6 DEF old, more
<1>7. now \in Quantity
  BY <1>1, Amounts DEF PurchaseBooks, Books
<1>8. /\ ret'[t].status = "POSTED"
      /\ \A u \in Return : /\ u # t => ret'[u] = ret[u]
                           /\ ret'[u].receipt = ret[u].receipt
  BY <1>1, <1>3 DEF PurchaseBooks, Documents, ReturnRow
<1>9. r = ret[t].receipt /\ now = Plus(returned[r], qty) /\ amount = Amount(qty)
  OBVIOUS
<1>. HIDE DEF t, r, qty, due, amount, taken, row, now
<1>10. Books'
  <2>1. /\ returned' \in [Receipt -> Quantity] /\ ledger' \in [Doc -> Quantity]
        /\ payable' \in [Receipt -> PayableRow] /\ credit' \in [Return -> Nat]
    BY <1>1, <1>3, <1>5, <1>6, <1>7 DEF PurchaseBooks, Books
  <2>2. idem' \in [Doc -> SUBSET Key]
    BY <1>1, <1>3 DEF PurchaseBooks, Books
  <2>3. \A x \in Receipt :
           IF receipt'[x].status = "POSTED" THEN ledger'[x] = receipt'[x].qty
           ELSE ledger'[x] = Zero /\ payable'[x] = NoPayable
    BY <1>1, <1>3, <1>4 DEF PurchaseBooks, Books, Doc
  <2>4. \A u \in Return : ret'[u].status # "POSTED" => ledger'[u] = Zero /\ credit'[u] = 0
    BY <1>1, <1>3, <1>4, <1>8 DEF PurchaseBooks, Books, Doc
  <2>. QED
    BY <1>3, <2>1, <2>2, <2>3, <2>4 DEF PurchaseBooks, Books, orders
<1>11. /\ ledger \in [Doc -> Quantity] /\ ledger' \in [Doc -> Quantity]
       /\ ledger' = [ledger EXCEPT ![t] = ledger'[t]] /\ ledger'[t] = qty
       /\ credit \in [Return -> Nat] /\ credit' \in [Return -> Nat]
       /\ credit' = [credit EXCEPT ![t] = credit'[t]] /\ credit'[t] = amount - taken
  BY <1>1, <1>3, <1>4, <1>10 DEF PurchaseBooks, Books
<1>12. ASSUME NEW x \in Order
       PROVE  OrderAgrees(x)'
  <2>. DEFINE R == ReceiptsOf(x)
  <2>1. R \in SUBSET Doc /\ ReceiptsOf(x)' = R /\ t \notin R
    BY <1>3, <1>4 DEF ReceiptsOf, Doc
  <2>2. R = ReceiptsOf(x)
    OBVIOUS
  <2>. HIDE DEF R
  <2>3. MovedBy(ledger', R) = MovedBy(ledger, R)
    BY <1>2, <1>4, <1>11, <2>1, MovedMore
  <2>. QED
    BY <1>3, <2>1, <2>2, <2>3, AgreedIs DEF PurchaseBooks, OrderAgrees, orders
<1>13. ASSUME NEW x \in Receipt
       PROVE  ReceiptAgrees(x)'
  <2>. DEFINE R == ReturnsOf(x)
  <2>1. R \in SUBSET Return /\ R \in SUBSET Doc /\ ReturnsOf(x)' = R /\ (t \in R <=> x = r)
    BY <1>1, <1>8, <1>9 DEF ReturnsOf, Doc
  <2>2. R = ReturnsOf(x)
    OBVIOUS
  <2>. HIDE DEF R
  <2>3. /\ t \in R => MovedBy(ledger', R) = Plus(MovedBy(ledger, R), ledger'[t])
        /\ t \notin R => MovedBy(ledger', R) = MovedBy(ledger, R)
    BY <1>2, <1>4, <1>11, <2>1, MovedMore
  <2>4. /\ OwedFor(credit, R) \in Int
        /\ t \in R => OwedFor(credit', R) = OwedFor(credit, R) + credit'[t]
        /\ t \notin R => OwedFor(credit', R) = OwedFor(credit, R)
    BY <1>1, <1>2, <1>11, <2>1, OwedMore
  <2>5. /\ returned[x] = MovedBy(ledger, R) /\ Fits(returned[x], ledger[x])
        /\ payable[x].adjusted + OwedFor(credit, R) = Amount(MovedBy(ledger, R))
    BY <2>2, AgreedIs DEF PurchaseBooks, ReceiptAgrees
  <2>6. ledger'[x] = ledger[x] /\ payable[x].adjusted \in Nat
    BY <1>3, <1>4 DEF PurchaseBooks, Books, PayableRow, Doc
  <2>7. CASE x = r
    <3>1. returned'[x] = now /\ payable'[x].adjusted = payable[x].adjusted + taken
      BY <1>1, <1>3, <1>6, <2>7 DEF PurchaseBooks, Books
    <3>2. MovedBy(ledger', R) = Plus(MovedBy(ledger, R), qty)
      BY <1>11, <2>1, <2>3, <2>7
    <3>3. Amount(Plus(MovedBy(ledger, R), qty)) = Amount(MovedBy(ledger, R)) + amount
      BY <1>1, <1>9, <1>11, <2>1, MovedQuantity, Amounts
    <3>4. OwedFor(credit', R) = OwedFor(credit, R) + (amount - taken)
      BY <1>11, <2>1, <2>4, <2>7
    <3>5. payable'[x].adjusted + OwedFor(credit', R) = Amount(MovedBy(ledger', R))
      BY <1>5, <2>4, <2>5, <2>6, <3>1, <3>2, <3>3, <3>4
    <3>6. returned'[x] = MovedBy(ledger', R)
      BY <1>9, <2>5, <2>7, <3>1, <3>2
    <3>7. Fits(returned'[x], ledger'[x])
      BY <1>2, <1>3, <2>6, <2>7, <3>1
    <3>. QED
      BY <2>1, <3>5, <3>6, <3>7 DEF ReceiptAgrees
  <2>8. CASE x # r
    <3>1. returned'[x] = returned[x] /\ payable'[x] = payable[x]
      BY <1>3, <2>8 DEF PurchaseBooks, Books
    <3>2. MovedBy(ledger', R) = MovedBy(ledger, R) /\ OwedFor(credit', R) = OwedFor(credit, R)
      BY <2>1, <2>3, <2>4, <2>8
    <3>. QED
      BY <2>1, <2>5, <2>6, <3>1, <3>2 DEF ReceiptAgrees
  <2>. QED
    BY <2>7, <2>8
<1>. QED
  BY <1>10, <1>12, <1>13, AgreedNext

\* A payment takes off what is outstanding.
LEMMA PostPaymentBooks ==
    ASSUME PurchaseInv, PurchaseBooks, NEW r \in Receipt, NEW amount \in 1..payable[r].outstanding,
           PostPayment(r, amount)
    PROVE  Books' /\ Agreed'
<1>. DEFINE old == payable[r]
            more == old.paid + amount
            rest == old.outstanding - amount
            row == [old EXCEPT !.paid = more, !.outstanding = rest]
<1>1. old \in PayableRow
  BY DEF PurchaseBooks, Books
<1>2. /\ old.outstanding \in Nat /\ old.paid \in Nat /\ amount \in Nat
      /\ amount >= 1 /\ amount <= old.outstanding
  BY <1>1 DEF PayableRow
<1>3. /\ payable' = [payable EXCEPT ![r] = row]
      /\ UNCHANGED <<orders, receipt, ret, returned, ledger, credit, idem>>
  BY DEF PostPayment, PurchaseBooks, Books
<1>4. old = payable[r]
  OBVIOUS
<1>. HIDE DEF old
<1>5. row \in PayableRow /\ row.adjusted = old.adjusted
  <2>1. more \in Nat /\ rest \in Nat
    BY <1>2
  <2>. HIDE DEF more, rest
  <2>. QED
    BY <1>1, <2>1 DEF PayableRow
<1>. HIDE DEF row
<1>6. receipt[r].status = "POSTED"
  <2>1. NoPayable.outstanding = 0
    BY DEF NoPayable
  <2>2. old # NoPayable
    BY <1>2, <2>1
  <2>. QED
    BY <1>4, <2>2 DEF PurchaseBooks, Books
<1>7. \A x \in Receipt : /\ payable'[x].adjusted = payable[x].adjusted
                         /\ x # r => payable'[x] = payable[x]
  BY <1>3, <1>4, <1>5 DEF PurchaseBooks, Books
<1>8. payable' \in [Receipt -> PayableRow]
  BY <1>3, <1>5 DEF PurchaseBooks, Books
<1>9. Books'
  BY <1>3, <1>6, <1>7, <1>8 DEF PurchaseBooks, Books, orders
<1>10. \A o \in Order : OrderAgrees(o)'
  BY <1>3, AgreedIs DEF PurchaseBooks, OrderAgrees, ReceiptsOf, orders
<1>11. \A x \in Receipt : ReceiptAgrees(x)'
  BY <1>3, <1>7, AgreedIs DEF PurchaseBooks, ReceiptAgrees, ReturnsOf
<1>. QED
  BY <1>9, <1>10, <1>11, AgreedNext

\* A return that is created has sent nothing back.
LEMMA CreateReturnBooks ==
    ASSUME PurchaseInv, PurchaseBooks, NEW p \in Process, CreateReturn(p)
    PROVE  Books' /\ Agreed'
<1>1. PICK t \in Return :
         /\ ret[t].status = "ABSENT"
         /\ ret' = [ret EXCEPT ![t] = [status |-> "DRAFT", receipt |-> proc[p].id,
                                       qty |-> proc[p].qty]]
  BY DEF CreateReturn
<1>2. UNCHANGED <<orders, receipt, posted>>
  BY DEF CreateReturn
<1>3. /\ ledger \in [Doc -> Quantity] /\ credit \in [Return -> Nat]
      /\ ledger = [ledger EXCEPT ![t] = ledger[t]] /\ credit = [credit EXCEPT ![t] = credit[t]]
      /\ t \in Doc /\ ledger[t] = Zero /\ credit[t] = 0
  BY <1>1 DEF PurchaseBooks, Books, Doc
<1>4. Books'
  BY <1>1, <1>2 DEF PurchaseBooks, Books, Documents, posted, orders
<1>5. \A o \in Order : OrderAgrees(o)'
  BY <1>2, AgreedIs DEF PurchaseBooks, OrderAgrees, ReceiptsOf, orders, posted
<1>6. ASSUME NEW x \in Receipt
      PROVE  ReceiptAgrees(x)'
  <2>. DEFINE R == ReturnsOf(x)
              U == ReturnsOf(x)'
  <2>1. /\ R \in SUBSET Return /\ U \in SUBSET Return /\ U \ {t} = R \ {t}
        /\ R \in SUBSET Doc /\ U \in SUBSET Doc
    BY <1>1 DEF ReturnsOf, Doc
  <2>2. R = ReturnsOf(x) /\ U = ReturnsOf(x)'
    OBVIOUS
  <2>. HIDE DEF R, U
  <2>3. /\ t \in U => MovedBy(ledger, U) = Plus(MovedBy(ledger, R), ledger[t])
        /\ t \notin U => MovedBy(ledger, U) = MovedBy(ledger, R)
    BY <1>3, <2>1, MovedMore
  <2>4. /\ OwedFor(credit, R) \in Int
        /\ t \in U => OwedFor(credit, U) = OwedFor(credit, R) + credit[t]
        /\ t \notin U => OwedFor(credit, U) = OwedFor(credit, R)
    BY <1>3, <2>1, OwedMore
  <2>5. Plus(MovedBy(ledger, R), Zero) = MovedBy(ledger, R)
    <3>1. MovedBy(ledger, R) \in Quantity
      BY <1>3, <2>1, MovedQuantity
    <3>. QED
      BY <3>1 DEF Plus, Zero, Quantity
  <2>6. MovedBy(ledger, U) = MovedBy(ledger, R) /\ OwedFor(credit, U) = OwedFor(credit, R)
    BY <1>3, <2>3, <2>4, <2>5
  <2>. QED
    BY <1>2, <2>2, <2>6, AgreedIs DEF PurchaseBooks, ReceiptAgrees, posted
<1>. QED
  BY <1>4, <1>5, <1>6, AgreedNext

\* Every step keeps the books.
LEMMA BooksStep ==
    ASSUME PurchaseInv, PurchaseBooks, [Next]_vars
    PROVE  Books' /\ Agreed'
<1>0. ReceiptsKeep /\ ReceiptsGoOn
  BY ReceiptsKeepStep, ReceiptsStep DEF PurchaseBooks
<1>1. ASSUME UNCHANGED <<orders, receipt, posted>>, UNCHANGED ret
      PROVE  Books' /\ Agreed'
  <2>1. Books'
    BY <1>1 DEF PurchaseBooks, Books, orders, posted
  <2>2. \A o \in Order : OrderAgrees(o)'
    BY <1>1, AgreedIs DEF PurchaseBooks, OrderAgrees, ReceiptsOf, orders, posted
  <2>. QED
    BY <1>1, <2>1, <2>2, ReceiptsAgree, AgreedNext
<1>2. ASSUME UNCHANGED <<orders, receipt, posted>>
      PROVE  Books' /\ Agreed'
  BY <1>1, <1>2, CreateReturnBooks, PostReturnBooks, ReturnKinds
<1>3. ASSUME NEW p \in Process, ConfirmOrder(p) \/ CancelOrder(p)
      PROVE  Books' /\ Agreed'
  <2>1. UNCHANGED <<content, received, receipt, ret, posted>>
    BY <1>3 DEF ConfirmOrder, CancelOrder, SetStatus
  <2>2. Books'
    BY <2>1 DEF PurchaseBooks, Books, posted
  <2>3. \A o \in Order : OrderAgrees(o)'
    BY <2>1, AgreedIs DEF PurchaseBooks, OrderAgrees, ReceiptsOf, posted
  <2>. QED
    BY <2>1, <2>2, <2>3, ReceiptsAgree, AgreedNext
<1>. QED
  BY <1>0, <1>2, <1>3, StepKinds, CreateOrderBooks, UpdateOrderBooks, CreateReceiptBooks,
     PostReceiptBooks, PostReturnBooks, PostPaymentBooks DEF Writes

\* At the start nothing was moved.
LEMMA BooksInit == Init => PurchaseBooks
<1>. SUFFICES ASSUME Init
              PROVE  PurchaseBooks
  OBVIOUS
<1>1. NoContent \in ContentRow /\ NoReceipt \in ReceiptRow /\ NoReturn \in ReturnRow
      /\ NoPayable \in PayableRow
  BY Amounts DEF NoContent, NoReceipt, NoReturn, NoPayable, ContentRow, ReceiptRow, ReturnRow,
                 PayableRow, Status
<1>2. IdleProc \in ProcRow
  BY <1>1, Amounts DEF IdleProc, ProcRow, Op
<1>3. Documents
  BY <1>1 DEF Init, Documents, NoReturn
<1>4. Handlers
  BY <1>2 DEF Init, Handlers, HandlerKept, IdleProc
<1>5. Books
  <2>1. /\ received \in [Order -> Quantity] /\ returned \in [Receipt -> Quantity]
        /\ ledger \in [Doc -> Quantity]
    BY Amounts DEF Init
  <2>2. payable \in [Receipt -> PayableRow] /\ credit \in [Return -> Nat]
    BY <1>1 DEF Init
  <2>3. idem \in [Doc -> SUBSET Key]
    BY DEF Init
  <2>4. /\ \A r \in Receipt : /\ receipt[r].status = "ABSENT"
                              /\ ledger[r] = Zero /\ payable[r] = NoPayable
        /\ \A t \in Return : ledger[t] = Zero /\ credit[t] = 0
    BY DEF Init, NoReceipt, Doc
  <2>. QED
    BY <2>1, <2>2, <2>3, <2>4 DEF Books
<1>6. \A d \in Doc : ledger[d] = Zero
  BY DEF Init
<1>7. Fits(Zero, Zero)
  BY DEF Fits, Zero
<1>8. ASSUME NEW o \in Order
      PROVE  OrderAgrees(o)
  <2>1. MovedBy(ledger, ReceiptsOf(o)) = Zero
    BY <1>6, MovedNothing DEF ReceiptsOf, Doc
  <2>. QED
    BY <1>7, <2>1 DEF OrderAgrees, Init, NoContent
<1>9. ASSUME NEW r \in Receipt
      PROVE  ReceiptAgrees(r)
  <2>1. MovedBy(ledger, ReturnsOf(r)) = Zero
    BY <1>6, MovedNothing DEF ReturnsOf, Doc
  <2>2. OwedFor(credit, ReturnsOf(r)) = 0
    <3>. DEFINE T == ReturnsOf(r)
                f == [t \in T |-> credit[t]]
    <3>1. IsFiniteSet(T) /\ f \in [T -> Int] /\ \A t \in T : f[t] = 0
      BY PurchaseAssumption, FS_Subset DEF Init, ReturnsOf
    <3>. HIDE DEF f, T
    <3>2. Total(f) = 0
      BY <3>1, TotalZero
    <3>. QED
      BY <3>2 DEF OwedFor, f, T
  <2>. QED
    BY <1>6, <1>7, <2>1, <2>2, Amounts DEF ReceiptAgrees, Init, NoPayable, Doc
<1>. QED
  BY <1>3, <1>4, <1>5, <1>8, <1>9, AgreedIs DEF PurchaseBooks

\* The invariant of purchases with its books.
THEOREM PurchaseBooksInvariant == Spec => [](PurchaseInv /\ PurchaseBooks)
<1>1. Init => PurchaseInv /\ PurchaseBooks
  BY PurchaseInit, BooksInit
<1>2. PurchaseInv /\ PurchaseBooks /\ [Next]_vars => PurchaseInv' /\ PurchaseBooks'
  <2>1. ASSUME PurchaseInv, PurchaseBooks, [Next]_vars
        PROVE  PurchaseInv' /\ PurchaseBooks'
    BY <2>1, PurchaseStep, DocumentsStep, HandlersStep, BooksStep DEF PurchaseBooks
  <2>. QED
    BY <2>1
<1>. QED
  BY <1>1, <1>2, PTL DEF Spec

\* Orders count what their receipts brought in, never more than they say, no
\* receipt is sent back more than it brought, and what is sent back is taken off
\* the payable or credited, never both, out of well-formed rows, whatever the
\* requests read before others wrote (finalize of postReceipt and postReturn,
\* updateOrder, postPayment).
THEOREM PurchasesAgree == Spec => []ReceiptsAndReturnsAgree
<1>1. ASSUME PurchaseInv, PurchaseBooks
      PROVE  ReceiptsAndReturnsAgree
  <2>1. TypeOK
    BY <1>1 DEF PurchaseBooks, Documents, Handlers, Books, TypeOK
  <2>. QED
    BY <1>1, <2>1 DEF PurchaseBooks, Agreed, ReceiptsAndReturnsAgree
<1>. QED
  BY <1>1, PurchaseBooksInvariant, PTL

=============================================================================
