----------------------------- MODULE SalesOrder -----------------------------
(***************************************************************************)
(* SalesService: orders, issues, returns and the receivables they create.  *)
(*                                                                         *)
(* A handler first reads what it needs (Load...), outside any transaction, *)
(* checks it, and then writes.  Documents are edited with plain updates;   *)
(* issues and returns are posted through the kernel (InventoryPosting), a  *)
(* serializable transaction that appears here as one step and whose        *)
(* finalize callback works with what the handler read before.  Between the *)
(* two steps of a handler any other handler may run.                       *)
(*                                                                         *)
(* Every sku is issued from one location, and a price is the snapshot kept *)
(* on the order item.  The checks of master data (active channels,         *)
(* customers, locations) have no variables here.                           *)
(***************************************************************************)
EXTENDS Quantities

CONSTANTS
    Order,
    OrderOf,    \* OrderOf[i]: the order of item i; an item is one sku of it
    Ordered,    \* Ordered[i]: quantity of item i
    Located,    \* orders of channels with a default location
    Virtual,    \* orders of VIRTUAL_ALLOCATION channels
    Quota,      \* Quota[i]: quantity allocated to the channel for the sku of i
    Stock,      \* Stock[i]: available stock of the sku of i at the start
    Issue,      \* bound: the issues and
    Return,     \* the returns there can be
    Key,        \* Idempotency-Key values
    Process,    \* requests that may be in progress at the same time
    None

ASSUME SalesAssumption ==
    /\ OrderOf \in [Item -> Order]
    /\ Ordered \in [Item -> Nat \ {0}]
    /\ Located \subseteq Order
    /\ Virtual \subseteq Order
    /\ Quota \in [Item -> Nat]
    /\ Stock \in [Item -> Nat]
    /\ IsFiniteSet(Issue) /\ IsFiniteSet(Return) /\ Issue \cap Return = {}
    /\ None \notin Process \cup Issue \cup Return \cup Order \cup Key

Doc == Issue \cup Return

VARIABLES
    orderStatus, \* SalesOrder.status
    issued,      \* SalesOrderItem.issuedQuantity
    issue,       \* SalesIssue with its items
    ret,         \* SalesReturn with its items
    returned,    \* SalesIssueItem.returnedQuantity
    stock,       \* available stock
    quota,       \* what the channel may still issue
    ledger,      \* what the posted document moved (inventory transaction lines)
    receivable,  \* the Receivable of an issue
    refund,      \* the CustomerRefund of a return
    idem,        \* IdempotencyRecord: the content posted under a key
    proc         \* what a request has read and is about to write

vars == <<orderStatus, issued, issue, ret, returned, stock, quota, ledger,
          receivable, refund, idem, proc>>

documents == <<issue, ret>>
posted == <<issued, returned, stock, quota, ledger, receivable, refund, idem>>

\* An issue lists some items of its order; an update may leave a listed item
\* with quantity 0.  located: it has a location.
NoIssue == [status |-> "ABSENT", order |-> None, items |-> {}, qty |-> Zero,
            revenue |-> 0, located |-> FALSE]

NoReturn == [status |-> "ABSENT", issue |-> None, qty |-> Zero]

NoReceivable == [original |-> 0, received |-> 0, adjusted |-> 0,
                 outstanding |-> 0]

\* due: the outstanding amount of the receivable as it was read.
IdleProc == [op |-> "idle", id |-> None, qty |-> Zero, key |-> None,
             revenue |-> 0, due |-> 0]

Init ==
    /\ orderStatus = [o \in Order |-> "ABSENT"]
    /\ issued = Zero
    /\ issue = [s \in Issue |-> NoIssue]
    /\ ret = [t \in Return |-> NoReturn]
    /\ returned = [s \in Issue |-> Zero]
    /\ stock = Stock
    /\ quota = Quota
    /\ ledger = [d \in Doc |-> Zero]
    /\ receivable = [s \in Issue |-> NoReceivable]
    /\ refund = [t \in Return |-> 0]
    /\ idem = [d \in Doc |-> [k \in Key |-> None]]
    /\ proc = [p \in Process |-> IdleProc]

ItemsOf(o) == {i \in Item : OrderOf[i] = o}

Open(o) == orderStatus[o] \in {"CONFIRMED", "PARTIALLY_ISSUED"}

Remaining == Minus(Ordered, issued)

AbsentIssues == {s \in Issue : issue[s].status = "ABSENT"}

Draft(o, qty, loc) ==
    [status |-> "DRAFT", order |-> o, items |-> {i \in Item : qty[i] > 0},
     qty |-> qty, revenue |-> Amount(qty), located |-> loc]

\* The issues after one draft is created for each item of I, with quantity
\* qty[i]; the database picks the identities.
CreateDrafts(rows, o, I, qty, loc) ==
    \E f \in [I -> AbsentIssues] :
        /\ \A i, j \in I : f[i] = f[j] => i = j
        /\ issue' = [s \in Issue |->
                        IF \E i \in I : f[i] = s
                        THEN LET i == CHOOSE j \in I : f[j] = s
                             IN Draft(o, OnlyItem(i, qty[i]), loc)
                        ELSE rows[s]]

Loads(p, op, id, qty) ==
    /\ proc[p].op = "idle"
    /\ proc' = [proc EXCEPT ![p] = [IdleProc EXCEPT !.op = op, !.id = id,
                                                    !.qty = qty]]

Ends(p) == proc' = [proc EXCEPT ![p] = IdleProc]

(***************************************************************************)
(* Orders.                                                                 *)
(***************************************************************************)

\* createOrder: one transaction creates the order and a draft issue per item.
CreateOrder(o) ==
    /\ orderStatus[o] = "ABSENT"
    /\ orderStatus' = [orderStatus EXCEPT ![o] = "DRAFT"]
    /\ CreateDrafts(issue, o, ItemsOf(o), Ordered, o \in Located)
    /\ UNCHANGED <<ret, posted, proc>>

LoadConfirm(p, o) ==
    /\ orderStatus[o] = "DRAFT"
    /\ Loads(p, "confirmOrder", o, Zero)
    /\ UNCHANGED <<orderStatus, documents, posted>>

ConfirmOrder(p) ==
    /\ proc[p].op = "confirmOrder"
    /\ orderStatus' = [orderStatus EXCEPT ![proc[p].id] = "CONFIRMED"]
    /\ Ends(p)
    /\ UNCHANGED <<documents, posted>>

LoadCancel(p, o) ==
    /\ orderStatus[o] \in {"DRAFT", "CONFIRMED"}
    /\ \A i \in ItemsOf(o) : issued[i] = 0
    /\ Loads(p, "cancelOrder", o, Zero)
    /\ UNCHANGED <<orderStatus, documents, posted>>

CancelOrder(p) ==
    LET o == proc[p].id IN
    /\ proc[p].op = "cancelOrder"
    /\ orderStatus' = [orderStatus EXCEPT ![o] = "CANCELLED"]
    /\ issue' = [s \in Issue |->
                    IF issue[s].order = o /\ issue[s].status = "DRAFT"
                    THEN [issue[s] EXCEPT !.status = "CANCELLED"]
                    ELSE issue[s]]
    /\ Ends(p)
    /\ UNCHANGED <<ret, posted>>

(***************************************************************************)
(* Issues.                                                                 *)
(***************************************************************************)

\* Mutant: what was consumed of the quota is forgotten.
QuotaAllowsAtFirst(o, qty) == o \in Virtual => Fits(qty, Quota)

\* assertVirtualAllocation, and what consumeVirtualAllocation throws on.
QuotaAllows(o, qty) == o \in Virtual => Fits(qty, quota)

LoadCreateIssue(p, o, qty) ==
    /\ Open(o)
    /\ Fits(qty, Remaining)
    /\ QuotaAllows(o, qty)
    /\ Loads(p, "createIssue", o, qty)
    /\ UNCHANGED <<orderStatus, documents, posted>>

CreateIssue(p) ==
    /\ proc[p].op = "createIssue"
    /\ \E s \in AbsentIssues :
         issue' = [issue EXCEPT ![s] = Draft(proc[p].id, proc[p].qty, TRUE)]
    /\ Ends(p)
    /\ UNCHANGED <<orderStatus, ret, posted>>

\* updateIssue: a draft with one item gets a location and another quantity.
\* The quantity given is positive; what remains, possibly 0, is the default.
LoadUpdateIssue(p, s, i, n) ==
    /\ issue[s].status = "DRAFT"
    /\ Open(issue[s].order)
    /\ issue[s].items = {i}
    /\ n \in (1..Remaining[i]) \cup {Remaining[i]}
    /\ Loads(p, "updateIssue", s, OnlyItem(i, n))
    /\ UNCHANGED <<orderStatus, documents, posted>>

\* The update names the issue and asks nothing of its status.
UpdateIssue(p) ==
    /\ proc[p].op = "updateIssue"
    /\ issue' = [issue EXCEPT ![proc[p].id].qty = proc[p].qty,
                              ![proc[p].id].revenue = Amount(proc[p].qty),
                              ![proc[p].id].located = TRUE]
    /\ Ends(p)
    /\ UNCHANGED <<orderStatus, ret, posted>>

\* What postIssue asks before it calls the kernel.
PostAdmitted(s) ==
    issue[s].status # "ABSENT" /\ issue[s].located /\ Open(issue[s].order)

LoadPostIssue(p, s, k) ==
    /\ PostAdmitted(s)
    /\ proc[p].op = "idle"
    /\ proc' = [proc EXCEPT ![p] =
                  [IdleProc EXCEPT !.op = "postIssue", !.id = s, !.key = k,
                                   !.qty = issue[s].qty,
                                   !.revenue = issue[s].revenue]]
    /\ UNCHANGED <<orderStatus, documents, posted>>

\* The kernel found nothing under the key.
FirstUse(p) == idem[proc[p].id][proc[p].key] = None

\* Mutant: the quantity is compared with the order, not with what is left of it.
OverissuesAlone(qty) == ~ Fits(qty, Ordered)

Overissues(qty) == ~ Fits(Plus(issued, qty), Ordered)

\* Mutant: only a posted document is refused.
NotPosted(status) == status # "POSTED"

StillDraft(status) == status = "DRAFT"

StatusAfter(o, issuedNow) ==
    IF \A i \in ItemsOf(o) : issuedNow[i] >= Ordered[i] THEN "ISSUED"
    ELSE "PARTIALLY_ISSUED"

\* The items of the posted issue that are not fully issued get a new draft.
FollowUps(o, qty, issuedNow) ==
    {i \in ItemsOf(o) : qty[i] > 0 /\ issuedNow[i] < Ordered[i]}

\* QUANTITY_ZERO.
SomeZero(s, qty) == \E i \in issue[s].items : qty[i] = 0

\* Mutant: the receivable is created with the revenue of the row as it is now.
RevenueNow(p) == issue[proc[p].id].revenue

\* The revenue the handler read with the quantities.
Revenue(p) == proc[p].revenue

Receivable(revenue) == [original |-> revenue, received |-> 0, adjusted |-> 0,
                        outstanding |-> revenue]

PostIssue(p) ==
    LET s   == proc[p].id
        o   == issue[s].order
        qty == proc[p].qty
        now == Plus(issued, qty)
    IN
    /\ proc[p].op = "postIssue"
    /\ FirstUse(p)
    /\ ~ SomeZero(s, qty)
    /\ Fits(qty, stock)
    /\ StillDraft(issue[s].status)
    /\ QuotaAllows(o, qty)
    /\ ~ Overissues(qty)
    /\ stock' = Minus(stock, qty)
    /\ ledger' = [ledger EXCEPT ![s] = qty]
    /\ quota' = IF o \in Virtual THEN Minus(quota, qty) ELSE quota
    /\ issued' = now
    /\ orderStatus' = [orderStatus EXCEPT ![o] = StatusAfter(o, now)]
    /\ CreateDrafts([issue EXCEPT ![s].status = "POSTED"], o,
                    FollowUps(o, qty, now), Minus(Ordered, now), TRUE)
    /\ receivable' = [receivable EXCEPT ![s] = Receivable(Revenue(p))]
    /\ idem' = [idem EXCEPT ![s][proc[p].key] = qty]
    /\ Ends(p)
    /\ UNCHANGED <<ret, returned, refund>>

\* A replay, IDEMPOTENCY_CONFLICT, or an error of the kernel or of finalize:
\* nothing is written.
PostIssueRefused(p) ==
    LET s == proc[p].id IN
    /\ proc[p].op = "postIssue"
    /\ \/ ~ FirstUse(p)
       \/ SomeZero(s, proc[p].qty)
       \/ ~ Fits(proc[p].qty, stock)
       \/ ~ StillDraft(issue[s].status)
       \/ ~ QuotaAllows(issue[s].order, proc[p].qty)
       \/ Overissues(proc[p].qty)
    /\ Ends(p)
    /\ UNCHANGED <<orderStatus, documents, posted>>

(***************************************************************************)
(* Returns.                                                                *)
(***************************************************************************)

\* What the returns of an issue claim, drafts included: quantities and, since
\* every return traces its whole quantity, batch traces.
Claimed(s) ==
    [i \in Item |-> Total([t \in {t \in Return : ret[t].issue = s} |-> ret[t].qty[i]])]

LoadCreateReturn(p, s, qty) ==
    /\ issue[s].status = "POSTED"
    /\ Fits(Plus(Claimed(s), qty), issue[s].qty)
    /\ Fits(Plus(Claimed(s), qty), ledger[s])
    /\ Loads(p, "createReturn", s, qty)
    /\ UNCHANGED <<orderStatus, documents, posted>>

CreateReturn(p) ==
    /\ proc[p].op = "createReturn"
    /\ \E t \in Return :
         /\ ret[t].status = "ABSENT"
         /\ ret' = [ret EXCEPT ![t] = [status |-> "DRAFT", issue |-> proc[p].id,
                                       qty |-> proc[p].qty]]
    /\ Ends(p)
    /\ UNCHANGED <<orderStatus, issue, posted>>

LoadPostReturn(p, t, k) ==
    /\ ret[t].status # "ABSENT"
    /\ proc[p].op = "idle"
    /\ proc' = [proc EXCEPT ![p] =
                  [IdleProc EXCEPT !.op = "postReturn", !.id = t, !.key = k,
                                   !.qty = ret[t].qty,
                                   !.due = receivable[ret[t].issue].outstanding]]
    /\ UNCHANGED <<orderStatus, documents, posted>>

Overreturns(s, qty) == ~ Fits(Plus(returned[s], qty), issue[s].qty)

\* The refund first reduces what is outstanding; the rest is owed to the
\* customer.  due is what the handler read before the transaction.
Settled(row, due, amount) ==
    LET adjustment == Smaller(due, amount) IN
    IF adjustment > 0
    THEN [row EXCEPT !.adjusted = @ + adjustment,
                     !.outstanding = due - adjustment]
    ELSE row

PostReturn(p) ==
    LET t   == proc[p].id
        s   == ret[t].issue
        amount == Amount(proc[p].qty)
    IN
    /\ proc[p].op = "postReturn"
    /\ FirstUse(p)
    /\ StillDraft(ret[t].status)
    /\ ~ Overreturns(s, proc[p].qty)
    /\ returned' = [returned EXCEPT ![s] = Plus(@, proc[p].qty)]
    /\ ledger' = [ledger EXCEPT ![t] = proc[p].qty]
    /\ receivable' = [receivable EXCEPT ![s] = Settled(@, proc[p].due, amount)]
    /\ refund' = [refund EXCEPT ![t] = amount - Smaller(proc[p].due, amount)]
    /\ ret' = [ret EXCEPT ![t].status = "POSTED"]
    /\ idem' = [idem EXCEPT ![t][proc[p].key] = proc[p].qty]
    /\ Ends(p)
    /\ UNCHANGED <<orderStatus, issue, issued, stock, quota>>

PostReturnRefused(p) ==
    LET t == proc[p].id IN
    /\ proc[p].op = "postReturn"
    /\ \/ ~ FirstUse(p)
       \/ ~ StillDraft(ret[t].status)
       \/ Overreturns(ret[t].issue, proc[p].qty)
    /\ Ends(p)
    /\ UNCHANGED <<orderStatus, documents, posted>>

(***************************************************************************)
(* FinanceService.postReceipt reads and writes the receivable in one       *)
(* serializable transaction.                                               *)
(***************************************************************************)
PostReceipt(s, amount) ==
    /\ amount <= receivable[s].outstanding
    /\ receivable' = [receivable EXCEPT ![s].received = @ + amount,
                                        ![s].outstanding = @ - amount]
    /\ UNCHANGED <<orderStatus, documents, issued, returned, stock, quota,
                   ledger, refund, idem, proc>>

\* positive(): documents have at least one item, with a positive quantity.
SomeOf(o) == {q \in [Item -> 0..Max({Ordered[i] : i \in Item})] :
                /\ q # Zero
                /\ \A i \in Item : OrderOf[i] # o => q[i] = 0}

OrderStep(p) ==
    \/ \E o \in Order : LoadConfirm(p, o) \/ LoadCancel(p, o)
    \/ ConfirmOrder(p) \/ CancelOrder(p)

IssueStep(p) ==
    \/ \E o \in Order : \E qty \in SomeOf(o) : LoadCreateIssue(p, o, qty)
    \/ \E s \in Issue, i \in Item : \E n \in 0..Ordered[i] :
            LoadUpdateIssue(p, s, i, n)
    \/ \E s \in Issue, k \in Key : LoadPostIssue(p, s, k)
    \/ CreateIssue(p) \/ UpdateIssue(p) \/ PostIssue(p) \/ PostIssueRefused(p)

ReturnStep(p) ==
    \/ \E s \in Issue : issue[s].status # "ABSENT" /\
            \E qty \in SomeOf(issue[s].order) : LoadCreateReturn(p, s, qty)
    \/ \E t \in Return, k \in Key : LoadPostReturn(p, t, k)
    \/ CreateReturn(p) \/ PostReturn(p) \/ PostReturnRefused(p)

Next ==
    \/ \E o \in Order : CreateOrder(o)
    \/ \E p \in Process : OrderStep(p) \/ IssueStep(p) \/ ReturnStep(p)
    \/ \E s \in Issue : \E amount \in 1..receivable[s].outstanding :
            PostReceipt(s, amount)

Spec == Init /\ [][Next]_vars

=============================================================================
