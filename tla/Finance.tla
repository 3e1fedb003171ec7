------------------------------ MODULE Finance ------------------------------
(***************************************************************************)
(* FinanceService: payments, receipts, account adjustments and expense     *)
(* bills, the debts and supplier credits they settle and the account       *)
(* transactions they leave.  A document is drafted from what was           *)
(* outstanding when it was written and posted later, in any order.         *)
(*                                                                         *)
(* Posting reads and writes all its rows in one Serializable transaction   *)
(* and looks its key up again inside: one step.  A draft is checked and    *)
(* inserted in two statements; nobody sees it in between and posting       *)
(* checks it again, so creating one is a step too.  Repeating a posting    *)
(* under a key that was used returns the document and changes nothing.     *)
(*                                                                         *)
(* Debts and credits exist from the start; purchases, sales and claims     *)
(* raise them, and their returns, which also write outstanding amounts,    *)
(* belong to PurchaseOrder and SalesOrder.                                 *)
(***************************************************************************)
EXTENDS Totals, Sequences

CONSTANTS
    Account,
    Payable,     \* owed to suppliers
    Refund,      \* CustomerRefund: owed to customers
    Receivable,  \* owed by customers
    Compensation, \* SupplierCompensationReceivable: owed by suppliers
    Credit,      \* SupplierCredit
    Original,    \* originalAmount of a debt, amount of a refund or a credit
    Party,       \* who a debt or a credit is with: all dimensions of the row
    MaxCash,     \* bound: amounts of an allocation or an adjustment
    MaxTotal,    \* bound: cash of a payment or a receipt
    Payment,     \* bound: the payments,
    Receipt,     \* the receipts and
    Adjustment,  \* the adjustments and bills there can be
    Key,
    None

Debt == Payable \cup Refund \cup Receivable \cup Compensation

Document == Payment \cup Receipt \cup Adjustment

ASSUME FinanceAssumption ==
    /\ Original \in [Debt \cup Credit -> Nat \ {0}]
    /\ DOMAIN Party = Debt \cup Credit
    /\ MaxCash \in Nat
    /\ MaxTotal \in Nat
    /\ None \notin Credit \cup Account
    /\ Payable \cap Refund = {}
    /\ (Payable \cup Refund) \cap (Receivable \cup Compensation) = {}
    /\ Payment \cap Receipt = {}
    /\ Adjustment \cap (Payment \cup Receipt) = {}

\* The tables are finite.
ASSUME FinanceIsFinite == IsFiniteSet(Debt) /\ IsFiniteSet(Document)

VARIABLES
    active,   \* status of the accounts
    debt,     \* Payable, CustomerRefund, Receivable, compensation rows
    credit,   \* SupplierCredit rows
    document, \* Payment, Receipt and AccountAdjustment rows
    entries,  \* entries[d]: the FinancialTransactions with sourceId d
    idem      \* IdempotencyRecord: the keys a document was posted under

vars == <<active, debt, credit, document, entries, idem>>

settlements == <<debt, credit>>

(***************************************************************************)
(* Rows.  What is outstanding of a refund is its amount less paidAmount;   *)
(* "PARTIAL" is PARTIALLY_PAID, PARTIALLY_RECEIVED or PARTIALLY_APPLIED,   *)
(* "SETTLED" is also PAID and APPLIED.  paid is receivedAmount where money *)
(* comes in.                                                               *)
(***************************************************************************)

DebtRow(paid, credited, outstanding, status) ==
    [paid |-> paid, credited |-> credited, outstanding |-> outstanding,
     status |-> status]

CreditRow(applied, status) == [applied |-> applied, status |-> status]

\* A line of a document: cash, and for a payable what a credit pays of it.
Line == [cash : 0..MaxCash, credited : 0..MaxCash, from : Credit \cup {None}]

NoLines == [o \in {} |-> 0]

NoDocument == [status |-> "ABSENT", account |-> None, cash |-> 0,
               lines |-> NoLines]

Init ==
    /\ active = [a \in Account |-> TRUE]
    /\ debt = [o \in Debt |-> DebtRow(0, 0, Original[o], "OPEN")]
    /\ credit = [c \in Credit |-> CreditRow(0, "OPEN")]
    /\ document = [d \in Document |-> NoDocument]
    /\ entries = [d \in Document |-> <<>>]
    /\ idem = [d \in Document |-> {}]

Cash(lines) == Total([o \in DOMAIN lines |-> lines[o].cash])

Settles(line) == line.cash + line.credited

\* Mutant: only the cash is compared with what is outstanding.
CashOutstanding(lines) ==
    \A o \in DOMAIN lines : lines[o].cash <= debt[o].outstanding

AllOutstanding(lines) ==
    \A o \in DOMAIN lines : Settles(lines[o]) <= debt[o].outstanding

\* sameDimension: the targets of a document are all with one party.
SameParty(lines) == \A o1, o2 \in DOMAIN lines : Party[o1] = Party[o2]

Using(lines, c) == {o \in DOMAIN lines : lines[o].from = c}

UsedCredits(lines) == {c \in Credit : Using(lines, c) # {}}

\* The check of a draft adds up what all its lines take from a credit.
CreditsSuffice(lines) ==
    \A c \in UsedCredits(lines) :
        /\ credit[c].status \in {"OPEN", "PARTIAL"}
        /\ \A o \in DOMAIN lines : Party[o] = Party[c]
        /\ Total([o \in Using(lines, c) |-> lines[o].credited])
             <= Original[c] - credit[c].applied

\* A line is not empty, and takes what it credits from a credit.
SomeLine == {line \in Line : /\ Settles(line) > 0
                             /\ line.from = None <=> line.credited = 0}

\* Each target is listed once.
LinesOn(targets) == UNION {[S -> SomeLine] : S \in SUBSET targets \ {{}}}

CashOnly(lines) == \A o \in DOMAIN lines : lines[o].from = None

Drafted(a, lines, cash) ==
    [status |-> "DRAFT", account |-> a, cash |-> cash, lines |-> lines]

(***************************************************************************)
(* Accounts and drafts.                                                    *)
(***************************************************************************)

\* updateAccount with a status; name and type are of no consequence here.
UpdateAccount(a, status) ==
    /\ active' = [active EXCEPT ![a] = status]
    /\ UNCHANGED <<settlements, document, entries, idem>>

Draft(d, a, lines, cash) ==
    /\ document[d].status = "ABSENT"
    /\ active[a]
    /\ document' = [document EXCEPT ![d] = Drafted(a, lines, cash)]
    /\ UNCHANGED <<active, settlements, entries, idem>>

\* The cash of a payment is positive: credit alone cannot pay.
CreatePayment(d, a) ==
    \E lines \in LinesOn(Payable) \cup LinesOn(Refund), cash \in 1..MaxTotal :
        /\ Cash(lines) = cash
        /\ SameParty(lines)
        /\ AllOutstanding(lines)
        /\ CreditsSuffice(lines)
        /\ DOMAIN lines \subseteq Refund => CashOnly(lines)
        /\ Draft(d, a, lines, cash)

CreateReceipt(d, a) ==
    \E lines \in LinesOn(Receivable) \cup LinesOn(Compensation),
       cash \in 1..MaxTotal :
        /\ CashOnly(lines)
        /\ Cash(lines) = cash
        /\ SameParty(lines)
        /\ AllOutstanding(lines)
        /\ Draft(d, a, lines, cash)

\* createAdjustment in either direction (a negative amount goes out), and
\* createExpenseBill, which always goes out.
CreateAdjustment(d, a) ==
    \E cash \in (-MaxCash)..MaxCash : cash # 0 /\ Draft(d, a, NoLines, cash)

(***************************************************************************)
(* Posting.                                                                *)
(***************************************************************************)

\* Mutant: any document that exists can be posted.
PostableAgain(d) == document[d].status # "ABSENT" /\ active[document[d].account]

Postable(d) == document[d].status = "DRAFT" /\ active[document[d].account]

\* The debt after a line has settled part of it.
Settled(row, line) ==
    LET outstanding == row.outstanding - Settles(line) IN
    DebtRow(row.paid + line.cash, row.credited + line.credited, outstanding,
            IF outstanding = 0 THEN "SETTLED" ELSE "PARTIAL")

Applied(c, n) ==
    LET next == credit[c].applied + n IN
    CreditRow(next, IF next = Original[c] THEN "SETTLED" ELSE "PARTIAL")

Settlement(lines) ==
    debt' = [o \in Debt |-> IF o \in DOMAIN lines
                            THEN Settled(debt[o], lines[o]) ELSE debt[o]]

\* Mutant: credit counts as money that moved.
CreditMoves(d) ==
    IF d \in Payment
    THEN - Total([o \in DOMAIN document[d].lines |->
                     Settles(document[d].lines[o])])
    ELSE document[d].cash

\* The FinancialTransaction of a document: what it adds to its account.
Moves(d) == IF d \in Payment THEN - document[d].cash ELSE document[d].cash

\* Mutant: the document stays DRAFT.
CommitUnmarked(d, k) ==
    /\ k \notin idem[d]
    /\ entries' = [entries EXCEPT ![d] =
                      Append(@, [account |-> document[d].account,
                                 amount |-> Moves(d)])]
    /\ document' = document
    /\ idem' = [idem EXCEPT ![d] = @ \cup {k}]
    /\ UNCHANGED active

\* What every posting ends with, after its key was not found.
Commit(d, k) ==
    /\ k \notin idem[d]
    /\ entries' = [entries EXCEPT ![d] =
                      Append(@, [account |-> document[d].account,
                                 amount |-> Moves(d)])]
    /\ document' = [document EXCEPT ![d].status = "POSTED"]
    /\ idem' = [idem EXCEPT ![d] = @ \cup {k}]
    /\ UNCHANGED active

\* The loop applies each line to its credit as it was read before the loop,
\* so of the lines on one credit the last write remains; the allocations are
\* read in no particular order.
CreditsApplied(lines) ==
    /\ \A c \in UsedCredits(lines) : \A o \in Using(lines, c) :
         credit[c].applied + lines[o].credited <= Original[c]
    /\ \E last \in [UsedCredits(lines) -> DOMAIN lines] :
         /\ \A c \in UsedCredits(lines) : last[c] \in Using(lines, c)
         /\ credit' = [c \in Credit |->
                          IF c \in UsedCredits(lines)
                          THEN Applied(c, lines[last[c]].credited)
                          ELSE credit[c]]

PostPayment(d, k) ==
    LET lines == document[d].lines IN
    /\ Postable(d)
    /\ document[d].cash = Cash(lines)
    /\ AllOutstanding(lines)
    /\ CreditsApplied(lines)
    /\ Settlement(lines)
    /\ Commit(d, k)

PostReceipt(d, k) ==
    LET lines == document[d].lines IN
    /\ Postable(d)
    /\ document[d].cash = Cash(lines)
    /\ AllOutstanding(lines)
    /\ Settlement(lines)
    /\ Commit(d, k)
    /\ UNCHANGED credit

\* postAdjustment, and postExpenseBill, which only looks whether it is a bill.
PostAdjustment(d, k) ==
    /\ Postable(d)
    /\ Commit(d, k)
    /\ UNCHANGED settlements

Next ==
    \/ \E a \in Account :
         \/ \E status \in BOOLEAN : UpdateAccount(a, status)
         \/ \E d \in Payment : CreatePayment(d, a)
         \/ \E d \in Receipt : CreateReceipt(d, a)
         \/ \E d \in Adjustment : CreateAdjustment(d, a)
    \/ \E k \in Key :
         \/ \E d \in Payment : PostPayment(d, k)
         \/ \E d \in Receipt : PostReceipt(d, k)
         \/ \E d \in Adjustment : PostAdjustment(d, k)

Spec == Init /\ [][Next]_vars

=============================================================================
