--------------------------- MODULE FinanceLedger ---------------------------
(***************************************************************************)
(* The properties of payments, receipts, debts and account transactions.   *)
(***************************************************************************)
EXTENDS Finance

Posted == {d \in Document : document[d].status = "POSTED"}

\* What the posted documents put into a field of a debt.
PostedOn(o, F(_)) ==
    Total([d \in Posted |-> IF o \in DOMAIN document[d].lines
                            THEN F(document[d].lines[o]) ELSE 0])

DebtStatus == {"OPEN", "PARTIAL", "SETTLED"}

DebtRows == [paid : Nat, credited : Nat, outstanding : Nat, status : DebtStatus]

IsDocumentRow(row) ==
    /\ row = [status |-> row.status, account |-> row.account,
              cash |-> row.cash, lines |-> row.lines]
    /\ row.status \in {"ABSENT", "DRAFT", "POSTED"}
    /\ row.status # "ABSENT" => row.account \in Account
    /\ row.cash \in Int
    /\ DOMAIN row.lines \subseteq Debt
    /\ \A o \in DOMAIN row.lines : row.lines[o] \in Line

\* The rows of the tables; nothing is settled below 0, however many drafts
\* were written on the same outstanding amount.
TypeOK ==
    /\ active \in [Account -> BOOLEAN]
    /\ debt \in [Debt -> DebtRows]
    /\ \A c \in Credit : /\ credit[c].applied \in 0..Original[c]
                         /\ credit[c].status \in DebtStatus
    /\ DOMAIN document = Document
    /\ \A d \in Document : IsDocumentRow(document[d])
    /\ entries \in [Document -> Seq([account : Account, amount : Int])]
    /\ idem \in [Document -> SUBSET Key]

\* originalAmount = paidAmount + creditedAmount + outstandingAmount for every
\* debt, and it is settled exactly when nothing is outstanding: the three
\* columns are written separately, two as increments and one as a value.
DebtBalances ==
    \A o \in Debt :
        /\ debt[o].paid + debt[o].credited + debt[o].outstanding = Original[o]
        /\ debt[o].status = "SETTLED" <=> debt[o].outstanding = 0

\* "Posting again under the same key returns the first result and does not
\* update balances again" (docs/13): what is paid and credited on a debt is
\* what the posted documents allocate to it, each of them once.
SettledByPosted ==
    \A o \in Debt :
        /\ debt[o].paid = PostedOn(o, LAMBDA line : line.cash)
        /\ debt[o].credited = PostedOn(o, LAMBDA line : line.credited)

\* A document is POSTED exactly when its account has a transaction of it, and
\* then exactly one, saved under one key.
PostedOnce ==
    \A d \in Document :
        IF document[d].status = "POSTED"
        THEN /\ Len(entries[d]) = 1
             /\ entries[d][1].account = document[d].account
             /\ Cardinality(idem[d]) = 1
        ELSE entries[d] = <<>> /\ idem[d] = {}

\* Debts balance and documents are posted once, out of well-formed rows, however
\* many drafts were written on the same outstanding amount (postPayment, postReceipt).
DebtsSound == TypeOK /\ DebtBalances /\ PostedOnce

PaidOn(S) == Total([o \in S |-> debt[o].paid])

\* What the account transactions of a document come to.
EntriesOf(d) == Total([i \in 1..Len(entries[d]) |-> entries[d][i].amount])

\* Accounts hold what was received less what was paid, and nothing else but
\* adjustments: drafts, debts and credits move no money (decisions, ADR-020
\* and ADR-021).
AccountsHoldTheCash ==
    Total([d \in Document \ Adjustment |-> EntriesOf(d)])
      = PaidOn(Receivable \cup Compensation) - PaidOn(Payable \cup Refund)

\* What is due of a debt, and what a document has settled of each debt.
Due == [o \in Debt |-> debt[o].outstanding]

Amounts(lines) == [o \in DOMAIN lines |-> Settles(lines[o])]

SettledBy ==
    [d \in Document |-> IF document[d].status = "POSTED"
                        THEN Amounts(document[d].lines) ELSE NoLines]

Abstract == INSTANCE DebtLedger WITH
    Original <- [o \in Debt |-> Original[o]],
    due <- Due,
    settled <- SettledBy

\* Settling implements the abstract ledger of debts: whatever is drafted and
\* repeated, a posting settles all its lines at once, once, within what is due.
ImplementsDebtLedger == Abstract!Spec

(***************************************************************************)
(* A statement of the repository that the code does not keep.              *)
(***************************************************************************)

\* decisions.md, ADR-021: "a credit only increases Payable.creditedAmount and
\* SupplierCredit.appliedAmount", by the creditAmount of the allocations.
CreditsApplyWhatTheyPay ==
    \A c \in Credit :
        credit[c].applied =
            Total([d \in Posted |->
                      Total([o \in Using(document[d].lines, c) |->
                                document[d].lines[o].credited])])

=============================================================================
