---------------------------- MODULE SalesLedger ----------------------------
(***************************************************************************)
(* The properties of sales orders, issues, returns and receivables.        *)
(***************************************************************************)
EXTENDS SalesOrder

\* What the posted documents of D moved.
Moved(D) == [i \in Item |-> Total([d \in D |-> ledger[d][i]])]

ReturnsOf(s) == {t \in Return : ret[t].issue = s}

Status == {"ABSENT", "DRAFT", "POSTED", "CANCELLED"}

IssueRow == [status : Status, order : Order \cup {None}, items : SUBSET Item,
             qty : Quantity, revenue : Nat, located : BOOLEAN]

ReturnRow == [status : Status, issue : Issue \cup {None}, qty : Quantity]

ReceivableRow == [original : Nat, received : Nat, adjusted : Nat,
                  outstanding : Nat]

Op == {"idle", "confirmOrder", "cancelOrder", "createIssue", "updateIssue",
       "postIssue", "createReturn", "postReturn"}

ProcRow == [op : Op, id : Order \cup Doc \cup {None}, qty : Quantity,
            key : Key \cup {None}, revenue : Nat, due : Nat]

\* The rows of the tables, and no amount or quantity below 0: no outstanding
\* amount and no stock is ever taken below what there is, whatever was read
\* before.
TypeOK ==
    /\ orderStatus \in [Order -> {"ABSENT", "DRAFT", "CONFIRMED",
                                  "PARTIALLY_ISSUED", "ISSUED", "CANCELLED"}]
    /\ issued \in [Item -> Nat]
    /\ issue \in [Issue -> IssueRow]
    /\ ret \in [Return -> ReturnRow]
    /\ returned \in [Issue -> Quantity]
    /\ stock \in Quantity
    /\ quota \in [Item -> Int]
    /\ ledger \in [Doc -> Quantity]
    /\ receivable \in [Issue -> ReceivableRow]
    /\ refund \in [Return -> Nat]
    /\ idem \in [Doc -> [Key -> Quantity \cup {None}]]
    /\ proc \in [Process -> ProcRow]

\* "Concurrent issues make the quantity exceed the order's" is what postIssue
\* refuses: what the order counts as issued is what its posted issues took
\* from the stock, and never more than was ordered, though issues are created,
\* edited and posted from quantities read earlier.
IssuedIsPosted ==
    \A i \in Item : /\ issued[i] = Moved(Issue)[i]
                    /\ issued[i] <= Ordered[i]

\* A channel never sells more than was allocated to it, though createIssue,
\* updateIssue and the drafts of createOrder reserve nothing of the quota.
QuotaCovers ==
    \A o \in Virtual : \A i \in ItemsOf(o) :
        quota[i] = Quota[i] - issued[i] /\ quota[i] >= 0

\* Every posted issue is charged once, for exactly what left the stock, even
\* when updateIssue changed the issue while it was being posted.
ReceivablePerIssue ==
    \A s \in Issue : receivable[s].original = Amount(ledger[s])

\* What is returned is either taken off the receivable or owed to the
\* customer, never both and never lost, whatever the handler had read.
ReturnsSettled ==
    \A s \in Issue :
        receivable[s].adjusted + Total([t \in ReturnsOf(s) |-> refund[t]])
          = Amount(Moved(ReturnsOf(s)))

\* Issues are charged for what they moved and returns are settled for what they
\* brought back, out of well-formed rows (finalize of postIssue and postReturn).
DocumentsCharged == TypeOK /\ ReceivablePerIssue /\ ReturnsSettled

\* A document that was cancelled or posted stays so: a post that had read the
\* draft before the order was cancelled does not bring the issue back, and a
\* cancellation never reaches a posted issue.
SettledDocumentsStay ==
    [][/\ \A s \in Issue : issue[s].status \in {"POSTED", "CANCELLED"} =>
                               issue'[s].status = issue[s].status
       /\ \A t \in Return : ret[t].status = "POSTED" => ret'[t] = ret[t]]_vars

\* What is outstanding is what was charged, less what was received and what
\* returns took off (docs/06, Receivable: original, adjusted, received and
\* outstanding amounts).
ReceivableBalances ==
    \A s \in Issue :
        receivable[s].outstanding
            = receivable[s].original - receivable[s].received
                - receivable[s].adjusted

\* postReturn refuses "concurrent returns that make the quantity exceed what
\* was issued": no more comes back than the issue took from the stock.
ReturnsWithinIssue ==
    \A s \in Issue : \A i \in Item :
        Moved(ReturnsOf(s))[i] <= ledger[s][i]

=============================================================================
