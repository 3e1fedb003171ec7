\* Payments and receipts drafted on the same debts and posted in any order.
\* The system does not stop: the status of an account can always be written.
SPECIFICATION Spec
CONSTANTS
    a1 = a1 y1 = y1 y2 = y2 f1 = f1 v1 = v1 w1 = w1 c1 = c1 s1 = s1 s2 = s2
    d1 = d1 d2 = d2 d3 = d3 d4 = d4 k1 = k1 k2 = k2 None = None
    Account = {a1}
    Payable = {y1, y2}
    Refund = {f1}
    Receivable = {v1}
    Compensation = {w1}
    Credit = {c1}
    Original <- Owed
    Party <- With
    MaxCash = 2
    MaxTotal = 3
    Payment = {d1, d2}
    Receipt = {d3}
    Adjustment = {d4}
    Key = {k1, k2}
SYMMETRY Symmetry
INVARIANTS DebtsSound SettledByPosted AccountsHoldTheCash
PROPERTIES ImplementsDebtLedger
