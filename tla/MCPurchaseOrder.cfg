\* Every interleaving of two requests on one order.  The system stops when all
\* the receipts and returns of the bound are used.
SPECIFICATION Spec
CONSTANTS
    o1 = o1 i1 = i1 u1 = u1 u2 = u2 r1 = r1 r2 = r2 t1 = t1 t2 = t2
    k1 = k1 p1 = p1 p2 = p2 None = None
    Order = {o1}
    Item = {i1}
    Price <- One
    Supplier = {u1, u2}
    MaxQuantity = 2
    MaxVer = 1
    Receipt = {r1, r2}
    Return = {t1, t2}
    Key = {k1}
    Process = {p1, p2}
SYMMETRY Symmetry
INVARIANTS ReceiptsAndReturnsAgree OrderLockedByReceipt
CHECK_DEADLOCK FALSE
