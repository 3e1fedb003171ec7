\* Two requests inspect two returns and settle the claim of one.  The system stops
\* when the settlements of the bound are used.
SPECIFICATION Spec
CONSTANTS
    r1 = r1 r2 = r2 b1 = b1 s1 = s1 s2 = s2 k1 = k1 k2 = k2 p1 = p1 p2 = p2 None = None
    Return = {r1, r2}
    Returned <- TwoReturns
    Supplied <- First
    Cost = 1
    Payload <- Requests
    BatchNo = {b1}
    Settlement = {s1, s2}
    Key = {k1, k2}
    Process = {p1, p2}
SYMMETRY Symmetry
INVARIANTS StockExplained SettlementPerKey SettlementsOwed
CHECK_DEADLOCK FALSE
