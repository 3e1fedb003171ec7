\* Every interleaving of two requests on two orders.  The system stops when all
\* the issues and returns of the bound are used.
SPECIFICATION Spec
CONSTANTS
    o1 = o1 o2 = o2 i1 = i1 i2 = i2 s1 = s1 s2 = s2 s3 = s3 t1 = t1 t2 = t2
    k1 = k1 p1 = p1 p2 = p2 None = None
    Order = {o1, o2}
    Item = {i1, i2}
    OrderOf <- TwoOrders
    Ordered <- TwoEach
    Price <- OneEach
    Located = {o1}
    Virtual = {o1}
    Quota <- OneAndThree
    Stock <- ThreeEach
    Issue = {s1, s2, s3}
    Return = {t1}
    Key = {k1}
    Process = {p1, p2}
SYMMETRY Symmetry
INVARIANTS IssuedIsPosted QuotaCovers DocumentsCharged
PROPERTY SettledDocumentsStay
CHECK_DEADLOCK FALSE
