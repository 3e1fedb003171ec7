\* Two requests, one of them an export perhaps, interleaved with postings.  The system stops when the
\* requests of the bound are used.
SPECIFICATION CatalogueSpec
CONSTANTS
    cat1 = cat1 prod1 = prod1 prod2 = prod2 prod3 = prod3
    chan1 = chan1 cust1 = cust1 loc1 = loc1 loc2 = loc2 loc3 = loc3
    p1 = p1 p2 = p2 p3 = p3 p4 = p4 r1 = r1 r2 = r2 None = None
    Row = {cat1, prod1, prod2, prod3, chan1, cust1, loc1, loc2, loc3}
    ResourceOf <- Resources
    FirstRows <- Seeded
    FirstRefs <- SeededRefs
    Request = {r1, r2}
    MaxRequests = 2
    PageSize = 1
    Price = {p1, p2, p3, p4}
    FirstPrices <- SeededPrices
    Key = {"customer", "general"}
    KeyRows <- RowsOfKey
    Time = {0, 1}
    Quantity = {1, 2}
    ExternalLocation = {loc3}
    ExternalChannel = {chan1}
SYMMETRY Symmetry
INVARIANTS ExportMissesNone PricesSound ClosedLocationsAreEmpty
PROPERTIES ChosenWhileActive
CHECK_DEADLOCK FALSE
