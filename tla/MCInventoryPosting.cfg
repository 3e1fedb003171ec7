\* Posting, retries, replays, crashes: every interleaving of two requests.
SPECIFICATION Spec
CONSTANTS
    l1 = l1  l2 = l2  s1 = s1  b1 = b1  b2 = b2  b3 = b3
    open1 = open1  in1 = in1  out1 = out1  move1 = move1  back1 = back1
    r1 = r1  r2 = r2 k1 = k1 k2 = k2 None = None
    Location = {l1, l2}
    Sku = {s1}
    StockStatus = {"AVAILABLE", "DEFECTIVE"}
    CostGroup = {"AVAILABLE", "DEFECTIVE"}
    BatchNo = {b1, b2, b3}
    Doc = {open1, in1, out1, move1, back1}
    CheckedDoc = {open1, move1}
    Key = {k1}
    Request = {r1, r2}
    Input <- FlowInput
    CostScale = 100
    MaxAttempts = 2
    MaxCrashes = 1
    AdminLocation = {}
SYMMETRY Symmetry
INVARIANTS 
    StockWithinBounds LedgerExplainsBalance AllocationsExplainBatches
    BatchesCoverAvailable ValueTracksCost JournalMatchesInput
PROPERTY ImplementsStockLedger
