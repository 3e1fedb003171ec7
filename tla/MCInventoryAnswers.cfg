\* Two keys, a reused batch number, a location going out of use: answers.
SPECIFICATION FairSpec
CONSTANTS
    l1 = l1  l2 = l2  s1 = s1  b1 = b1  b2 = b2  b3 = b3
    open1 = open1  in1 = in1  out1 = out1  move1 = move1  back1 = back1
    r1 = r1  r2 = r2 k1 = k1 k2 = k2 None = None
    Location = {l1}
    Sku = {s1}
    StockStatus = {"AVAILABLE"}
    CostGroup = {"AVAILABLE"}
    BatchNo = {b1}
    Doc = {open1, in1, out1}
    CheckedDoc = {open1, in1}
    Key = {k1, k2}
    Request = {r1, r2}
    Input <- KeysInput
    CostScale = 100
    MaxAttempts = 2
    MaxCrashes = 0
    AdminLocation = {l1}
INVARIANTS
    PostedOnce ReplyNamesItsPosting
PROPERTY EveryRequestAnswered
