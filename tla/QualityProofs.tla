---------------------------- MODULE QualityProofs ----------------------------
(***************************************************************************)
(* Proofs about inspections and the settlements of supplier claims, for    *)
(* any returns, keys, payloads and requests.                               *)
(*                                                                         *)
(* A settlement and the record of its key are saved in one transaction     *)
(* that looks the key up, so the records are a one-to-one naming of the    *)
(* settlements, however requests are repeated or end on the way. A         *)
(* settlement is owed in the transaction that finds it a draft.            *)
(*                                                                         *)
(* Stock is what confirmed inspections and posted settlements moved. A     *)
(* claim may count less as settled than was posted, since a request adds   *)
(* to a sum it read before, but never more: what was posted when it read   *)
(* is still posted when it writes.                                         *)
(***************************************************************************)
EXTENDS QualityLedger, TotalProofs

SettlementKept ==
    [status : {"ABSENT", "DRAFT", "POSTED"}, claim : Return \cup {None},
     payload : PayloadRow, amount : Nat]

Tables ==
    /\ settlement \in [Settlement -> SettlementKept]
    /\ saved \in [Return -> [Key -> Settlement \cup {None}]]
    /\ owed = [s \in Settlement |-> owed[s]]

Named(s) == \E r \in Return, k \in Key : saved[r][k] = s

\* The records of the keys name the settlements, each once.
OneToOne ==
    /\ \A s \in Settlement : settlement[s].status # "ABSENT" <=> Named(s)
    /\ \A r, q \in Return : \A k, l \in Key :
          saved[r][k] = saved[q][l] /\ saved[r][k] # None => r = q /\ k = l

\* A request knows its claim and payload until it has prepared a settlement.
RequestKept(row) ==
    /\ {"op", "id", "seen"} \subseteq DOMAIN row
    /\ row.op = "prepare" =>
          row.id \in Return /\ row.key \in Key /\ row.payload \in PayloadRow /\ row.amount \in Nat
    /\ row.op \in {"fetch", "post"} => row.id \in Settlement

Requests == proc = [p \in Process |-> proc[p]] /\ \A p \in Process : RequestKept(proc[p])

ClaimInv == Tables /\ OneToOne /\ OwedOnce /\ Requests

(***************************************************************************)
(* Requests.                                                               *)
(***************************************************************************)

\* The amount of a settlement is a quantity.
LEMMA AmountType ==
    ASSUME NEW payload \in PayloadRow
    PROVE  AmountOf(payload) \in Nat
BY QualityAssumption DEF AmountOf, PayloadRow

\* A request at rest.
LEMMA IdleKept == RequestKept(IdleProc)
BY DEF RequestKept, IdleProc

\* A request that goes on to another step.
LEMMA GoesOn ==
    ASSUME NEW row, RequestKept(row), NEW s, NEW n
    PROVE  /\ s \in Settlement => RequestKept([row EXCEPT !.op = "fetch", !.id = s])
           /\ row.op = "fetch" => RequestKept([row EXCEPT !.op = "post", !.seen = n])
BY DEF RequestKept

\* One request changes at a time.
LEMMA OneChanges ==
    ASSUME ClaimInv, NEW p, NEW row, RequestKept(row), proc' = [proc EXCEPT ![p] = row]
    PROVE  Requests'
BY DEF ClaimInv, Requests, RequestKept

LEMMA RequestsStep == ClaimInv /\ [Next]_vars => Requests'
<1> SUFFICES ASSUME ClaimInv, [Next]_vars
             PROVE  Requests'
  OBVIOUS
<1>1. \A p : Ends(p) => Requests'
  BY IdleKept, OneChanges DEF Ends
<1>2. \A p, row : RequestKept(row) /\ Loads(p, row) => Requests'
  BY OneChanges DEF Loads
<1>3. ASSUME NEW p \in Process, InspectionStep(p)
      PROVE  Requests'
  <2>1. ASSUME NEW r \in Return, NEW split, LoadCreateInspection(p, r, split)
        PROVE  Requests'
    BY <1>2, <2>1 DEF LoadCreateInspection, RequestKept, IdleProc
  <2>2. ASSUME NEW r \in Return, LoadConfirm(p, r)
        PROVE  Requests'
    BY <1>2, <2>2 DEF LoadConfirm, RequestKept, IdleProc
  <2>. QED
    BY <1>1, <1>3, <2>1, <2>2 DEF InspectionStep, CreateInspection, ConfirmInspection
<1>4. ASSUME NEW p \in Process, NEW r \in Return, NEW k \in Key, NEW payload \in Payload,
             LoadSettle(p, r, k, payload)
      PROVE  Requests'
  <2>. DEFINE row == [IdleProc EXCEPT !.op = "prepare", !.id = r, !.key = k, !.payload = payload,
                                      !.amount = AmountOf(payload)]
  <2>1. payload \in PayloadRow /\ AmountOf(payload) \in Nat
    BY AmountType, QualityAssumption
  <2>2. RequestKept(row)
    BY <2>1 DEF RequestKept, IdleProc
  <2>3. Loads(p, row)
    BY <1>4 DEF LoadSettle
  <2>. QED
    BY <1>2, <2>2, <2>3
<1>5. \A p \in Process : RequestKept(proc[p]) /\ p \in DOMAIN proc
  BY DEF ClaimInv, Requests
<1>6. ASSUME NEW p \in Process, PrepareSettlement(p)
      PROVE  Requests'
  <2>1. PICK s \in Settlement : proc' = [proc EXCEPT ![p].op = "fetch", ![p].id = s]
    BY <1>6 DEF PrepareSettlement
  <2>. DEFINE row == [proc[p] EXCEPT !.op = "fetch", !.id = s]
  <2>2. RequestKept(row)
    BY <1>5, GoesOn
  <2>3. proc' = [proc EXCEPT ![p] = row]
    BY <1>5, <2>1
  <2>. QED
    BY <2>2, <2>3, OneChanges
<1>7. ASSUME NEW p \in Process, FindPrepared(p)
      PROVE  Requests'
  <2>. DEFINE s == saved[proc[p].id][proc[p].key]
              row == [proc[p] EXCEPT !.op = "fetch", !.id = s]
  <2>1. s \in Settlement
    BY <1>5, <1>7 DEF FindPrepared, Found, RequestKept, ClaimInv, Tables
  <2>2. RequestKept(row)
    BY <1>5, <2>1, GoesOn
  <2>3. proc' = [proc EXCEPT ![p] = row]
    BY <1>5, <1>7 DEF FindPrepared, Found
  <2>. QED
    BY <2>2, <2>3, OneChanges
<1>8. ASSUME NEW p \in Process, FetchSettlement(p)
      PROVE  Requests'
  <2>. DEFINE n == claim[settlement[proc[p].id].claim].settled
              row == [proc[p] EXCEPT !.op = "post", !.seen = n]
  <2>1. CASE Ends(p)
    BY <1>1, <2>1
  <2>2. CASE proc' = [proc EXCEPT ![p].op = "post", ![p].seen = n]
    <3>1. proc' = [proc EXCEPT ![p] = row]
      BY <1>5, <2>2
    <3>2. RequestKept(row)
      BY <1>5, <1>8, GoesOn DEF FetchSettlement
    <3>. QED
      BY <3>1, <3>2, OneChanges
  <2>. QED
    BY <1>8, <2>1, <2>2 DEF FetchSettlement
<1>9. ASSUME NEW p \in Process, PostNonInventory(p) \/ PostInventory(p) \/ Stops(p)
      PROVE  Requests'
  BY <1>1, <1>9 DEF PostNonInventory, PostInventory, Stops
<1>10. UNCHANGED vars => Requests'
  BY DEF vars, ClaimInv, Requests, RequestKept
<1>. QED
  BY <1>3, <1>4, <1>6, <1>7, <1>8, <1>9, <1>10 DEF Next, SettlementStep

(***************************************************************************)
(* Settlements.                                                            *)
(***************************************************************************)

\* Only three steps write settlements, their records or what is owed.
LEMMA WriteKinds ==
    ASSUME [Next]_vars
    PROVE  \/ \E p \in Process : PrepareSettlement(p) \/ PostNonInventory(p) \/ PostInventory(p)
           \/ UNCHANGED <<settlement, saved, owed>>
<1>1. ASSUME NEW p \in Process, InspectionStep(p) \/ Stops(p)
      PROVE  UNCHANGED <<settlement, saved, owed>>
  BY <1>1 DEF InspectionStep, LoadCreateInspection, LoadConfirm, CreateInspection,
              ConfirmInspection, Stops, claims
<1>2. ASSUME NEW p \in Process, SettlementStep(p)
      PROVE  \/ PrepareSettlement(p) \/ PostNonInventory(p) \/ PostInventory(p)
             \/ UNCHANGED <<settlement, saved, owed>>
  BY <1>2 DEF SettlementStep, LoadSettle, FindPrepared, FetchSettlement, claims
<1>3. UNCHANGED vars => UNCHANGED <<settlement, saved, owed>>
  BY DEF vars
<1>. QED
  BY <1>1, <1>2, <1>3 DEF Next

\* A new settlement and the record of its key are saved together, under a key that
\* has no record.
LEMMA PrepareKeeps ==
    ASSUME ClaimInv, NEW p \in Process, PrepareSettlement(p)
    PROVE  Tables' /\ OneToOne' /\ OwedOnce'
<1> DEFINE r == proc[p].id
           k == proc[p].key
           row == [status |-> "DRAFT", claim |-> r, payload |-> proc[p].payload,
                   amount |-> proc[p].amount]
<1>1. r \in Return /\ k \in Key /\ saved[r][k] = None /\ row \in SettlementKept
  BY DEF PrepareSettlement, Found, ClaimInv, Requests, RequestKept, SettlementKept
<1>2. PICK s \in Settlement :
        /\ settlement[s].status = "ABSENT"
        /\ settlement' = [settlement EXCEPT ![s] = row]
        /\ saved' = [saved EXCEPT ![r][k] = s]
        /\ owed' = owed
  BY DEF PrepareSettlement
<1>3. row.status = "DRAFT"
  OBVIOUS
<1> HIDE DEF r, k, row
<1>4. Tables'
  BY <1>1, <1>2 DEF ClaimInv, Tables
<1>5. /\ settlement'[s] = row /\ saved'[r][k] = s
      /\ \A t \in Settlement : t # s => settlement'[t] = settlement[t]
      /\ \A q \in Return, l \in Key : q # r \/ l # k => saved'[q][l] = saved[q][l]
  BY <1>1, <1>2 DEF ClaimInv, Tables
<1>6. s # None /\ \A q \in Return, l \in Key : saved[q][l] # s
  BY <1>2, QualityAssumption DEF ClaimInv, OneToOne, Named
<1>7. \A t \in Settlement : settlement'[t].status # "ABSENT" <=> Named(t)'
  <2>1. Named(s)' /\ settlement'[s].status # "ABSENT"
    BY <1>1, <1>3, <1>5 DEF Named
  <2>2. ASSUME NEW t \in Settlement, t # s
        PROVE  settlement'[t].status # "ABSENT" <=> Named(t)'
    <3>1. t # None
      BY QualityAssumption
    <3>2. Named(t)' <=> Named(t)
      BY <1>1, <1>5, <2>2, <3>1 DEF Named
    <3>. QED
      BY <1>5, <2>2, <3>2 DEF ClaimInv, OneToOne
  <2>. QED
    BY <2>1, <2>2
<1>8. \A q, x \in Return : \A l, m \in Key :
         saved'[q][l] = saved'[x][m] /\ saved'[q][l] # None => q = x /\ l = m
  BY <1>1, <1>5, <1>6 DEF ClaimInv, OneToOne
<1>9. OwedOnce'
  BY <1>2, <1>3, <1>5 DEF ClaimInv, OwedOnce
<1>. QED
  BY <1>4, <1>7, <1>8, <1>9 DEF OneToOne

\* A draft becomes posted, with its amount owed if it is cash or credit.
LEMMA PostKeeps ==
    ASSUME ClaimInv, NEW p \in Process, PostNonInventory(p) \/ PostInventory(p)
    PROVE  Tables' /\ OneToOne' /\ OwedOnce'
<1> DEFINE s == proc[p].id
           due == IF settlement[s].payload.type \in {"CASH", "CREDIT"} THEN settlement[s].amount
                                                                       ELSE 0
<1>1. /\ s \in Settlement /\ settlement[s].status = "DRAFT"
      /\ settlement' = [settlement EXCEPT ![s].status = "POSTED"]
      /\ saved' = saved
  BY DEF PostNonInventory, PostInventory, DraftSettlement, ClaimInv, Requests, RequestKept
<1>2. owed[s] = 0 /\ settlement[s].amount \in Nat
  BY <1>1 DEF ClaimInv, OwedOnce, Tables, SettlementKept
<1>3. owed' = [owed EXCEPT ![s] = due]
  <2>1. CASE PostNonInventory(p)
    <3>1. owed' = [owed EXCEPT ![s] = IF settlement[s].payload.type \in {"CASH", "CREDIT"}
                                      THEN owed[s] + settlement[s].amount ELSE owed[s]]
      BY <2>1 DEF PostNonInventory
    <3>2. owed[s] + settlement[s].amount = settlement[s].amount
      BY <1>2
    <3>. QED
      BY <1>2, <3>1, <3>2
  <2>2. CASE PostInventory(p)
    <3>1. owed' = owed /\ settlement[s].payload.type \notin {"CASH", "CREDIT"}
      BY <2>2 DEF PostInventory, NeedsStock
    <3>. QED
      BY <1>1, <1>2, <3>1 DEF ClaimInv, Tables
  <2>. QED
    BY <2>1, <2>2
<1> HIDE DEF s
<1>4. /\ settlement' \in [Settlement -> SettlementKept]
      /\ settlement'[s].status = "POSTED"
      /\ settlement'[s].payload = settlement[s].payload
      /\ settlement'[s].amount = settlement[s].amount
      /\ \A t \in Settlement : t # s => settlement'[t] = settlement[t]
  BY <1>1 DEF ClaimInv, Tables, SettlementKept
<1>5. owed' = [t \in Settlement |-> owed'[t]] /\ owed'[s] = due
      /\ \A t \in Settlement : t # s => owed'[t] = owed[t]
  BY <1>1, <1>3 DEF ClaimInv, Tables
<1>6. Tables'
  BY <1>1, <1>4, <1>5 DEF ClaimInv, Tables
<1>7. OneToOne'
  BY <1>1, <1>4 DEF ClaimInv, OneToOne, Named
<1>8. OwedOnce'
  BY <1>4, <1>5 DEF ClaimInv, OwedOnce
<1>. QED
  BY <1>6, <1>7, <1>8

\* At the start there are no settlements.
LEMMA ClaimInit == Init => ClaimInv
<1> SUFFICES ASSUME Init
             PROVE  ClaimInv
  OBVIOUS
<1>1. NoPayload \in PayloadRow
  BY DEF NoPayload, PayloadRow
<1>2. Tables
  BY <1>1 DEF Init, Tables, SettlementKept, NoSettlement
<1>3. OneToOne
  BY QualityAssumption DEF Init, OneToOne, Named, NoSettlement
<1>4. OwedOnce
  BY DEF Init, OwedOnce, NoSettlement
<1>5. Requests
  BY IdleKept DEF Init, Requests
<1>. QED
  BY <1>2, <1>3, <1>4, <1>5 DEF ClaimInv

\* The invariant of settlements.
THEOREM ClaimInvariant == Spec => []ClaimInv
<1>1. ClaimInv /\ [Next]_vars => ClaimInv'
  <2> SUFFICES ASSUME ClaimInv, [Next]_vars
               PROVE  ClaimInv'
    OBVIOUS
  <2>1. CASE UNCHANGED <<settlement, saved, owed>>
    BY <2>1, RequestsStep DEF ClaimInv, Tables, OneToOne, Named, OwedOnce
  <2>. QED
    BY <2>1, WriteKinds, PrepareKeeps, PostKeeps, RequestsStep DEF ClaimInv
<1>. QED
  BY <1>1, ClaimInit, PTL DEF Spec

\* Each settlement was prepared under one key of its claim, however requests are
\* repeated, run side by side or end on the way (prepareSettlement of QualityService).
THEOREM SettlementHasOneKey == Spec => []SettlementPerKey
<1>1. ASSUME ClaimInv
      PROVE  SettlementPerKey
  <2> SUFFICES ASSUME NEW s \in Settlement, settlement[s].status # "ABSENT"
               PROVE  Cardinality({x \in Return \X Key : saved[x[1]][x[2]] = s}) = 1
    BY DEF SettlementPerKey
  <2>1. PICK r \in Return, k \in Key : saved[r][k] = s
    BY <1>1 DEF ClaimInv, OneToOne, Named
  <2>2. \A q \in Return, l \in Key : saved[q][l] = s => q = r /\ l = k
    BY <1>1, <2>1, QualityAssumption DEF ClaimInv, OneToOne
  <2>3. {x \in Return \X Key : saved[x[1]][x[2]] = s} = {<<r, k>>}
    BY <2>1, <2>2
  <2>. QED
    BY <2>3, FS_Singleton
<1>. QED
  BY <1>1, ClaimInvariant, PTL

\* A supplier owes the amount of a posted cash or credit settlement, once, and
\* nothing for a draft (postNonInventorySettlement).
THEOREM SettlementsAreOwedOnce == Spec => []OwedOnce
<1>1. ClaimInv => OwedOnce
  BY DEF ClaimInv
<1>. QED
  BY <1>1, ClaimInvariant, PTL

(***************************************************************************)
(* Sums of settlements and inspections.                                    *)
(*                                                                         *)
(* Both are written as functions of the table, so that a step is the       *)
(* change from one table to the next.                                      *)
(***************************************************************************)

Settlements == [Settlement -> SettlementRow]

Inspections == [Return -> [status : {"ABSENT", "DRAFT", "CONFIRMED"}, split : SplitRow]]

PostedIn(L) == {s \in Settlement : L[s].status = "POSTED"}

PostedForIn(L, r) == {s \in Settlement : L[s].status = "POSTED" /\ L[s].claim = r}

ConfirmedIn(D) == {r \in Return : D[r].status = "CONFIRMED"}

StockOfRow(row) ==
    IF NeedsStock(row.payload) THEN SettlementMoves(row.payload) ELSE [t \in StockStatus |-> 0]

Amounts(L) == [s \in Settlement |-> L[s].amount]

\* What settlements and inspections move of one stock status.
Settling(L, t) == [s \in Settlement |-> StockOfRow(L[s])[t]]

Splitting(D, t) == [r \in Return |-> SplitMoves(r, D[r].split)[t]]

ComesTo(L, r) == Total(Restrict(Amounts(L), PostedForIn(L, r)))

SettlingMoves(L, t) == Total(Restrict(Settling(L, t), PostedIn(L)))

SplittingMoves(D, t) == Total(Restrict(Splitting(D, t), ConfirmedIn(D)))

\* The sums of the properties are these.
LEMMA SumsOfTables ==
    /\ \A r : PostedAmount(r) = ComesTo(settlement, r)
    /\ \A t : Total([s \in PostedSettlements |-> StockOf(s)[t]]) = SettlingMoves(settlement, t)
    /\ \A t : Total([r \in Confirmed |-> SplitMoves(r, inspection[r].split)[t]])
                = SplittingMoves(inspection, t)
<1>1. ASSUME NEW r
      PROVE  PostedAmount(r) = ComesTo(settlement, r)
  <2>1. Restrict(Amounts(settlement), PostedForIn(settlement, r))
          = [s \in PostedFor(r) |-> settlement[s].amount]
    BY DEF Restrict, Amounts, PostedForIn, PostedFor
  <2>. QED
    BY <2>1 DEF PostedAmount, ComesTo
<1>2. ASSUME NEW t
      PROVE  /\ Total([s \in PostedSettlements |-> StockOf(s)[t]]) = SettlingMoves(settlement, t)
             /\ Total([r \in Confirmed |-> SplitMoves(r, inspection[r].split)[t]])
                  = SplittingMoves(inspection, t)
  <2>1. \A s : StockOf(s) = StockOfRow(settlement[s])
    BY DEF StockOf, StockOfRow
  <2>2. Restrict(Settling(settlement, t), PostedIn(settlement))
          = [s \in PostedSettlements |-> StockOf(s)[t]]
    BY <2>1 DEF Restrict, Settling, PostedIn, PostedSettlements
  <2>3. Restrict(Splitting(inspection, t), ConfirmedIn(inspection))
          = [r \in Confirmed |-> SplitMoves(r, inspection[r].split)[t]]
    BY DEF Restrict, Splitting, ConfirmedIn, Confirmed
  <2>. QED
    BY <2>2, <2>3 DEF SettlingMoves, SplittingMoves
<1>. QED
  BY <1>1, <1>2

\* The payloads of settlements are well formed.
LEMMA Payloads == NoPayload \in PayloadRow /\ Payload \cup {NoPayload} \subseteq PayloadRow
<1>1. NoPayload \in PayloadRow
  BY DEF NoPayload, PayloadRow
<1>. QED
  BY <1>1, QualityAssumption

\* Movements are whole numbers.
LEMMA MovesInt ==
    ASSUME NEW t \in StockStatus
    PROVE  /\ \A row \in SettlementRow : StockOfRow(row)[t] \in Int
           /\ \A r \in Return, split \in SplitRow : SplitMoves(r, split)[t] \in Int
<1>1. ASSUME NEW row \in SettlementRow
      PROVE  StockOfRow(row)[t] \in Int
  <2>1. row.payload \in PayloadRow
    BY Payloads DEF SettlementRow
  <2> DEFINE payload == row.payload
             scrapped == IF payload.type = "SCRAP" THEN payload.quantity ELSE payload.dispose
  <2>2. scrapped \in Nat /\ payload.quantity \in Nat
    BY <2>1 DEF PayloadRow
  <2> HIDE DEF payload
  <2>3. SettlementMoves(payload)[t] \in Int
    BY <2>2 DEF SettlementMoves
  <2>. QED
    BY <2>3 DEF StockOfRow, payload
<1>2. ASSUME NEW r \in Return, NEW split \in SplitRow
      PROVE  SplitMoves(r, split)[t] \in Int
  <2>1. Returned[r] \in Nat
    BY QualityAssumption
  <2>2. /\ split.good \in Nat /\ split.defective \in Nat /\ split.claim \in Nat
        /\ split.scrap \in Nat
    BY DEF SplitRow
  <2>. QED
    BY <2>1, <2>2 DEF SplitMoves, StockStatus
<1>. QED
  BY <1>1, <1>2

\* What the posted settlements of a claim come to is a quantity.
LEMMA ComesToNat ==
    ASSUME NEW L \in Settlements, NEW r
    PROVE  ComesTo(L, r) \in Nat
<1>1. IsFiniteSet(PostedForIn(L, r))
  BY QualityAssumption, FS_Subset DEF PostedForIn
<1>2. Restrict(Amounts(L), PostedForIn(L, r)) \in [PostedForIn(L, r) -> Nat]
  BY DEF Restrict, Amounts, PostedForIn, Settlements, SettlementRow
<1>. QED
  BY <1>1, <1>2, TotalNat DEF ComesTo

\* One settlement changes.
LEMMA OneSettlement ==
    ASSUME NEW L \in Settlements, NEW M \in Settlements, NEW x \in Settlement,
           M = [L EXCEPT ![x] = M[x]]
    PROVE  /\ \A r : ComesTo(M, r) = ComesTo(L, r)
                       + (IF x \in PostedForIn(M, r) THEN M[x].amount ELSE 0)
                       - (IF x \in PostedForIn(L, r) THEN L[x].amount ELSE 0)
           /\ \A t \in StockStatus :
                SettlingMoves(M, t) = SettlingMoves(L, t)
                       + (IF x \in PostedIn(M) THEN StockOfRow(M[x])[t] ELSE 0)
                       - (IF x \in PostedIn(L) THEN StockOfRow(L[x])[t] ELSE 0)
<1>0. IsFiniteSet(Settlement)
  BY QualityAssumption
<1>1. ASSUME NEW r
      PROVE  ComesTo(M, r) = ComesTo(L, r)
                       + (IF x \in PostedForIn(M, r) THEN M[x].amount ELSE 0)
                       - (IF x \in PostedForIn(L, r) THEN L[x].amount ELSE 0)
  <2> DEFINE f == Amounts(L)
             g == Amounts(M)
  <2>1. /\ f \in [Settlement -> Int] /\ g \in [Settlement -> Int]
        /\ f[x] = L[x].amount /\ g[x] = M[x].amount
    BY DEF Amounts, Settlements, SettlementRow
  <2>4. g = [f EXCEPT ![x] = g[x]]
    BY DEF Amounts, Settlements
  <2>2. /\ PostedForIn(L, r) \in SUBSET Settlement
        /\ PostedForIn(M, r) \in SUBSET Settlement
        /\ PostedForIn(M, r) \ {x} = PostedForIn(L, r) \ {x}
    BY DEF PostedForIn, Settlements
  <2> HIDE DEF f, g
  <2>3. Total(Restrict(g, PostedForIn(M, r))) = Total(Restrict(f, PostedForIn(L, r)))
           + (IF x \in PostedForIn(M, r) THEN g[x] ELSE 0)
           - (IF x \in PostedForIn(L, r) THEN f[x] ELSE 0)
    BY <1>0, <2>1, <2>2, <2>4, TotalOfGroup
  <2>. QED
    BY <2>1, <2>3 DEF ComesTo, f, g
<1>2. ASSUME NEW t \in StockStatus
      PROVE  SettlingMoves(M, t) = SettlingMoves(L, t)
                       + (IF x \in PostedIn(M) THEN StockOfRow(M[x])[t] ELSE 0)
                       - (IF x \in PostedIn(L) THEN StockOfRow(L[x])[t] ELSE 0)
  <2> DEFINE f == Settling(L, t)
             g == Settling(M, t)
  <2>1. /\ f \in [Settlement -> Int] /\ g \in [Settlement -> Int]
        /\ f[x] = StockOfRow(L[x])[t] /\ g[x] = StockOfRow(M[x])[t]
    BY MovesInt DEF Settling, Settlements
  <2>2. g = [f EXCEPT ![x] = g[x]]
    BY DEF Settling, Settlements
  <2>3. /\ PostedIn(L) \in SUBSET Settlement /\ PostedIn(M) \in SUBSET Settlement
        /\ PostedIn(M) \ {x} = PostedIn(L) \ {x}
    BY DEF PostedIn, Settlements
  <2> HIDE DEF f, g
  <2>4. Total(Restrict(g, PostedIn(M))) = Total(Restrict(f, PostedIn(L)))
           + (IF x \in PostedIn(M) THEN g[x] ELSE 0)
           - (IF x \in PostedIn(L) THEN f[x] ELSE 0)
    BY <1>0, <2>1, <2>2, <2>3, TotalOfGroup
  <2>. QED
    BY <2>1, <2>4 DEF SettlingMoves, f, g
<1>. QED
  BY <1>1, <1>2

\* One inspection changes.
LEMMA OneInspection ==
    ASSUME NEW D \in Inspections, NEW E \in Inspections, NEW x \in Return,
           E = [D EXCEPT ![x] = E[x]], NEW t \in StockStatus
    PROVE  SplittingMoves(E, t) = SplittingMoves(D, t)
              + (IF x \in ConfirmedIn(E) THEN SplitMoves(x, E[x].split)[t] ELSE 0)
              - (IF x \in ConfirmedIn(D) THEN SplitMoves(x, D[x].split)[t] ELSE 0)
<1> DEFINE f == Splitting(D, t)
           g == Splitting(E, t)
<1>1. /\ f \in [Return -> Int] /\ g \in [Return -> Int]
      /\ f[x] = SplitMoves(x, D[x].split)[t] /\ g[x] = SplitMoves(x, E[x].split)[t]
  BY MovesInt DEF Splitting, Inspections
<1>2. g = [f EXCEPT ![x] = g[x]]
  BY DEF Splitting, Inspections
<1>3. /\ ConfirmedIn(D) \in SUBSET Return /\ ConfirmedIn(E) \in SUBSET Return
      /\ ConfirmedIn(E) \ {x} = ConfirmedIn(D) \ {x}
  BY DEF ConfirmedIn, Inspections
<1> HIDE DEF f, g
<1>4. Total(Restrict(g, ConfirmedIn(E))) = Total(Restrict(f, ConfirmedIn(D)))
         + (IF x \in ConfirmedIn(E) THEN g[x] ELSE 0)
         - (IF x \in ConfirmedIn(D) THEN f[x] ELSE 0)
  BY <1>1, <1>2, <1>3, QualityAssumption, TotalOfGroup
<1>. QED
  BY <1>1, <1>4 DEF SplittingMoves, f, g

\* The movements of inspections and settlements are whole numbers.
LEMMA MovesAreInt ==
    ASSUME NEW t \in StockStatus
    PROVE  /\ \A L \in Settlements : SettlingMoves(L, t) \in Int
           /\ \A D \in Inspections : SplittingMoves(D, t) \in Int
<1>1. ASSUME NEW L \in Settlements
      PROVE  SettlingMoves(L, t) \in Int
  <2>1. IsFiniteSet(PostedIn(L))
    BY QualityAssumption, FS_Subset DEF PostedIn
  <2>2. Restrict(Settling(L, t), PostedIn(L)) \in [PostedIn(L) -> Int]
    BY MovesInt DEF Restrict, Settling, PostedIn, Settlements
  <2>. QED
    BY <2>1, <2>2, TotalInt DEF SettlingMoves
<1>2. ASSUME NEW D \in Inspections
      PROVE  SplittingMoves(D, t) \in Int
  <2>1. IsFiniteSet(ConfirmedIn(D))
    BY QualityAssumption, FS_Subset DEF ConfirmedIn
  <2>2. Restrict(Splitting(D, t), ConfirmedIn(D)) \in [ConfirmedIn(D) -> Int]
    BY MovesInt DEF Restrict, Splitting, ConfirmedIn, Inspections
  <2>. QED
    BY <2>1, <2>2, TotalInt DEF SplittingMoves
<1>. QED
  BY <1>1, <1>2

(***************************************************************************)
(* Stock and settled amounts.                                              *)
(***************************************************************************)

\* A replacement names its batch.
Complete(payload) == payload.type = "REPLACEMENT" => payload.batch \in BatchNo

\* A settlement that exists is one of a claim.
Prepared ==
    \A s \in Settlement : settlement[s].status # "ABSENT" =>
        settlement[s].claim \in Return /\ Complete(settlement[s].payload)

\* A request that posts has read no more as settled than what was posted.
RequestHolds(row) ==
    /\ row \in ProcRow
    /\ row.op \in {"create", "confirm"} => row.id \in Return
    /\ row.op = "prepare" => row.id \in Return /\ Complete(row.payload)
    /\ row.op \in {"fetch", "post"} =>
          row.id \in Settlement /\ settlement[row.id].status # "ABSENT"
    /\ row.op = "post" => row.seen <= ComesTo(settlement, settlement[row.id].claim)

Handlers == proc \in [Process -> ProcRow] /\ \A p \in Process : RequestHolds(proc[p])

Rows ==
    /\ inspection \in Inspections
    /\ stock \in [StockStatus -> Nat]
    /\ restored \in [Return -> Nat]
    /\ issue \in [Return -> {"ABSENT", "OPEN", "CLAIMED", "RESOLVED"}]
    /\ claim \in [Return -> ClaimRow]
    /\ settlement \in Settlements
    /\ batches \subseteq BatchNo

Pending(t) == IF t = "QC_PENDING" THEN Total(Returned) ELSE 0

\* Each stock status holds what inspections and settlements moved.
StockMoved ==
    \A t \in StockStatus :
        stock[t] = Pending(t) + SplittingMoves(inspection, t) + SettlingMoves(settlement, t)

GoodRestored ==
    \A r \in Return : restored[r] = IF r \in Confirmed THEN inspection[r].split.good ELSE 0

Settled == \A r \in Return : claim[r].settled <= ComesTo(settlement, r)

QualityBooks == Rows /\ Prepared /\ Handlers /\ StockMoved /\ GoodRestored /\ Settled

\* What was to be inspected at the start is a quantity.
LEMMA PendingNat == \A t \in StockStatus : Pending(t) \in Nat
<1>1. Returned \in [Return -> Nat] /\ IsFiniteSet(Return)
  BY QualityAssumption
<1>. QED
  BY <1>1, TotalNat DEF Pending

\* What a step keeps of the books while it writes none of them.
LEMMA BooksKept ==
    ASSUME QualityBooks, UNCHANGED <<inspections, stock, batches, claims>>, Handlers'
    PROVE  QualityBooks'
<1>1. UNCHANGED <<inspection, restored, issue, stock, batches, claim, settlement>>
  BY DEF inspections, claims
<1>2. Rows' /\ Prepared' /\ GoodRestored'
  BY <1>1 DEF QualityBooks, Rows, Prepared, GoodRestored, Confirmed
<1>3. StockMoved' /\ Settled'
  BY <1>1 DEF QualityBooks, StockMoved, Settled
<1>. QED
  BY <1>2, <1>3 DEF QualityBooks

\* A request holds as long as settlements stay and come to no less.
Grow(L, M) ==
    /\ M \in Settlements
    /\ \A s \in Settlement : L[s].status # "ABSENT" =>
          M[s].status # "ABSENT" /\ M[s].claim = L[s].claim
    /\ \A r : ComesTo(L, r) <= ComesTo(M, r)

LEMMA RequestStays ==
    ASSUME QualityBooks, Grow(settlement, settlement'), NEW row, RequestHolds(row)
    PROVE  RequestHolds(row)'
<1>1. row.op \in {"fetch", "post"} =>
        row.id \in Settlement /\ settlement'[row.id].status # "ABSENT"
          /\ settlement'[row.id].claim = settlement[row.id].claim
  BY DEF RequestHolds, Grow
<1>2. ASSUME row.op = "post"
      PROVE  row.seen <= ComesTo(settlement', settlement'[row.id].claim)
  <2> DEFINE r == settlement[row.id].claim
             before == ComesTo(settlement, r)
             after == ComesTo(settlement', r)
  <2>1. row.seen <= before /\ before <= after /\ row.seen \in Nat
    BY <1>2 DEF RequestHolds, Grow, ProcRow
  <2>2. before \in Nat /\ after \in Nat
    BY ComesToNat DEF QualityBooks, Rows, Grow
  <2>3. settlement'[row.id].claim = r
    BY <1>1, <1>2
  <2> HIDE DEF before, after
  <2>4. row.seen <= after
    BY <2>1, <2>2
  <2>. QED
    BY <2>3, <2>4 DEF after
<1>. QED
  BY <1>1, <1>2 DEF RequestHolds

\* A table that stays grows.
LEMMA GrowStays ==
    ASSUME QualityBooks, settlement' = settlement
    PROVE  Grow(settlement, settlement')
<1>1. \A r : ComesTo(settlement, r) <= ComesTo(settlement, r)
  BY ComesToNat DEF QualityBooks, Rows
<1>. QED
  BY <1>1 DEF Grow, QualityBooks, Rows

\* Requests after a step: one of them changes, the rest stay.
LEMMA HandlersWith ==
    ASSUME QualityBooks, Grow(settlement, settlement'), NEW p, NEW row,
           row \in ProcRow, RequestHolds(row)', proc' = [proc EXCEPT ![p] = row]
    PROVE  Handlers'
<1>1. ASSUME NEW q \in Process
      PROVE  proc'[q] \in ProcRow /\ RequestHolds(proc[q])'
  <2>1. proc[q] \in ProcRow /\ RequestHolds(proc[q]) /\ proc \in [Process -> ProcRow]
    BY DEF QualityBooks, Handlers
  <2>2. PICK old : old = proc[q]
    OBVIOUS
  <2>3. RequestHolds(old)'
    BY <2>1, <2>2, RequestStays
  <2>4. PICK after : after = proc'[q]
    OBVIOUS
  <2>5. after = row \/ after = old
    BY <2>1, <2>2, <2>4
  <2>6. after \in ProcRow /\ RequestHolds(after)'
    BY <2>1, <2>2, <2>3, <2>5
  <2>. QED
    BY <2>4, <2>6 DEF RequestHolds
<1>2. proc' = [q \in Process |-> proc'[q]]
  BY DEF QualityBooks, Handlers
<1>. QED
  BY <1>1, <1>2 DEF Handlers

LEMMA HandlersAfter ==
    ASSUME QualityBooks, Grow(settlement, settlement'), NEW p, NEW row,
           RequestHolds(row), proc' = [proc EXCEPT ![p] = row]
    PROVE  Handlers'
<1>1. row \in ProcRow /\ RequestHolds(row)'
  BY RequestStays DEF RequestHolds
<1>. QED
  BY <1>1, HandlersWith

\* A request at rest, and what it becomes when it has read what it needs.
LEMMA IdleHolds == RequestHolds(IdleProc)
<1>1. IdleProc \in ProcRow
  BY DEF IdleProc, ProcRow, NoSplit, SplitRow
<1>. QED
  BY <1>1 DEF RequestHolds, IdleProc

LEMMA LoadedHolds ==
    ASSUME NEW r \in Return
    PROVE  /\ \A split \in Splits(r) :
                RequestHolds([IdleProc EXCEPT !.op = "create", !.id = r, !.split = split])
           /\ RequestHolds([IdleProc EXCEPT !.op = "confirm", !.id = r])
           /\ \A k \in Key, payload \in Payload : FieldsGiven(payload) =>
                RequestHolds([IdleProc EXCEPT !.op = "prepare", !.id = r, !.key = k,
                                 !.payload = payload, !.amount = AmountOf(payload)])
<1>0. IdleProc \in ProcRow
  BY IdleHolds DEF RequestHolds
<1>1. ASSUME NEW split \in Splits(r)
      PROVE  RequestHolds([IdleProc EXCEPT !.op = "create", !.id = r, !.split = split])
  <2>1. Returned[r] \in Nat
    BY QualityAssumption
  <2>2. split \in SplitRow
    BY <2>1 DEF Splits, SplitRow
  <2>. QED
    BY <1>0, <2>2 DEF RequestHolds, IdleProc, ProcRow
<1>2. RequestHolds([IdleProc EXCEPT !.op = "confirm", !.id = r])
  BY <1>0 DEF RequestHolds, IdleProc, ProcRow
<1>3. ASSUME NEW k \in Key, NEW payload \in Payload, FieldsGiven(payload)
      PROVE  RequestHolds([IdleProc EXCEPT !.op = "prepare", !.id = r, !.key = k,
                              !.payload = payload, !.amount = AmountOf(payload)])
  <2>1. payload \in PayloadRow
    BY QualityAssumption
  <2>2. Complete(payload)
    BY <1>3, <2>1 DEF FieldsGiven, Complete, PayloadRow
  <2>3. AmountOf(payload) \in Nat
    BY <2>1, AmountType
  <2>. QED
    BY <1>0, <2>2, <2>3 DEF RequestHolds, IdleProc, ProcRow
<1>. QED
  BY <1>1, <1>2, <1>3

\* A request that ends.
LEMMA EndsHolds ==
    ASSUME QualityBooks, Grow(settlement, settlement'), NEW p, Ends(p)
    PROVE  Handlers'
BY IdleHolds, HandlersAfter DEF Ends

\* A request begins.
LEMMA LoadsKeeps ==
    ASSUME QualityBooks, NEW p, NEW row, RequestHolds(row), Loads(p, row),
           UNCHANGED <<inspections, stock, batches, claims>>
    PROVE  QualityBooks'
<1>1. Grow(settlement, settlement')
  BY GrowStays DEF claims
<1>2. Handlers'
  BY <1>1, HandlersAfter DEF Loads
<1>. QED
  BY <1>2, BooksKept

\* A request goes on to a settlement that exists.
LEMMA FoundKeeps ==
    ASSUME ClaimInv, QualityBooks, NEW p \in Process, FindPrepared(p)
    PROVE  QualityBooks'
<1> DEFINE s == saved[proc[p].id][proc[p].key]
           row == [proc[p] EXCEPT !.op = "fetch", !.id = s]
<1>1. /\ proc[p].op = "prepare" /\ s # None
      /\ proc' = [proc EXCEPT ![p].op = "fetch", ![p].id = s]
      /\ UNCHANGED <<inspections, stock, batches, claims>>
  BY DEF FindPrepared, Found
<1>2. proc[p].id \in Return /\ proc[p].key \in Key
  BY <1>1 DEF ClaimInv, Requests, RequestKept
<1>3. s \in Settlement /\ Named(s)
  BY <1>1, <1>2 DEF ClaimInv, Tables, Named
<1>4. settlement[s].status # "ABSENT"
  BY <1>3 DEF ClaimInv, OneToOne
<1> HIDE DEF s
<1>5. proc \in [Process -> ProcRow] /\ proc[p] \in ProcRow
  BY DEF QualityBooks, Handlers
<1>6. RequestHolds(row)
  BY <1>3, <1>4, <1>5 DEF RequestHolds, ProcRow
<1>7. proc' = [proc EXCEPT ![p] = row]
  BY <1>1, <1>5
<1>8. Handlers'
  BY <1>1, <1>6, <1>7, GrowStays, HandlersAfter DEF claims
<1>. QED
  BY <1>1, <1>8, BooksKept

\* A settlement and its claim are read.
LEMMA FetchKeeps ==
    ASSUME QualityBooks, NEW p \in Process, FetchSettlement(p)
    PROVE  QualityBooks'
<1> DEFINE s == proc[p].id
           r == settlement[s].claim
           n == claim[r].settled
           row == [proc[p] EXCEPT !.op = "post", !.seen = n]
<1>1. proc[p].op = "fetch" /\ UNCHANGED <<inspections, stock, batches, claims>>
  BY DEF FetchSettlement
<1>2. /\ proc \in [Process -> ProcRow] /\ proc[p] \in ProcRow
      /\ s \in Settlement /\ settlement[s].status # "ABSENT"
  BY <1>1 DEF QualityBooks, Handlers, RequestHolds
<1>3. r \in Return
  BY <1>2 DEF QualityBooks, Prepared
<1>4. n \in Nat /\ n <= ComesTo(settlement, r)
  BY <1>3 DEF QualityBooks, Settled, Rows, ClaimRow
<1>5. Grow(settlement, settlement')
  BY <1>1, GrowStays DEF claims
<1>6. CASE Ends(p)
  BY <1>1, <1>5, <1>6, EndsHolds, BooksKept
<1>7. CASE proc' = [proc EXCEPT ![p].op = "post", ![p].seen = n]
  <2> HIDE DEF n
  <2>1. proc' = [proc EXCEPT ![p] = row]
    BY <1>2, <1>7
  <2>2. /\ row \in ProcRow /\ row.op = "post" /\ row.id = s /\ row.seen = n
    BY <1>2, <1>4 DEF ProcRow
  <2> HIDE DEF row
  <2>3. RequestHolds(row)
    BY <1>2, <1>4, <2>2 DEF RequestHolds
  <2>. QED
    BY <1>1, <1>5, <2>1, <2>3, HandlersAfter, BooksKept
<1>. QED
  BY <1>6, <1>7 DEF FetchSettlement

\* An inspection is created where there is none: it has moved nothing.
LEMMA CreateKeeps ==
    ASSUME QualityBooks, NEW p \in Process, CreateInspection(p)
    PROVE  QualityBooks'
<1> DEFINE r == proc[p].id
           row == [status |-> "DRAFT", split |-> proc[p].split]
<1>1. /\ proc[p].op = "create" /\ inspection[r].status = "ABSENT"
      /\ inspection' = [inspection EXCEPT ![r] = row]
      /\ UNCHANGED <<stock, restored, issue, batches, claim, settlement>>
      /\ Ends(p)
  BY DEF CreateInspection, claims
<1>2. r \in Return /\ proc[p] \in ProcRow
  BY <1>1 DEF QualityBooks, Handlers, RequestHolds
<1>3. row \in [status : {"ABSENT", "DRAFT", "CONFIRMED"}, split : SplitRow] /\ row.status = "DRAFT"
  BY <1>2 DEF ProcRow
<1> HIDE DEF r, row
<1>4. inspection \in Inspections /\ inspection' \in Inspections
  BY <1>1, <1>2, <1>3 DEF QualityBooks, Rows, Inspections
<1>5. /\ inspection'[r] = row
      /\ \A q \in Return : q # r => inspection'[q] = inspection[q]
  BY <1>1, <1>2, <1>4 DEF Inspections
<1>6. \A t \in StockStatus : SplittingMoves(inspection', t) = SplittingMoves(inspection, t)
  <2> SUFFICES ASSUME NEW t \in StockStatus
               PROVE  SplittingMoves(inspection', t) = SplittingMoves(inspection, t)
    OBVIOUS
  <2>1. r \notin ConfirmedIn(inspection) /\ r \notin ConfirmedIn(inspection')
    BY <1>1, <1>3, <1>5 DEF ConfirmedIn
  <2>2. inspection' = [inspection EXCEPT ![r] = inspection'[r]]
    BY <1>1, <1>5
  <2>3. SplittingMoves(inspection', t) = SplittingMoves(inspection, t) + 0 - 0
    BY <1>2, <1>4, <2>1, <2>2, OneInspection
  <2>. QED
    BY <1>4, <2>3, MovesAreInt
<1>7. StockMoved'
  BY <1>1, <1>6 DEF QualityBooks, StockMoved
<1>8. GoodRestored'
  BY <1>1, <1>3, <1>5 DEF QualityBooks, GoodRestored, Confirmed
<1>9. Handlers'
  BY <1>1, GrowStays, EndsHolds
<1>10. Rows' /\ Prepared' /\ Settled'
  BY <1>1, <1>4 DEF QualityBooks, Rows, Prepared, Settled
<1>. QED
  BY <1>7, <1>8, <1>9, <1>10 DEF QualityBooks

\* Stock after a movement.
LEMMA MoveKeeps ==
    ASSUME Rows, NEW change, \A t \in StockStatus : change[t] \in Int, Move(change)
    PROVE  /\ stock' \in [StockStatus -> Nat]
           /\ \A t \in StockStatus : stock'[t] = stock[t] + change[t]
<1>1. /\ stock \in [StockStatus -> Nat]
      /\ stock' = [t \in StockStatus |-> stock[t] + change[t]]
      /\ \A t \in StockStatus : stock'[t] >= 0
  BY DEF Rows, Move
<1>2. ASSUME NEW t \in StockStatus
      PROVE  stock'[t] = stock[t] + change[t] /\ stock'[t] \in Nat
  <2>1. stock'[t] = stock[t] + change[t] /\ stock[t] \in Nat /\ change[t] \in Int
    BY <1>1
  <2>. QED
    BY <1>1, <2>1
<1>. QED
  BY <1>1, <1>2

\* A draft inspection is confirmed: it moves what it was split into, once.
LEMMA ConfirmKeeps ==
    ASSUME QualityBooks, NEW p \in Process, ConfirmInspection(p)
    PROVE  QualityBooks'
<1> DEFINE r == proc[p].id
           split == inspection[r].split
           new == [status |-> "SUBMITTED", quantity |-> split.claim,
                   claimed |-> split.claim * Cost, settled |-> 0]
<1>1. /\ proc[p].op = "confirm" /\ inspection[r].status = "DRAFT"
      /\ Move(SplitMoves(r, split))
      /\ restored' = [restored EXCEPT ![r] = @ + split.good]
      /\ issue' = [issue EXCEPT ![r] = IF Bad(split) = 0 THEN @
                                       ELSE IF split.claim > 0 THEN "CLAIMED" ELSE "OPEN"]
      /\ claim' = [claim EXCEPT ![r] = IF split.claim = 0 THEN @ ELSE new]
      /\ inspection' = [inspection EXCEPT ![r].status = "CONFIRMED"]
      /\ Ends(p)
      /\ UNCHANGED <<settlement, batches>>
  BY DEF ConfirmInspection, Confirmable
<1>2. r \in Return
  BY <1>1 DEF QualityBooks, Handlers, RequestHolds
<1>3. split \in SplitRow
  BY <1>2 DEF QualityBooks, Rows, Inspections
<1>4. new \in ClaimRow /\ new.settled = 0
  <2>1. split.claim \in Nat /\ Cost \in Nat
    BY <1>3, QualityAssumption DEF SplitRow
  <2>2. split.claim * Cost \in Nat
    BY <2>1
  <2>. QED
    BY <2>1, <2>2 DEF ClaimRow
<1>5. split.good \in Nat
  BY <1>3 DEF SplitRow
<1> HIDE DEF new
<1>6. /\ inspection \in Inspections /\ inspection' \in Inspections
      /\ inspection'[r].status = "CONFIRMED" /\ inspection'[r].split = split
      /\ \A q \in Return : q # r => inspection'[q] = inspection[q]
  BY <1>1, <1>2 DEF QualityBooks, Rows, Inspections
<1>7. \A t \in StockStatus : SplitMoves(r, split)[t] \in Int
  BY <1>2, <1>3, MovesInt
<1> HIDE DEF r, split
<1>8. /\ stock' \in [StockStatus -> Nat]
      /\ \A t \in StockStatus : stock'[t] = stock[t] + SplitMoves(r, split)[t]
  BY <1>1, <1>7, MoveKeeps DEF QualityBooks
<1>9. ASSUME NEW t \in StockStatus
      PROVE  stock'[t] = Pending(t) + SplittingMoves(inspection', t)
                            + SettlingMoves(settlement', t)
  <2> DEFINE n == SplitMoves(r, split)[t]
  <2>1. r \in ConfirmedIn(inspection') /\ r \notin ConfirmedIn(inspection)
    BY <1>1, <1>2, <1>6 DEF ConfirmedIn
  <2>2. inspection' = [inspection EXCEPT ![r] = inspection'[r]]
    BY <1>1, <1>6
  <2>3. SplittingMoves(inspection', t) = SplittingMoves(inspection, t) + n - 0
    BY <1>2, <1>6, <2>1, <2>2, OneInspection
  <2>4. stock[t] = Pending(t) + SplittingMoves(inspection, t) + SettlingMoves(settlement, t)
    BY DEF QualityBooks, StockMoved
  <2>5. /\ SplittingMoves(inspection, t) \in Int /\ SettlingMoves(settlement, t) \in Int
        /\ Pending(t) \in Int /\ n \in Int
    BY <1>6, <1>7, MovesAreInt, PendingNat DEF QualityBooks, Rows
  <2>6. stock'[t] = stock[t] + n /\ settlement' = settlement
    BY <1>1, <1>8
  <2> HIDE DEF n
  <2>. QED
    BY <2>3, <2>4, <2>5, <2>6
<1>10. GoodRestored'
  <2>1. restored[r] = 0 /\ restored \in [Return -> Nat]
    BY <1>1, <1>2 DEF QualityBooks, GoodRestored, Confirmed, Rows
  <2>2. restored'[r] = split.good /\ \A q \in Return : q # r => restored'[q] = restored[q]
    BY <1>1, <1>2, <1>5, <2>1
  <2>3. ASSUME NEW q \in Return
        PROVE  restored'[q] = IF q \in Confirmed' THEN inspection'[q].split.good ELSE 0
    <3>1. CASE q = r
      BY <1>2, <1>6, <2>2, <3>1 DEF Confirmed
    <3>2. CASE q # r
      BY <1>6, <2>2, <3>2 DEF QualityBooks, GoodRestored, Confirmed
    <3>. QED
      BY <3>1, <3>2
  <2>. QED
    BY <2>3 DEF GoodRestored
<1>11. claim' \in [Return -> ClaimRow] /\ Settled'
  <2>1. \A q \in Return : claim'[q] = claim[q] \/ claim'[q] = new
    BY <1>1, <1>2 DEF QualityBooks, Rows
  <2>2. claim' \in [Return -> ClaimRow]
    BY <1>1, <1>2, <1>4 DEF QualityBooks, Rows
  <2>3. \A q \in Return : ComesTo(settlement, q) \in Nat
    BY ComesToNat DEF QualityBooks, Rows
  <2>4. \A q \in Return : claim'[q].settled <= ComesTo(settlement, q)
    BY <1>4, <2>1, <2>3 DEF QualityBooks, Settled
  <2>. QED
    BY <1>1, <2>2, <2>4 DEF Settled
<1>12. restored' \in [Return -> Nat]
  BY <1>1, <1>2, <1>5 DEF QualityBooks, Rows
<1>13. issue' \in [Return -> {"ABSENT", "OPEN", "CLAIMED", "RESOLVED"}]
  BY <1>1, <1>2 DEF QualityBooks, Rows
<1>14. Rows' /\ Prepared'
  BY <1>1, <1>6, <1>8, <1>11, <1>12, <1>13 DEF QualityBooks, Rows, Prepared
<1>15. Handlers'
  BY <1>1, GrowStays, EndsHolds
<1>. QED
  BY <1>9, <1>10, <1>11, <1>14, <1>15 DEF QualityBooks, StockMoved

\* A settlement is saved as a draft of a claim: it comes to nothing yet.
LEMMA PrepareBooks ==
    ASSUME ClaimInv, QualityBooks, NEW p \in Process, PrepareSettlement(p)
    PROVE  QualityBooks'
<1> DEFINE new == [status |-> "DRAFT", claim |-> proc[p].id, payload |-> proc[p].payload,
                   amount |-> proc[p].amount]
<1>1. /\ proc[p].op = "prepare"
      /\ UNCHANGED <<inspection, restored, issue, stock, claim, batches>>
  BY DEF PrepareSettlement, inspections
<1>2. PICK s \in Settlement :
        /\ settlement[s].status = "ABSENT"
        /\ settlement' = [settlement EXCEPT ![s] = new]
        /\ proc' = [proc EXCEPT ![p].op = "fetch", ![p].id = s]
  BY DEF PrepareSettlement
<1>3. /\ proc \in [Process -> ProcRow] /\ proc[p] \in ProcRow
      /\ proc[p].id \in Return /\ Complete(proc[p].payload)
  BY <1>1 DEF QualityBooks, Handlers, RequestHolds
<1>4. /\ new \in SettlementRow /\ new.status = "DRAFT" /\ new.claim \in Return
      /\ Complete(new.payload)
  BY <1>3 DEF SettlementRow, ProcRow
<1> HIDE DEF new
<1>5. settlement \in Settlements /\ settlement' \in Settlements
  BY <1>2, <1>4 DEF QualityBooks, Rows, Settlements
<1>6. /\ settlement'[s] = new
      /\ \A q \in Settlement : q # s => settlement'[q] = settlement[q]
  BY <1>2, <1>5 DEF Settlements
<1>7. settlement' = [settlement EXCEPT ![s] = settlement'[s]]
  BY <1>2, <1>6
<1>8. /\ s \notin PostedIn(settlement) /\ s \notin PostedIn(settlement')
      /\ \A r : s \notin PostedForIn(settlement, r) /\ s \notin PostedForIn(settlement', r)
  BY <1>2, <1>4, <1>6 DEF PostedIn, PostedForIn
<1>9. /\ \A r : ComesTo(settlement', r) = ComesTo(settlement, r)
      /\ \A t \in StockStatus : SettlingMoves(settlement', t) = SettlingMoves(settlement, t)
  <2>1. /\ \A r : ComesTo(settlement', r) = ComesTo(settlement, r) + 0 - 0
        /\ \A t \in StockStatus :
              SettlingMoves(settlement', t) = SettlingMoves(settlement, t) + 0 - 0
    BY <1>5, <1>7, <1>8, OneSettlement
  <2>2. \A r : ComesTo(settlement, r) \in Nat
    BY <1>5, ComesToNat
  <2>3. \A t \in StockStatus : SettlingMoves(settlement, t) \in Int
    BY <1>5, MovesAreInt
  <2>. QED
    BY <2>1, <2>2, <2>3
<1>10. Grow(settlement, settlement')
  <2>1. \A r : ComesTo(settlement, r) <= ComesTo(settlement', r)
    BY <1>5, <1>9, ComesToNat
  <2>. QED
    BY <1>2, <1>5, <1>6, <2>1 DEF Grow
<1>11. Prepared'
  BY <1>4, <1>6 DEF QualityBooks, Prepared
<1>12. Handlers'
  <2>1. PICK row : row = [proc[p] EXCEPT !.op = "fetch", !.id = s]
    OBVIOUS
  <2>2. row \in ProcRow /\ row.op = "fetch" /\ row.id = s
    BY <1>3, <2>1 DEF ProcRow
  <2>3. RequestHolds(row)'
    BY <1>4, <1>6, <2>2 DEF RequestHolds
  <2>4. proc' = [proc EXCEPT ![p] = row]
    BY <1>2, <1>3, <2>1
  <2>. QED
    BY <1>10, <2>2, <2>3, <2>4, HandlersWith
<1>13. Rows' /\ GoodRestored'
  BY <1>1, <1>5 DEF QualityBooks, Rows, GoodRestored, Confirmed
<1>14. StockMoved' /\ Settled'
  BY <1>1, <1>9 DEF QualityBooks, StockMoved, Settled
<1>. QED
  BY <1>11, <1>12, <1>13, <1>14 DEF QualityBooks

\* What posting a settlement writes, with stock or without.
Posts(p, s) ==
    /\ s = proc[p].id /\ s \in Settlement
    /\ settlement[s].status = "DRAFT"
    /\ settlement' = [settlement EXCEPT ![s].status = "POSTED"]
    /\ ApplyClaimSettlement(p, s)
    /\ Ends(p)
    /\ UNCHANGED <<inspection, restored>>
    /\ stock' \in [StockStatus -> Nat]
    /\ \A t \in StockStatus : stock'[t] = stock[t] + StockOfRow(settlement[s])[t]
    /\ batches' \subseteq BatchNo

LEMMA PostWrites ==
    ASSUME QualityBooks, NEW p \in Process, PostNonInventory(p) \/ PostInventory(p)
    PROVE  proc[p].op = "post" /\ Posts(p, proc[p].id)
<1> DEFINE s == proc[p].id
           payload == settlement[s].payload
<1>1. /\ proc[p].op = "post" /\ settlement[s].status = "DRAFT"
      /\ settlement' = [settlement EXCEPT ![s].status = "POSTED"]
      /\ ApplyClaimSettlement(p, s) /\ Ends(p)
      /\ UNCHANGED <<inspection, restored>>
  BY DEF PostNonInventory, PostInventory, DraftSettlement
<1>2. s \in Settlement /\ settlement[s] \in SettlementRow
  BY <1>1 DEF QualityBooks, Handlers, RequestHolds, Rows, Settlements
<1>3. Complete(payload) /\ settlement[s].claim \in Return
  BY <1>1, <1>2 DEF QualityBooks, Prepared
<1>4. Rows /\ stock \in [StockStatus -> Nat] /\ batches \subseteq BatchNo
  BY DEF QualityBooks, Rows
<1>5. CASE PostNonInventory(p)
  <2>1. stock' = stock /\ batches' = batches /\ ~ NeedsStock(payload)
    BY <1>5 DEF PostNonInventory
  <2>2. \A t \in StockStatus : StockOfRow(settlement[s])[t] = 0
    BY <2>1 DEF StockOfRow
  <2>3. \A t \in StockStatus : stock'[t] = stock[t] + StockOfRow(settlement[s])[t]
    BY <1>4, <2>1, <2>2
  <2>. QED
    BY <1>1, <1>2, <1>4, <2>1, <2>3 DEF Posts
<1>6. CASE PostInventory(p)
  <2>1. /\ Move(SettlementMoves(payload)) /\ NeedsStock(payload)
        /\ batches' = IF payload.type = "REPLACEMENT" THEN batches \cup {payload.batch}
                                                      ELSE batches
    BY <1>6 DEF PostInventory
  <2>2. StockOfRow(settlement[s]) = SettlementMoves(payload)
    BY <2>1 DEF StockOfRow
  <2>3. \A t \in StockStatus : SettlementMoves(payload)[t] \in Int
    BY <1>2, <2>2, MovesInt
  <2>4. batches' \subseteq BatchNo
    BY <1>3, <1>4, <2>1 DEF Complete
  <2>5. /\ stock' \in [StockStatus -> Nat]
        /\ \A t \in StockStatus : stock'[t] = stock[t] + SettlementMoves(payload)[t]
    BY <1>4, <2>1, <2>3, MoveKeeps
  <2>. QED
    BY <1>1, <1>2, <2>2, <2>4, <2>5 DEF Posts
<1>. QED
  BY <1>5, <1>6

\* A settlement is posted: its amount is added to what its claim had settled when it
\* was read, which is no more than what was posted since.
LEMMA PostBooks ==
    ASSUME QualityBooks, NEW p \in Process, PostNonInventory(p) \/ PostInventory(p)
    PROVE  QualityBooks'
<1>1. PICK s : s = proc[p].id
  OBVIOUS
<1>2. proc[p].op = "post" /\ Posts(p, s)
  BY <1>1, PostWrites
<1> DEFINE r == settlement[s].claim
           n == proc[p].seen + settlement[s].amount
           status == StatusAfter(r, n, settlement[s].payload.type)
<1>3. /\ s \in Settlement /\ settlement[s].status = "DRAFT"
      /\ proc[p].seen \in Nat /\ proc[p].seen <= ComesTo(settlement, r)
  BY <1>1, <1>2 DEF Posts, QualityBooks, Handlers, RequestHolds, ProcRow
<1>4. settlement \in Settlements /\ settlement[s].amount \in Nat /\ r \in Return
  BY <1>3 DEF QualityBooks, Rows, Settlements, SettlementRow, Prepared
<1>5. /\ settlement' \in Settlements
      /\ settlement'[s].status = "POSTED" /\ settlement'[s].claim = r
      /\ settlement'[s].payload = settlement[s].payload
      /\ settlement'[s].amount = settlement[s].amount
      /\ \A q \in Settlement : q # s => settlement'[q] = settlement[q]
  BY <1>2, <1>3, <1>4 DEF Posts, Settlements, SettlementRow
<1>6. settlement' = [settlement EXCEPT ![s] = settlement'[s]]
  BY <1>2, <1>3, <1>4, <1>5 DEF Posts, Settlements
<1>7. StockOfRow(settlement'[s]) = StockOfRow(settlement[s])
  BY <1>5 DEF StockOfRow
<1>8. /\ s \in PostedIn(settlement') /\ s \notin PostedIn(settlement)
      /\ \A q : (s \in PostedForIn(settlement', q) <=> q = r) /\ s \notin PostedForIn(settlement, q)
  BY <1>3, <1>5 DEF PostedIn, PostedForIn
<1>9. \A q : ComesTo(settlement', q) = ComesTo(settlement, q)
                                          + (IF q = r THEN settlement[s].amount ELSE 0)
  <2> SUFFICES ASSUME NEW q
               PROVE  ComesTo(settlement', q) = ComesTo(settlement, q)
                                          + (IF q = r THEN settlement[s].amount ELSE 0)
    OBVIOUS
  <2>1. ComesTo(settlement', q) = ComesTo(settlement, q)
           + (IF s \in PostedForIn(settlement', q) THEN settlement'[s].amount ELSE 0)
           - (IF s \in PostedForIn(settlement, q) THEN settlement[s].amount ELSE 0)
    BY <1>3, <1>4, <1>5, <1>6, OneSettlement
  <2>2. ComesTo(settlement, q) \in Nat
    BY <1>4, ComesToNat
  <2>. QED
    BY <1>4, <1>5, <1>8, <2>1, <2>2
<1>10. ASSUME NEW t \in StockStatus
       PROVE  stock'[t] = Pending(t) + SplittingMoves(inspection', t)
                            + SettlingMoves(settlement', t)
  <2> DEFINE m == StockOfRow(settlement[s])[t]
  <2>1. SettlingMoves(settlement', t) = SettlingMoves(settlement, t) + m - 0
    BY <1>3, <1>4, <1>5, <1>6, <1>7, <1>8, OneSettlement
  <2>2. stock[t] = Pending(t) + SplittingMoves(inspection, t) + SettlingMoves(settlement, t)
    BY DEF QualityBooks, StockMoved
  <2>3. /\ SplittingMoves(inspection, t) \in Int /\ SettlingMoves(settlement, t) \in Int
        /\ Pending(t) \in Int
    BY <1>4, MovesAreInt, PendingNat DEF QualityBooks, Rows
  <2>4. m \in Int
    BY <1>3, <1>4, MovesInt DEF Settlements
  <2>5. stock'[t] = stock[t] + m /\ inspection' = inspection
    BY <1>2 DEF Posts
  <2> HIDE DEF m
  <2>. QED
    BY <2>1, <2>2, <2>3, <2>4, <2>5
<1>11. n \in Nat /\ n <= ComesTo(settlement', r)
  <2> DEFINE before == ComesTo(settlement, r)
             seen == proc[p].seen
             amount == settlement[s].amount
  <2>1. before \in Nat /\ seen \in Nat /\ amount \in Nat /\ seen <= before
    BY <1>3, <1>4, ComesToNat
  <2>2. ComesTo(settlement', r) = before + amount
    BY <1>9
  <2>3. n = seen + amount
    OBVIOUS
  <2> HIDE DEF n, before, seen, amount
  <2>. QED
    BY <2>1, <2>2, <2>3
<1>12. status \in {"SETTLED", "REJECTED", "CLOSED", "PARTIALLY_SETTLED"}
  BY DEF StatusAfter
<1>13. /\ claim' = [claim EXCEPT ![r].settled = n, ![r].status = status]
       /\ issue' = [issue EXCEPT ![r] = IF Finished(status) THEN "RESOLVED" ELSE @]
  BY <1>1, <1>2 DEF Posts, ApplyClaimSettlement, SettledAfter
<1> HIDE DEF n, status
<1>14. /\ claim' \in [Return -> ClaimRow] /\ claim'[r].settled = n
       /\ \A q \in Return : q # r => claim'[q] = claim[q]
  BY <1>4, <1>11, <1>12, <1>13 DEF QualityBooks, Rows, ClaimRow
<1>15. Settled'
  <2>1. ASSUME NEW q \in Return, q # r
        PROVE  claim'[q].settled <= ComesTo(settlement', q)
    <3>1. ComesTo(settlement', q) = ComesTo(settlement, q) + 0
      BY <1>9, <2>1
    <3>2. ComesTo(settlement, q) \in Nat
      BY <1>4, ComesToNat
    <3>. QED
      BY <1>14, <2>1, <3>1, <3>2 DEF QualityBooks, Settled
  <2>. QED
    BY <1>11, <1>14, <2>1 DEF Settled
<1>16. Rows'
  <2>1. issue' \in [Return -> {"ABSENT", "OPEN", "CLAIMED", "RESOLVED"}]
    BY <1>13 DEF QualityBooks, Rows
  <2>. QED
    BY <1>2, <1>5, <1>14, <2>1 DEF QualityBooks, Rows, Posts
<1>17. Prepared' /\ GoodRestored'
  BY <1>2, <1>3, <1>5 DEF QualityBooks, Prepared, GoodRestored, Confirmed, Posts
<1>18. Grow(settlement, settlement')
  <2>1. ASSUME NEW q
        PROVE  ComesTo(settlement, q) <= ComesTo(settlement', q)
    <3>1. ComesTo(settlement, q) \in Nat
      BY <1>4, ComesToNat
    <3>. QED
      BY <1>4, <1>9, <3>1
  <2>. QED
    BY <1>5, <2>1 DEF Grow
<1>19. Handlers'
  BY <1>2, <1>18, EndsHolds DEF Posts
<1>. QED
  BY <1>10, <1>15, <1>16, <1>17, <1>19 DEF QualityBooks, StockMoved

\* Every step keeps the books.
LEMMA BooksStep == ClaimInv /\ QualityBooks /\ [Next]_vars => QualityBooks'
<1> SUFFICES ASSUME ClaimInv, QualityBooks, [Next]_vars
             PROVE  QualityBooks'
  OBVIOUS
<1>1. ASSUME NEW p \in Process, InspectionStep(p)
      PROVE  QualityBooks'
  <2>1. ASSUME NEW r \in Return, NEW split \in Splits(r), LoadCreateInspection(p, r, split)
        PROVE  QualityBooks'
    <3> DEFINE row == [IdleProc EXCEPT !.op = "create", !.id = r, !.split = split]
    <3>1. RequestHolds(row)
      BY LoadedHolds
    <3>2. Loads(p, row) /\ UNCHANGED <<inspections, stock, batches, claims>>
      BY <2>1 DEF LoadCreateInspection
    <3>. QED
      BY <3>1, <3>2, LoadsKeeps
  <2>2. ASSUME NEW r \in Return, LoadConfirm(p, r)
        PROVE  QualityBooks'
    <3> DEFINE row == [IdleProc EXCEPT !.op = "confirm", !.id = r]
    <3>1. RequestHolds(row)
      BY LoadedHolds
    <3>2. Loads(p, row) /\ UNCHANGED <<inspections, stock, batches, claims>>
      BY <2>2 DEF LoadConfirm
    <3>. QED
      BY <3>1, <3>2, LoadsKeeps
  <2>. QED
    BY <1>1, <2>1, <2>2, CreateKeeps, ConfirmKeeps DEF InspectionStep
<1>2. ASSUME NEW p \in Process, NEW r \in Return, NEW k \in Key, NEW payload \in Payload,
             LoadSettle(p, r, k, payload)
      PROVE  QualityBooks'
  <2> DEFINE row == [IdleProc EXCEPT !.op = "prepare", !.id = r, !.key = k, !.payload = payload,
                                     !.amount = AmountOf(payload)]
  <2>1. FieldsGiven(payload) /\ Loads(p, row) /\ UNCHANGED <<inspections, stock, batches, claims>>
    BY <1>2 DEF LoadSettle, ValidSettlement
  <2>2. RequestHolds(row)
    BY <2>1, LoadedHolds
  <2>. QED
    BY <2>1, <2>2, LoadsKeeps
<1>3. ASSUME NEW p \in Process, Stops(p)
      PROVE  QualityBooks'
  BY <1>3, GrowStays, EndsHolds, BooksKept DEF Stops, claims
<1>4. CASE UNCHANGED vars
  <2>1. Handlers'
    BY <1>4 DEF vars, QualityBooks, Handlers, RequestHolds
  <2>. QED
    BY <1>4, <2>1, BooksKept DEF vars, inspections, claims
<1>5. ASSUME NEW p \in Process, SettlementStep(p)
      PROVE  QualityBooks'
  BY <1>2, <1>5, FoundKeeps, FetchKeeps, PrepareBooks, PostBooks DEF SettlementStep
<1>. QED
  BY <1>1, <1>3, <1>4, <1>5 DEF Next

\* At the start the returned quantity waits for inspection.
LEMMA BooksInit == Init => QualityBooks
<1> SUFFICES ASSUME Init
             PROVE  QualityBooks
  OBVIOUS
<1>1. Total(Returned) \in Nat
  BY PendingNat DEF Pending, StockStatus
<1>2. NoSplit \in SplitRow /\ NoClaim \in ClaimRow /\ NoClaim.settled = 0
  BY DEF NoSplit, SplitRow, NoClaim, ClaimRow
<1>3. NoSettlement \in SettlementRow /\ NoSettlement.status = "ABSENT"
  BY DEF NoSettlement, SettlementRow
<1>4. Rows
  BY <1>1, <1>2, <1>3 DEF Init, Rows, Inspections, Settlements
<1>5. Prepared
  BY <1>3 DEF Init, Prepared
<1>6. Handlers
  BY IdleHolds DEF Init, Handlers, RequestHolds
<1>7. PostedIn(settlement) = {} /\ ConfirmedIn(inspection) = {}
  BY <1>3 DEF Init, PostedIn, ConfirmedIn
<1>8. \A t \in StockStatus : SplittingMoves(inspection, t) = 0 /\ SettlingMoves(settlement, t) = 0
  BY <1>7, TotalEmpty, Restricted DEF SplittingMoves, SettlingMoves
<1>9. StockMoved
  BY <1>1, <1>8, PendingNat DEF Init, StockMoved, Pending
<1>10. GoodRestored
  BY DEF Init, GoodRestored, Confirmed
<1>11. \A r : ComesTo(settlement, r) \in Nat
  BY <1>4, ComesToNat DEF Rows
<1>12. Settled
  BY <1>2, <1>11 DEF Init, Settled
<1>. QED
  BY <1>4, <1>5, <1>6, <1>9, <1>10, <1>12 DEF QualityBooks

\* The books of inspections, claims and settlements.
THEOREM QualityBooksInvariant == Spec => []QualityBooks
<1>1. ClaimInv /\ QualityBooks /\ [Next]_vars => QualityBooks'
  BY BooksStep
<1>. QED
  BY <1>1, BooksInit, ClaimInvariant, PTL DEF Spec

\* Each stock status holds what confirmed inspections found and posted settlements
\* moved, each once, and batches have got back what was found good (confirmInspection,
\* finalize and postInventorySettlement of QualityService).
THEOREM StockIsExplained == Spec => []StockExplained
<1>1. ASSUME QualityBooks
      PROVE  StockExplained
  <2>1. \A t \in StockStatus :
          stock[t] =
            (IF t = "QC_PENDING" THEN Total(Returned) ELSE 0)
              + Total([r \in Confirmed |-> SplitMoves(r, inspection[r].split)[t]])
              + Total([s \in PostedSettlements |-> StockOf(s)[t]])
    BY <1>1, SumsOfTables DEF QualityBooks, StockMoved, Pending
  <2>. QED
    BY <1>1, <2>1 DEF QualityBooks, GoodRestored, StockExplained
<1>. QED
  BY <1>1, QualityBooksInvariant, PTL

\* Rows are well formed; what suppliers owe and what claims count as settled come from
\* posted settlements, though each is added to a sum that was read before
\* (applyClaimSettlement).
THEOREM SettlementsWerePosted == Spec => []SettlementsOwed
<1>1. ASSUME ClaimInv, QualityBooks
      PROVE  SettlementsOwed
  <2>1. OwedOnce /\ saved \in [Return -> [Key -> Settlement \cup {None}]]
    BY <1>1 DEF ClaimInv, Tables
  <2>2. settlement \in [Settlement -> SettlementRow]
    BY <1>1 DEF QualityBooks, Rows, Settlements
  <2>3. owed \in [Settlement -> Nat]
    <3>1. \A s \in Settlement : owed[s] \in Nat
      BY <2>1, <2>2 DEF OwedOnce, SettlementRow
    <3>. QED
      BY <1>1, <3>1 DEF ClaimInv, Tables
  <2>4. TypeOK
    BY <1>1, <2>1, <2>2, <2>3 DEF QualityBooks, Rows, Handlers, Inspections, TypeOK
  <2>5. SettledWasPosted
    BY <1>1, SumsOfTables DEF QualityBooks, Settled, SettledWasPosted
  <2>. QED
    BY <2>1, <2>4, <2>5 DEF SettlementsOwed
<1>. QED
  BY <1>1, ClaimInvariant, QualityBooksInvariant, PTL

=============================================================================
