--------------------------- MODULE CatalogueProofs ---------------------------
(***************************************************************************)
(* Proofs about master data, prices and locations, for any rows, prices    *)
(* and requests.                                                           *)
(*                                                                         *)
(* A request looks at its references one by one before it writes.  What it *)
(* has looked at is active until somebody takes it out of use, and a       *)
(* change of a location takes no reference of master data out of use.  A   *)
(* price is compared with all others before it is written; only the write  *)
(* of another price makes the comparison obsolete.  A row that is created  *)
(* while an export goes on moves the rows that are still to come to later  *)
(* pages, or comes after them.                                             *)
(***************************************************************************)
EXTENDS Catalogue, TotalProofs, SequenceTheorems

\* The rows of the tables.
Rows ==
    /\ rows = [row \in Row |-> rows[row]]
    /\ \A row \in Row : rows[row] = None \/ rows[row] \in Record(ResourceOf[row])

PayloadRefs(resource) == [References(resource) -> Row \cup {None, "keep"}]

\* A request for master data: each of its references is still to be looked at,
\* active, or was taken out of use after it had been looked at.
MasterKept(table, req) ==
    /\ req.op \in {"create", "update"} =>
          /\ {"op", "refs", "unchecked", "lapsed"} \subseteq DOMAIN req
          /\ req.lapsed \in BOOLEAN
          /\ \A t \in DOMAIN req.refs : req.refs[t] \notin {"keep", None} =>
                /\ req.refs[t] \in Row \ Location
                /\ \/ req.refs[t] \in req.unchecked
                   \/ table[req.refs[t]] # None /\ table[req.refs[t]].status = "ACTIVE"
                   \/ req.lapsed
    /\ req.op = "create" =>
          /\ req.resource # "locations"
          /\ req.refs \in [References(req.resource) -> Row \cup {None}]
    /\ req.op = "update" =>
          /\ req.row \in Row /\ ResourceOf[req.row] # "locations" /\ table[req.row] # None
          /\ req.refs \in PayloadRefs(ResourceOf[req.row])
          /\ req.status \in Status \cup {"keep"}

\* A request for a location.
LocationKept(table, req) ==
    req.op \in LocationOps =>
        /\ req.row \in Location
        /\ req.status \in Status \cup {"keep"}
        /\ req.op = "createLocation" => /\ req.status = "ACTIVE"
                                        /\ req.refs \in [References("locations") -> Row \cup {None}]
        /\ req.op # "createLocation" => /\ table[req.row] # None
                                        /\ req.refs \in PayloadRefs("locations")

Clash(book, new, q) ==
    /\ book[q] # None /\ book[q].key = new.key
    /\ book[q].status = "ACTIVE" /\ Overlap(new, book[q])

\* A request for a price: it overlaps no other, unless a write has come since.
PriceKept(book, req) ==
    /\ req.op \in {"createPrice", "updatePrice"} =>
          /\ req.obsolete \in BOOLEAN
          /\ {"key", "from", "to", "min", "status"} \subseteq DOMAIN req.new
          /\ "obsolete" \in DOMAIN req
    /\ req.op = "createPrice" => req.obsolete \/ \A q \in Price : ~ Clash(book, req.new, q)
    /\ req.op = "updatePrice" =>
          /\ req.price \in Price
          /\ req.obsolete \/ \A q \in Price \ {req.price} : ~ Clash(book, req.new, q)

RequestKept(table, book, req) ==
    /\ "op" \in DOMAIN req
    /\ MasterKept(table, req) /\ LocationKept(table, req) /\ PriceKept(book, req)

Requests ==
    /\ request = [r \in Request |-> request[r]]
    /\ \A r \in Request : RequestKept(rows, prices, request[r])

CatalogueInv == Rows /\ Requests /\ prices = [p \in Price |-> prices[p]] /\ PricesDisjointUnlessRaced

(***************************************************************************)
(* What a step leaves of a request.                                        *)
(***************************************************************************)

\* No row is removed; the rows of "out" may be taken out of use.
RowsGoOn(out) ==
    \A row \in Row : rows[row] # None =>
        /\ rows'[row] # None
        /\ rows[row].status = "ACTIVE" => rows'[row].status = "ACTIVE" \/ row \in out

\* A request at rest.
LEMMA IdleKept == \A table, book : RequestKept(table, book, Idle)
BY DEF RequestKept, MasterKept, LocationKept, PriceKept, Idle, LocationOps

\* A request that is not about what changes stays.
LEMMA GoesOn ==
    ASSUME NEW req, NEW out \in SUBSET Row, RowsGoOn(out), RequestKept(rows, prices, req),
           prices' = prices,
           req.op \in {"create", "update"} => out \cap Named(req.refs) = {} \/ req.lapsed
    PROVE  RequestKept(rows', prices', req)
<1>1. MasterKept(rows', req)
  BY MasterAssumption DEF RequestKept, MasterKept, RowsGoOn, Named
<1>2. LocationKept(rows', req)
  BY DEF RequestKept, LocationKept, RowsGoOn, Location
<1>. QED
  BY <1>1, <1>2 DEF RequestKept

\* The marks that other steps leave on a request.
LEMMA MarksKept ==
    ASSUME NEW table, NEW book, NEW req, RequestKept(table, book, req), NEW v
    PROVE  /\ RequestKept(table, book, [req EXCEPT !.lapsed = TRUE])
           /\ RequestKept(table, book, [req EXCEPT !.disturbed = v])
           /\ RequestKept(table, book, [req EXCEPT !.steady = v])
<1>1. RequestKept(table, book, [req EXCEPT !.lapsed = TRUE])
  BY DEF RequestKept, MasterKept, LocationKept, PriceKept, LocationOps
<1>2. RequestKept(table, book, [req EXCEPT !.disturbed = v])
  BY DEF RequestKept, MasterKept, LocationKept, PriceKept, LocationOps
<1>3. RequestKept(table, book, [req EXCEPT !.steady = v])
  BY DEF RequestKept, MasterKept, LocationKept, PriceKept, LocationOps
<1>. QED
  BY <1>1, <1>2, <1>3

\* A request that is about nothing that the tables have to answer for.
LEMMA OtherKept ==
    ASSUME NEW table, NEW book, NEW req, "op" \in DOMAIN req,
           req.op \notin {"create", "update", "createPrice", "updatePrice"} \cup LocationOps
    PROVE  RequestKept(table, book, req)
BY DEF RequestKept, MasterKept, LocationKept, PriceKept

\* One request goes on or ends, and the tables stay.
LEMMA OneGoesOn ==
    ASSUME CatalogueInv, UNCHANGED <<rows, prices, raced>>, NEW r, NEW req,
           RequestKept(rows, prices, req), request' = [request EXCEPT ![r] = req]
    PROVE  CatalogueInv'
<1>1. Requests'
  BY DEF CatalogueInv, Requests
<1>2. Rows' /\ PricesDisjointUnlessRaced'
  BY DEF CatalogueInv, Rows, PricesDisjointUnlessRaced
<1>. QED
  BY <1>1, <1>2 DEF CatalogueInv

LEMMA OneEnds ==
    ASSUME CatalogueInv, UNCHANGED <<rows, prices, raced>>, NEW r, End(r)
    PROVE  CatalogueInv'
BY IdleKept, OneGoesOn DEF End

\* A row that is written keeps the tables in order.
LEMMA RowWritten ==
    ASSUME Rows, NEW row \in Row, NEW record \in Record(ResourceOf[row]),
           rows' = [rows EXCEPT ![row] = record]
    PROVE  /\ Rows'
           /\ RowsGoOn(IF record.status = "ACTIVE" \/ rows[row] = None THEN {} ELSE {row})
<1>1. record # None
  BY MasterAssumption
<1>2. /\ rows'[row] = record
      /\ \A other \in Row : other # row => rows'[other] = rows[other]
  BY DEF Rows
<1>3. Rows'
  BY <1>2 DEF Rows
<1>4. RowsGoOn(IF record.status = "ACTIVE" \/ rows[row] = None THEN {} ELSE {row})
  BY <1>1, <1>2 DEF RowsGoOn
<1>. QED
  BY <1>3, <1>4

\* The references of a payload over those of a row.
LEMMA MergedRefs ==
    ASSUME NEW resource, NEW old \in [References(resource) -> Row \cup {None}],
           NEW new \in PayloadRefs(resource)
    PROVE  Kept(old, new) \in [References(resource) -> Row \cup {None}]
BY DEF Kept, PayloadRefs

\* What a payload may say of the references.
LEMMA PayloadKept ==
    ASSUME NEW resource, NEW creating \in BOOLEAN, NEW refs \in RefsPayload(resource, creating)
    PROVE  /\ refs \in PayloadRefs(resource)
           /\ creating => refs \in [References(resource) -> Row \cup {None}]
           /\ resource # "locations" =>
                 \A t \in DOMAIN refs : refs[t] \notin {"keep", None} => refs[t] \in Row \ Location
<1> DEFINE absent == IF creating THEN {None} ELSE {"keep", None}
           choice(t) == OfResource(t) \cup
                        (IF ~ Required(resource) THEN absent
                         ELSE IF creating THEN {} ELSE {"keep"})
<1>1. /\ refs \in [References(resource) -> UNION {choice(t) : t \in References(resource)}]
      /\ \A t \in DOMAIN refs : refs[t] \in choice(t)
  BY DEF RefsPayload
<1>2. \A t : /\ choice(t) \subseteq OfResource(t) \cup {None, "keep"}
             /\ creating => choice(t) \subseteq OfResource(t) \cup {None}
  OBVIOUS
<1> HIDE DEF choice
<1>3. \A t \in DOMAIN refs : /\ refs[t] \in OfResource(t) \cup {None, "keep"}
                             /\ creating => refs[t] \in OfResource(t) \cup {None}
  BY <1>1, <1>2
<1>4. DOMAIN refs = References(resource) /\ refs = [t \in References(resource) |-> refs[t]]
  BY <1>1
<1>5. resource # "locations" => "locations" \notin References(resource)
  BY DEF References
<1>6. \A t : OfResource(t) \subseteq Row /\ (t # "locations" => OfResource(t) \subseteq Row \ Location)
  BY DEF OfResource, Location
<1>. QED
  BY <1>3, <1>4, <1>5, <1>6 DEF PayloadRefs

(***************************************************************************)
(* Master data.                                                            *)
(***************************************************************************)

\* A request whose reference is taken out of use is told.
LEMMA LapseKept ==
    ASSUME NEW req, NEW row \in Row, RowsGoOn({row}), RequestKept(rows, prices, req),
           prices' = prices
    PROVE  RequestKept(rows', prices',
               IF req.op \in {"create", "update"} /\ row \in Named(req.refs)
               THEN [req EXCEPT !.lapsed = TRUE] ELSE req)
<1> DEFINE told == [req EXCEPT !.lapsed = TRUE]
<1>1. CASE req.op \in {"create", "update"} /\ row \in Named(req.refs)
  <2>1. RequestKept(rows, prices, told)
    BY MarksKept
  <2>2. told.lapsed
    BY <1>1 DEF RequestKept, MasterKept
  <2>. HIDE DEF told
  <2>3. RequestKept(rows', prices', told)
    BY <2>1, <2>2, GoesOn
  <2>. QED
    BY <1>1, <2>3 DEF told
<1>2. CASE ~ (req.op \in {"create", "update"} /\ row \in Named(req.refs))
  BY <1>2, GoesOn
<1>. QED
  BY <1>1, <1>2

\* A row of master data is written and all who had looked at it are told.
LEMMA RowsChange ==
    ASSUME CatalogueInv, NEW row \in Row, NEW record \in Record(ResourceOf[row]),
           rows' = [rows EXCEPT ![row] = record], UNCHANGED <<prices, raced>>,
           NEW r, NEW before, before \in {request, [request EXCEPT ![r] = Idle]},
           \/ request' = Lapse(row, before)
           \/ request' = before /\ (record.status = "ACTIVE" \/ rows[row] = None)
    PROVE  CatalogueInv'
<1>1. Rows'
  BY RowWritten DEF CatalogueInv
<1>2. before = [q \in Request |-> before[q]] /\ \A q \in Request : RequestKept(rows, prices, before[q])
  BY IdleKept DEF CatalogueInv, Requests
<1>3. Requests'
  <2>1. CASE request' = Lapse(row, before)
    <3>1. RowsGoOn({row})
      BY RowWritten DEF CatalogueInv, RowsGoOn
    <3>2. \A q \in Request : RequestKept(rows', prices', request'[q])
      BY <1>2, <2>1, <3>1, LapseKept DEF Lapse
    <3>. QED
      BY <2>1, <3>2 DEF Lapse, Requests
  <2>2. CASE request' = before /\ (record.status = "ACTIVE" \/ rows[row] = None)
    <3>1. RowsGoOn({})
      BY <2>2, RowWritten DEF CatalogueInv
    <3>2. \A q \in Request : RequestKept(rows', prices', before[q])
      BY <1>2, <3>1, GoesOn
    <3>. QED
      BY <1>2, <2>2, <3>2 DEF Requests
  <2>. QED
    BY <2>1, <2>2
<1>. QED
  BY <1>1, <1>3 DEF CatalogueInv, PricesDisjointUnlessRaced

\* A request with a reference looked at.
LEMMA CheckedKept ==
    ASSUME NEW req, NEW row, RequestKept(rows, prices, req), Active(row)
    PROVE  RequestKept(rows, prices, [req EXCEPT !.unchecked = @ \ {row}])
BY DEF RequestKept, MasterKept, LocationKept, PriceKept, LocationOps, Active, Exists

LEMMA MasterStep ==
    ASSUME CatalogueInv, MasterNext, UNCHANGED <<prices, raced, locationVars>>
    PROVE  CatalogueInv'
<1>1. ASSUME NEW r \in Request, Create(r)
      PROVE  CatalogueInv'
  <2>1. PICK resource \in {ResourceOf[row] : row \in Row} \ {"locations"} :
             \E refs \in RefsPayload(resource, TRUE) :
                /\ Begin(r, [op |-> "create", resource |-> resource, refs |-> refs,
                             unchecked |-> Named(refs), lapsed |-> FALSE])
                /\ UNCHANGED rows
    BY <1>1 DEF Create, masterVars
  <2>2. PICK refs \in RefsPayload(resource, TRUE) :
             /\ Begin(r, [op |-> "create", resource |-> resource, refs |-> refs,
                          unchecked |-> Named(refs), lapsed |-> FALSE])
             /\ UNCHANGED rows
    BY <2>1
  <2>. DEFINE req == [op |-> "create", resource |-> resource, refs |-> refs,
                      unchecked |-> Named(refs), lapsed |-> FALSE]
  <2>3. RequestKept(rows, prices, req)
    BY PayloadKept DEF RequestKept, MasterKept, LocationKept, PriceKept, LocationOps, Named
  <2>. QED
    BY <2>2, <2>3, OneGoesOn DEF Begin
<1>2. ASSUME NEW r \in Request, Update(r)
      PROVE  CatalogueInv'
  <2>1. PICK row \in Row : \E refs \in RefsPayload(ResourceOf[row], FALSE) :
             \E status \in Status \cup {"keep"} :
                /\ Exists(row) /\ ResourceOf[row] # "locations"
                /\ Begin(r, [op |-> "update", row |-> row, refs |-> refs, status |-> status,
                             unchecked |-> Named(refs), lapsed |-> FALSE])
                /\ UNCHANGED rows
    BY <1>2 DEF Update, masterVars
  <2>2. PICK refs \in RefsPayload(ResourceOf[row], FALSE), status \in Status \cup {"keep"} :
             /\ Exists(row) /\ ResourceOf[row] # "locations"
             /\ Begin(r, [op |-> "update", row |-> row, refs |-> refs, status |-> status,
                          unchecked |-> Named(refs), lapsed |-> FALSE])
             /\ UNCHANGED rows
    BY <2>1
  <2>. DEFINE req == [op |-> "update", row |-> row, refs |-> refs, status |-> status,
                      unchecked |-> Named(refs), lapsed |-> FALSE]
  <2>3. RequestKept(rows, prices, req)
    BY <2>2, PayloadKept DEF RequestKept, MasterKept, LocationKept, PriceKept, LocationOps,
                             Named, Exists
  <2>. QED
    BY <2>2, <2>3, OneGoesOn DEF Begin
<1>3. ASSUME NEW r \in Request, Deactivate(r)
      PROVE  CatalogueInv'
  <2>1. PICK row \in Row : /\ Exists(row)
                           /\ rows' = [rows EXCEPT ![row].status = "INACTIVE"]
                           /\ request' = Lapse(row, request)
    BY <1>3 DEF Deactivate
  <2>. DEFINE record == [status |-> "INACTIVE", refs |-> rows[row].refs]
  <2>2. rows[row] \in Record(ResourceOf[row])
    BY <2>1 DEF CatalogueInv, Rows, Exists
  <2>3. record \in Record(ResourceOf[row])
    BY <2>2 DEF Record, Status
  <2>4. [rows[row] EXCEPT !.status = "INACTIVE"] = record
    BY <2>2 DEF Record
  <2>5. rows' = [rows EXCEPT ![row] = record]
    BY <2>1, <2>4
  <2>. HIDE DEF record
  <2>. QED
    BY <2>1, <2>3, <2>5, RowsChange
<1>4. ASSUME NEW r \in Request, CheckReference(r)
      PROVE  CatalogueInv'
  <2>1. UNCHANGED rows
    BY <1>4 DEF CheckReference, masterVars
  <2>2. PICK row \in request[r].unchecked :
             \/ Active(row) /\ request' = [request EXCEPT ![r].unchecked = @ \ {row}]
             \/ End(r)
    BY <1>4 DEF CheckReference, ReferenceActive
  <2>3. CASE Active(row) /\ request' = [request EXCEPT ![r].unchecked = @ \ {row}]
    <3>1. RequestKept(rows, prices, request[r])
      BY DEF CatalogueInv, Requests
    <3>2. RequestKept(rows, prices, [request[r] EXCEPT !.unchecked = @ \ {row}])
      BY <2>3, <3>1, CheckedKept
    <3>3. request' = [request EXCEPT ![r] = [request[r] EXCEPT !.unchecked = @ \ {row}]]
      BY <2>3
    <3>. QED
      BY <2>1, <3>2, <3>3, OneGoesOn
  <2>. QED
    BY <2>1, <2>2, <2>3, OneEnds
<1>5. ASSUME NEW r \in Request, WriteCreate(r)
      PROVE  CatalogueInv'
  <2>. DEFINE resource == request[r].resource
              row == CHOOSE row \in Unborn(resource) : TRUE
              record == [status |-> "ACTIVE", refs |-> request[r].refs]
  <2>1. CASE Unborn(resource) = {}
    BY <1>5, <2>1, OneEnds DEF WriteCreate
  <2>2. CASE Unborn(resource) # {}
    <3>1. row \in Row /\ rows[row] = None /\ ResourceOf[row] = resource
      BY <2>2 DEF Unborn, Exists
    <3>2. request[r].refs \in [References(resource) -> Row \cup {None}]
      BY <1>5 DEF WriteCreate, CatalogueInv, Requests, RequestKept, MasterKept
    <3>3. record \in Record(ResourceOf[row]) /\ record.status = "ACTIVE"
      BY <3>1, <3>2 DEF Record, Status
    <3>4. rows' = [rows EXCEPT ![row] = record] /\ request' = [request EXCEPT ![r] = Idle]
      BY <1>5, <2>2 DEF WriteCreate, End
    <3>. HIDE DEF record, row
    <3>. QED
      BY <3>1, <3>3, <3>4, RowsChange
  <2>. QED
    BY <2>1, <2>2
<1>6. ASSUME NEW r \in Request, WriteUpdate(r)
      PROVE  CatalogueInv'
  <2>. DEFINE row == request[r].row
              status == IF request[r].status = "keep" THEN rows[row].status
                                                      ELSE request[r].status
              record == [status |-> status, refs |-> Kept(rows[row].refs, request[r].refs)]
  <2>1. /\ row \in Row /\ rows[row] \in Record(ResourceOf[row])
        /\ request[r].refs \in PayloadRefs(ResourceOf[row])
        /\ request[r].status \in Status \cup {"keep"}
    BY <1>6 DEF WriteUpdate, CatalogueInv, Rows, Requests, RequestKept, MasterKept
  <2>2. record \in Record(ResourceOf[row])
    BY <2>1, MergedRefs DEF Record
  <2>3. /\ rows' = [rows EXCEPT ![row] = record]
        /\ request' = IF status = "INACTIVE" THEN Lapse(row, [request EXCEPT ![r] = Idle])
                                             ELSE [request EXCEPT ![r] = Idle]
    BY <1>6 DEF WriteUpdate
  <2>4. status \in Status /\ record.status = status
    BY <2>1 DEF Record
  <2>. HIDE DEF record, status
  <2>. QED
    BY <2>1, <2>2, <2>3, <2>4, RowsChange DEF Status
<1>7. BeginExport \/ ExportPage => CatalogueInv'
  BY DEF BeginExport, ExportPage, CatalogueInv, Rows, Requests, PricesDisjointUnlessRaced
<1>. QED
  BY <1>1, <1>2, <1>3, <1>4, <1>5, <1>6, <1>7 DEF MasterNext

(***************************************************************************)
(* Prices.                                                                 *)
(***************************************************************************)

\* Periods overlap each other.
LEMMA OverlapBothWays ==
    ASSUME NEW p, NEW q
    PROVE  Overlap(p, q) <=> Overlap(q, p)
BY DEF Overlap

\* What a price row becomes; its key and period are those of the request.
LEMMA StoredPrice ==
    ASSUME NEW new, {"key", "from", "to", "min", "status"} \subseteq DOMAIN new, NEW min, NEW status
    PROVE  LET kept == [new EXCEPT !.min = min, !.status = status]
           IN kept.key = new.key /\ kept.from = new.from /\ kept.to = new.to
OBVIOUS

LEMMA StoreKeeps ==
    ASSUME CatalogueInv, NEW r \in Request, NEW p \in Price, Store(r, p), rows' = rows,
           request[r].op \in {"createPrice", "updatePrice"},
           request[r].op = "createPrice" => prices[p] = None,
           request[r].op = "updatePrice" => p = request[r].price
    PROVE  CatalogueInv'
<1> DEFINE new == request[r].new
           kept == [new EXCEPT !.min = IF @ = None THEN prices[p].min ELSE @,
                               !.status = IF @ = "keep" THEN prices[p].status ELSE @]
           before == [request EXCEPT ![r] = Idle]
<1>1. RequestKept(rows, prices, request[r])
  BY DEF CatalogueInv, Requests
<1>2. kept.key = new.key /\ kept.from = new.from /\ kept.to = new.to
  <2>1. {"key", "from", "to", "min", "status"} \subseteq DOMAIN new
    BY <1>1 DEF RequestKept, PriceKept
  <2>. QED
    BY <2>1
<1>3. /\ prices' = [prices EXCEPT ![p] = kept]
      /\ raced' = IF request[r].obsolete THEN raced \cup {p} ELSE raced
      /\ request' = Notice(before, prices')
  BY DEF Store
<1>4. request[r].obsolete \/ \A q \in Price \ {p} : ~ Clash(prices, new, q)
  BY <1>1 DEF RequestKept, PriceKept
<1> HIDE DEF kept, before, new
<1>5. /\ prices' = [q \in Price |-> prices'[q]] /\ prices'[p] = kept
      /\ \A q \in Price : q # p => prices'[q] = prices[q]
  BY <1>3 DEF CatalogueInv
<1>6. \A q \in Price \ {p} :
         /\ prices'[p] # None /\ prices'[q] # None
         /\ prices'[p].key = prices'[q].key
         /\ prices'[p].status = "ACTIVE" /\ prices'[q].status = "ACTIVE"
         /\ Overlap(prices'[p], prices'[q])
         => p \in raced'
  BY <1>2, <1>3, <1>4, <1>5 DEF Clash, Overlap
<1>7. PricesDisjointUnlessRaced'
  <2> SUFFICES ASSUME NEW x \in Price, NEW y \in Price, x # y,
                      prices'[x] # None /\ prices'[y] # None,
                      prices'[x].key = prices'[y].key,
                      prices'[x].status = "ACTIVE" /\ prices'[y].status = "ACTIVE",
                      Overlap(prices'[x], prices'[y])
               PROVE  {x, y} \cap raced' # {}
    BY DEF PricesDisjointUnlessRaced
  <2>1. CASE x = p
    BY <1>6, <2>1
  <2>2. CASE y = p
    BY <1>6, <2>2, OverlapBothWays
  <2>3. CASE x # p /\ y # p
    BY <1>3, <1>5, <2>3 DEF CatalogueInv, PricesDisjointUnlessRaced
  <2>. QED
    BY <2>1, <2>2, <2>3
<1>8. before = [q \in Request |-> before[q]] /\ \A q \in Request : RequestKept(rows, prices, before[q])
  BY IdleKept DEF CatalogueInv, Requests, before
<1>9. ASSUME NEW q \in Request
      PROVE  RequestKept(rows', prices', request'[q])
  <2>. DEFINE req == before[q]
              steady == {key \in req.steady : EffectivePrices(key, req.query, prices') # {}}
  <2>1. RequestKept(rows, prices, req)
    BY <1>8
  <2>. HIDE DEF req
  <2>2. CASE req.op \in {"createPrice", "updatePrice"}
    <3>1. request'[q] = [req EXCEPT !.obsolete = TRUE]
      BY <1>3, <2>2 DEF Notice, req
    <3>2. RequestKept(rows, prices', [req EXCEPT !.obsolete = TRUE])
      BY <2>1, <2>2 DEF RequestKept, MasterKept, LocationKept, PriceKept, LocationOps
    <3>. QED
      BY <3>1, <3>2
  <2>3. CASE req.op = "resolve"
    <3>1. request'[q] = [req EXCEPT !.steady = steady]
      BY <1>3, <2>3 DEF Notice, req
    <3>. HIDE DEF steady
    <3>2. RequestKept(rows, prices', [req EXCEPT !.steady = steady])
      BY <2>1, <2>3 DEF RequestKept, MasterKept, LocationKept, PriceKept, LocationOps
    <3>. QED
      BY <3>1, <3>2
  <2>4. CASE req.op \notin {"createPrice", "updatePrice", "resolve"}
    <3>1. request'[q] = req
      BY <1>3, <2>4 DEF Notice, req
    <3>2. RequestKept(rows, prices', req)
      BY <2>1, <2>4 DEF RequestKept, MasterKept, LocationKept, PriceKept
    <3>. QED
      BY <3>1, <3>2
  <2>. QED
    BY <2>2, <2>3, <2>4
<1>10. Requests' /\ Rows'
  BY <1>3, <1>9 DEF Notice, Requests, Rows, CatalogueInv
<1>. QED
  BY <1>5, <1>7, <1>10 DEF CatalogueInv

LEMMA PriceStep ==
    ASSUME CatalogueInv, PriceNext, UNCHANGED <<masterVars, locationVars>>
    PROVE  CatalogueInv'
<1>1. rows' = rows
  BY DEF masterVars
<1>2. ASSUME NEW r \in Request, CreatePrice(r)
      PROVE  CatalogueInv'
  <2>1. PICK key, period, min :
          LET new == [key |-> key, from |-> period[1], to |-> period[2], min |-> min,
                      status |-> "ACTIVE"]
          IN /\ ~ \E p \in Price : Overlaps(new, p)
             /\ Begin(r, [op |-> "createPrice", new |-> new, obsolete |-> FALSE])
             /\ UNCHANGED <<prices, raced>>
    BY <1>2 DEF CreatePrice
  <2>. DEFINE new == [key |-> key, from |-> period[1], to |-> period[2], min |-> min,
                      status |-> "ACTIVE"]
              req == [op |-> "createPrice", new |-> new, obsolete |-> FALSE]
  <2>2. \A p \in Price : ~ Clash(prices, new, p)
    BY <2>1 DEF Overlaps, Clash
  <2>3. {"key", "from", "to", "min", "status"} \subseteq DOMAIN new
    OBVIOUS
  <2>4. Begin(r, req) /\ UNCHANGED <<prices, raced>>
    BY <2>1
  <2>. HIDE DEF new
  <2>5. RequestKept(rows, prices, req)
    BY <2>2, <2>3 DEF RequestKept, MasterKept, LocationKept, PriceKept, LocationOps
  <2>. QED
    BY <1>1, <2>4, <2>5, OneGoesOn DEF Begin
<1>3. ASSUME NEW r \in Request, UpdatePrice(r)
      PROVE  CatalogueInv'
  <2>1. PICK p \in Price : \E period \in Period : \E min \in Quantity \cup {None} :
        \E status \in Status \cup {"keep"} :
          LET new == [key |-> prices[p].key, from |-> period[1], to |-> period[2],
                      min |-> min, status |-> status]
          IN /\ ~ \E q \in Price \ {p} : Overlaps(new, q)
             /\ Begin(r, [op |-> "updatePrice", price |-> p, new |-> new, obsolete |-> FALSE])
             /\ UNCHANGED <<prices, raced>>
    BY <1>3 DEF UpdatePrice
  <2>2. PICK period, min, status :
          LET new == [key |-> prices[p].key, from |-> period[1], to |-> period[2],
                      min |-> min, status |-> status]
          IN /\ ~ \E q \in Price \ {p} : Overlaps(new, q)
             /\ Begin(r, [op |-> "updatePrice", price |-> p, new |-> new, obsolete |-> FALSE])
             /\ UNCHANGED <<prices, raced>>
    BY <2>1
  <2>. DEFINE new == [key |-> prices[p].key, from |-> period[1], to |-> period[2],
                      min |-> min, status |-> status]
              req == [op |-> "updatePrice", price |-> p, new |-> new, obsolete |-> FALSE]
  <2>3. \A q \in Price \ {p} : ~ Clash(prices, new, q)
    BY <2>2 DEF Overlaps, Clash
  <2>4. {"key", "from", "to", "min", "status"} \subseteq DOMAIN new
    OBVIOUS
  <2>5. Begin(r, req) /\ UNCHANGED <<prices, raced>>
    BY <2>2
  <2>. HIDE DEF new
  <2>6. RequestKept(rows, prices, req)
    BY <2>3, <2>4 DEF RequestKept, MasterKept, LocationKept, PriceKept, LocationOps
  <2>. QED
    BY <1>1, <2>5, <2>6, OneGoesOn DEF Begin
<1>4. ASSUME NEW r \in Request, WritePrice(r)
      PROVE  CatalogueInv'
  <2>1. RequestKept(rows, prices, request[r])
    BY DEF CatalogueInv, Requests
  <2>2. CASE request[r].op = "createPrice"
    <3>1. PICK p \in Price : prices[p] = None /\ Store(r, p)
      BY <1>4, <2>2 DEF WritePrice
    <3>. QED
      BY <1>1, <2>2, <3>1, StoreKeeps
  <2>3. CASE request[r].op = "updatePrice"
    <3>1. request[r].price \in Price /\ Store(r, request[r].price)
      BY <1>4, <2>1, <2>3 DEF WritePrice, RequestKept, PriceKept
    <3>. QED
      BY <1>1, <2>3, <3>1, StoreKeeps
  <2>. QED
    BY <1>4, <2>2, <2>3 DEF WritePrice
<1>5. ASSUME NEW r \in Request, Resolve(r)
      PROVE  CatalogueInv'
  <2>1. PICK query, next, steady :
          /\ Begin(r, [op |-> "resolve", query |-> query, next |-> next, steady |-> steady])
          /\ UNCHANGED <<prices, raced>>
    BY <1>5 DEF Resolve
  <2>. DEFINE req == [op |-> "resolve", query |-> query, next |-> next, steady |-> steady]
  <2>2. RequestKept(rows, prices, req)
    BY OtherKept DEF LocationOps
  <2>. QED
    BY <1>1, <2>1, <2>2, OneGoesOn DEF Begin
<1>6. ASSUME NEW r \in Request, LookUp(r)
      PROVE  CatalogueInv'
  <2>. DEFINE going == [request[r] EXCEPT !.next = request[r].next + 1]
              done(key) == [op |-> "resolved", key |-> key, steady |-> request[r].steady]
  <2>1. \E key : request' = [request EXCEPT ![r] = done(key)]
                 \/ request' = [request EXCEPT ![r] = going]
    BY <1>6 DEF LookUp
  <2>2. RequestKept(rows, prices, request[r]) /\ request[r].op = "resolve"
    BY <1>6 DEF CatalogueInv, Requests, LookUp
  <2>3. RequestKept(rows, prices, going)
    <3>1. "op" \in DOMAIN going /\ going.op = "resolve"
      BY <2>2 DEF RequestKept
    <3>. QED
      BY <3>1, OtherKept DEF LocationOps
  <2>4. \A key : RequestKept(rows, prices, done(key))
    BY OtherKept DEF LocationOps
  <2>5. UNCHANGED <<prices, raced>>
    BY <1>6 DEF LookUp
  <2>. HIDE DEF going, done
  <2>. QED
    BY <1>1, <2>1, <2>3, <2>4, <2>5, OneGoesOn
<1>7. ASSUME NEW r \in Request, Answer(r)
      PROVE  CatalogueInv'
  BY <1>1, <1>7, OneEnds DEF Answer
<1>. QED
  BY <1>2, <1>3, <1>4, <1>5, <1>6, <1>7 DEF PriceNext

(***************************************************************************)
(* Locations.                                                              *)
(***************************************************************************)

\* A mark of what happened at locations.
LEMMA DisturbKept ==
    ASSUME NEW table, NEW book, NEW before, NEW where,
           \A q \in Request : RequestKept(table, book, before[q])
    PROVE  \A q \in Request : RequestKept(table, book, Disturb(before, where)[q])
<1> SUFFICES ASSUME NEW q \in Request
             PROVE  RequestKept(table, book, Disturb(before, where)[q])
  OBVIOUS
<1> DEFINE v == before[q].disturbed \cup where
           told == [before[q] EXCEPT !.disturbed = v]
<1>1. RequestKept(table, book, before[q])
  OBVIOUS
<1>2. Disturb(before, where)[q] = told \/ Disturb(before, where)[q] = before[q]
  BY DEF Disturb
<1> HIDE DEF v
<1>3. RequestKept(table, book, told)
  BY <1>1, MarksKept
<1>. QED
  BY <1>1, <1>2, <1>3

\* A request for a location, over the row it is about.
LEMMA LocationRow ==
    ASSUME CatalogueInv, NEW row \in Location
    PROVE  row \in Row /\ ResourceOf[row] = "locations"
           /\ (rows[row] # None => rows[row] \in Record("locations"))
BY DEF Location, CatalogueInv, Rows

\* What is written of a location.
WrittenStatus(todo) == IF todo.status = "keep" THEN rows[todo.row].status ELSE todo.status

LEMMA WrittenLocation ==
    ASSUME CatalogueInv, NEW r \in Request, request[r].op \in LocationOps
    PROVE  LET todo == request[r]
           IN /\ todo.row \in Location /\ todo.row \in Row /\ ResourceOf[todo.row] = "locations"
              /\ todo.op = "createLocation" => todo.status = "ACTIVE"
              /\ todo.op # "createLocation" => rows[todo.row] # None
              /\ [status |-> WrittenStatus(todo), refs |-> Merged(todo.row, todo.refs)]
                    \in Record("locations")
<1> DEFINE todo == request[r]
           row == todo.row
           status == WrittenStatus(todo)
           refs == Merged(row, todo.refs)
<1>1. RequestKept(rows, prices, todo) /\ todo.op \in LocationOps
  BY DEF CatalogueInv, Requests
<1>2. /\ row \in Location /\ todo.status \in Status \cup {"keep"}
      /\ todo.op = "createLocation" =>
            todo.status = "ACTIVE" /\ todo.refs \in [References("locations") -> Row \cup {None}]
      /\ todo.op # "createLocation" =>
            rows[row] # None /\ todo.refs \in PayloadRefs("locations")
  BY <1>1 DEF RequestKept, LocationKept
<1>3. /\ row \in Row /\ ResourceOf[row] = "locations"
      /\ rows[row] # None => rows[row] \in Record("locations")
  BY <1>2, LocationRow
<1>4. todo.refs \in PayloadRefs("locations")
  BY <1>2 DEF PayloadRefs
<1>5. refs \in [References("locations") -> Row \cup {None}]
  <2>1. CASE rows[row] # None
    <3>1. rows[row].refs \in [References("locations") -> Row \cup {None}]
      BY <1>3, <2>1 DEF Record
    <3>. QED
      BY <1>4, <2>1, <3>1, MergedRefs DEF Merged, Exists
  <2>2. CASE rows[row] = None
    BY <1>2, <2>2 DEF Merged, Exists
  <2>. QED
    BY <2>1, <2>2
<1>6. status \in Status
  BY <1>2, <1>3 DEF Record, Status, WrittenStatus
<1> HIDE DEF status, refs
<1>7. [status |-> status, refs |-> refs] \in Record("locations")
  BY <1>5, <1>6 DEF Record
<1>. QED
  BY <1>2, <1>3, <1>7 DEF status, refs

LEMMA WriteLocationKeeps ==
    ASSUME CatalogueInv, NEW r \in Request, WriteLocation(r), UNCHANGED <<prices, raced>>
    PROVE  CatalogueInv'
<1> DEFINE todo == request[r]
           row == todo.row
           record == [status |-> WrittenStatus(todo), refs |-> Merged(row, todo.refs)]
           before == [request EXCEPT ![r] = Idle]
<1>1. /\ rows' = [rows EXCEPT ![row] = record]
      /\ request' = Disturb(before, Around(todo))
      /\ todo.op \in LocationOps
  BY DEF WriteLocation, WrittenStatus
<1>2. row \in Location /\ row \in Row /\ ResourceOf[row] = "locations"
  BY <1>1, WrittenLocation
<1>3. record \in Record("locations")
  BY <1>1, WrittenLocation
<1> HIDE DEF record, before
<1>4. Rows' /\ RowsGoOn({row})
  BY <1>1, <1>2, <1>3, RowWritten DEF CatalogueInv, RowsGoOn
<1>5. before = [q \in Request |-> before[q]] /\ \A q \in Request : RequestKept(rows, prices, before[q])
  BY IdleKept DEF CatalogueInv, Requests, before
<1>6. \A q \in Request : RequestKept(rows', prices', before[q])
  <2> SUFFICES ASSUME NEW q \in Request
               PROVE  RequestKept(rows', prices', before[q])
    OBVIOUS
  <2>. DEFINE req == before[q]
  <2>1. RequestKept(rows, prices, req)
    BY <1>5
  <2>2. req.op \in {"create", "update"} => {row} \cap Named(req.refs) = {}
    BY <1>2, <2>1 DEF RequestKept, MasterKept, Named
  <2>. HIDE DEF req
  <2>3. RequestKept(rows', prices', req)
    BY <1>2, <1>4, <2>1, <2>2, GoesOn
  <2>. QED
    BY <2>3 DEF req
<1>7. Requests'
  BY <1>1, <1>6, DisturbKept DEF Disturb, Requests
<1>. QED
  BY <1>4, <1>7 DEF CatalogueInv, PricesDisjointUnlessRaced

LEMMA LocationStep ==
    ASSUME CatalogueInv, LocationNext, UNCHANGED <<prices, raced>>
    PROVE  CatalogueInv'
<1>1. ASSUME NEW r \in Request, CreateLocation(r)
      PROVE  CatalogueInv'
  <2>1. PICK refs \in RefsPayload("locations", TRUE), isLeaf \in {"yes", "no"} :
          /\ FreshIds # {}
          /\ Begin(r, [op |-> "createLocation", row |-> CHOOSE l \in FreshIds : TRUE,
                       refs |-> refs, leaf |-> isLeaf, status |-> "ACTIVE",
                       unchecked |-> Named(refs), counted |-> TRUE, disturbed |-> {}])
          /\ UNCHANGED rows
    BY <1>1 DEF CreateLocation, masterVars
  <2>. DEFINE row == CHOOSE l \in FreshIds : TRUE
              req == [op |-> "createLocation", row |-> row,
                      refs |-> refs, leaf |-> isLeaf, status |-> "ACTIVE",
                      unchecked |-> Named(refs), counted |-> TRUE, disturbed |-> {}]
  <2>2. row \in Location
    BY <2>1 DEF FreshIds, Unborn, Location
  <2>3. Begin(r, req)
    BY <2>1
  <2>. HIDE DEF row
  <2>4. RequestKept(rows, prices, req)
    <3>1. refs \in [References("locations") -> Row \cup {None}]
      BY PayloadKept
    <3>2. LocationKept(rows, req)
      BY <2>2, <3>1 DEF LocationKept, Status
    <3>. QED
      BY <3>2 DEF RequestKept, MasterKept, PriceKept
  <2>. QED
    BY <2>1, <2>3, <2>4, OneGoesOn DEF Begin
<1>2. ASSUME NEW r \in Request, UpdateLocation(r)
      PROVE  CatalogueInv'
  <2>1. PICK row \in Location, refs \in RefsPayload("locations", FALSE) :
          \E status \in Status \cup {"keep"} : \E isLeaf, unchecked, counted :
             /\ Exists(row)
             /\ Begin(r, [op |-> "updateLocation", row |-> row, refs |-> refs, leaf |-> isLeaf,
                          status |-> status, unchecked |-> unchecked, counted |-> counted,
                          disturbed |-> {}])
             /\ UNCHANGED rows
    BY <1>2 DEF UpdateLocation, masterVars
  <2>2. PICK status \in Status \cup {"keep"} : \E isLeaf, unchecked, counted :
             /\ Exists(row)
             /\ Begin(r, [op |-> "updateLocation", row |-> row, refs |-> refs, leaf |-> isLeaf,
                          status |-> status, unchecked |-> unchecked, counted |-> counted,
                          disturbed |-> {}])
             /\ UNCHANGED rows
    BY <2>1
  <2>3. \A isLeaf, unchecked, counted :
          RequestKept(rows, prices,
              [op |-> "updateLocation", row |-> row, refs |-> refs, leaf |-> isLeaf,
               status |-> status, unchecked |-> unchecked, counted |-> counted,
               disturbed |-> {}])
    <3> SUFFICES ASSUME NEW isLeaf, NEW unchecked, NEW counted
                 PROVE  RequestKept(rows, prices,
                            [op |-> "updateLocation", row |-> row, refs |-> refs,
                             leaf |-> isLeaf, status |-> status, unchecked |-> unchecked,
                             counted |-> counted, disturbed |-> {}])
      OBVIOUS
    <3>. DEFINE req == [op |-> "updateLocation", row |-> row, refs |-> refs, leaf |-> isLeaf,
                        status |-> status, unchecked |-> unchecked, counted |-> counted,
                        disturbed |-> {}]
    <3>1. refs \in PayloadRefs("locations")
      BY PayloadKept
    <3>2. LocationKept(rows, req)
      BY <2>2, <3>1 DEF LocationKept, Exists
    <3>. QED
      BY <3>2 DEF RequestKept, MasterKept, PriceKept
  <2>. QED
    BY <2>2, <2>3, OneGoesOn DEF Begin
<1>3. ASSUME NEW r \in Request, DeactivateLocation(r)
      PROVE  CatalogueInv'
  <2>. DEFINE refs == [t \in References("locations") |-> "keep"]
  <2>1. PICK row \in Location :
          /\ Exists(row)
          /\ Begin(r, [op |-> "deactivateLocation", row |-> row, refs |-> refs, leaf |-> "keep",
                       status |-> "INACTIVE", unchecked |-> {}, counted |-> FALSE,
                       disturbed |-> {}])
          /\ UNCHANGED rows
    BY <1>3 DEF DeactivateLocation, masterVars
  <2>. DEFINE req == [op |-> "deactivateLocation", row |-> row, refs |-> refs, leaf |-> "keep",
                      status |-> "INACTIVE", unchecked |-> {}, counted |-> FALSE,
                      disturbed |-> {}]
  <2>2. refs \in PayloadRefs("locations")
    BY DEF PayloadRefs
  <2>. HIDE DEF refs
  <2>3. RequestKept(rows, prices, req)
    BY <2>1, <2>2 DEF RequestKept, MasterKept, LocationKept, PriceKept, Exists, Status
  <2>. QED
    BY <2>1, <2>3, OneGoesOn DEF Begin
<1>4. ASSUME NEW r \in Request, CheckPlace(r) \/ CountStock(r)
      PROVE  CatalogueInv'
  <2>1. UNCHANGED rows /\ RequestKept(rows, prices, request[r]) /\ request[r].op \in LocationOps
    BY <1>4 DEF CheckPlace, CountStock, masterVars, CatalogueInv, Requests
  <2>2. \A v : /\ RequestKept(rows, prices, [request[r] EXCEPT !.unchecked = v])
               /\ RequestKept(rows, prices, [request[r] EXCEPT !.counted = v])
    BY <2>1 DEF RequestKept, MasterKept, LocationKept, PriceKept, LocationOps
  <2>3. CASE CheckPlace(r)
    <3>1. PICK row \in request[r].unchecked :
            End(r) \/ request' = [request EXCEPT ![r] = [request[r] EXCEPT
                                     !.unchecked = request[r].unchecked \ {row}]]
      BY <2>3 DEF CheckPlace
    <3>. QED
      BY <2>1, <2>2, <3>1, OneEnds, OneGoesOn
  <2>4. CASE CountStock(r)
    <3>1. End(r) \/ request' = [request EXCEPT ![r] = [request[r] EXCEPT !.counted = TRUE]]
      BY <2>4 DEF CountStock
    <3>. QED
      BY <2>1, <2>2, <3>1, OneEnds, OneGoesOn
  <2>. QED
    BY <1>4, <2>3, <2>4
<1>5. ASSUME Post
      PROVE  CatalogueInv'
  <2>1. PICK l \in leaf : request' = Disturb(request, {l})
    BY <1>5 DEF Post
  <2>2. rows' = rows
    BY <1>5 DEF Post, masterVars
  <2>3. \A q \in Request : RequestKept(rows', prices', Disturb(request, {l})[q])
    BY <2>2, DisturbKept DEF CatalogueInv, Requests
  <2>4. Requests'
    BY <2>1, <2>3 DEF Disturb, Requests
  <2>. QED
    BY <2>2, <2>4 DEF CatalogueInv, Rows, PricesDisjointUnlessRaced
<1>. QED
  BY <1>1, <1>2, <1>3, <1>4, <1>5, WriteLocationKeeps DEF LocationNext

(***************************************************************************)
(* The theorems.                                                           *)
(***************************************************************************)

\* At the start nothing is in progress and the prices do not overlap.
LEMMA CatalogueStart == CatalogueInit => CatalogueInv
<1> SUFFICES ASSUME CatalogueInit
             PROVE  CatalogueInv
  OBVIOUS
<1>1. Rows
  <2>1. \A row \in Row \cap ToSet(FirstRows) :
           [status |-> "ACTIVE", refs |-> FirstRefs[row]] \in Record(ResourceOf[row])
    BY MasterAssumption DEF Record, Status
  <2>2. rows = [row \in Row |-> IF row \in ToSet(FirstRows)
                                THEN [status |-> "ACTIVE", refs |-> FirstRefs[row]]
                                ELSE None]
    BY DEF CatalogueInit, MasterInit
  <2>. QED
    BY <2>1, <2>2 DEF Rows
<1>2. Requests
  BY IdleKept DEF CatalogueInit, MasterInit, Requests
<1>3. prices = [p \in Price |-> prices[p]] /\ PricesDisjointUnlessRaced
  BY PriceBookAssumption DEF CatalogueInit, PriceInit, PricesDisjointUnlessRaced
<1>. QED
  BY <1>1, <1>2, <1>3 DEF CatalogueInv

LEMMA CatalogueStep == CatalogueInv /\ [CatalogueNext]_catalogueVars => CatalogueInv'
<1> SUFFICES ASSUME CatalogueInv, [CatalogueNext]_catalogueVars
             PROVE  CatalogueInv'
  OBVIOUS
<1>1. CASE UNCHANGED catalogueVars
  BY <1>1 DEF catalogueVars, masterVars, CatalogueInv, Rows, Requests, PricesDisjointUnlessRaced
<1>. QED
  BY <1>1, MasterStep, PriceStep, LocationStep DEF CatalogueNext

\* The invariant of the catalogue.
THEOREM CatalogueInvariant == CatalogueSpec => []CatalogueInv
BY CatalogueStart, CatalogueStep, PTL DEF CatalogueSpec

\* Two active prices of one key are effective at the same time only if a write came
\* between the comparison of one of them and its own write (createPrice, updatePrice).
THEOREM PricesStayDisjoint == CatalogueSpec => []PricesDisjointUnlessRaced
<1>1. CatalogueInv => PricesDisjointUnlessRaced
  BY DEF CatalogueInv
<1>. QED
  BY <1>1, CatalogueInvariant, PTL

(***************************************************************************)
(* Resolutions.                                                            *)
(***************************************************************************)

\* The keys that had an effective price all the time are still to be looked at, and
\* the answer is of one that none of them beats.
ResolveKept(book, req) ==
    /\ req.op = "resolve" =>
          /\ DOMAIN req = {"op", "query", "next", "steady"} /\ req.next \in 1..4
          /\ \A key \in req.steady : /\ EffectivePrices(key, req.query, book) # {}
                                     /\ \E n \in req.next..4 : key = Specificity[n]
    /\ req.op = "resolved" =>
          /\ DOMAIN req = {"op", "key", "steady"}
          /\ \A key \in req.steady : req.key # None /\ ~ Beats(key, req.key)

Resolutions == \A r \in Request : ResolveKept(prices, request[r])

\* The places of the keys in the order of findPrice.
LEMMA PlacesDiffer ==
    /\ \A n \in 1..4 : Specificity[n] # None
    /\ \A n, m \in 1..4 : Specificity[n] = Specificity[m] => n = m
    /\ DOMAIN Specificity = 1..4
<1>1. DOMAIN Specificity = 1..4
  BY DEF Specificity
<1>2. \A n \in 1..4 : Specificity[n] \in ToSet(Specificity)
  BY <1>1 DEF ToSet
<1>3. \A n, m \in 1..4 : Specificity[n] = Specificity[m] => n = m
  BY DEF Specificity
<1>. QED
  BY <1>1, <1>2, <1>3, PriceBookAssumption

LEMMA LaterIsBeaten ==
    ASSUME NEW n \in 1..4, NEW m \in n..4
    PROVE  ~ Beats(Specificity[m], Specificity[n])
<1>1. ASSUME NEW i \in 1..4, NEW j \in 1..4, i < j,
             Specificity[i] = Specificity[m], Specificity[j] = Specificity[n]
      PROVE  FALSE
  BY <1>1, PlacesDiffer
<1>. QED
  BY <1>1, PlacesDiffer DEF Beats

\* A request about something else.
LEMMA OtherResolve ==
    ASSUME NEW book, NEW req, req.op \notin {"resolve", "resolved"}
    PROVE  ResolveKept(book, req)
BY DEF ResolveKept

LEMMA OneResolves ==
    ASSUME CatalogueInv, Resolutions, prices' = prices, NEW r \in Request, NEW req,
           ResolveKept(prices, req), request' = [request EXCEPT ![r] = req]
    PROVE  Resolutions'
BY DEF CatalogueInv, Requests, Resolutions

LEMMA EndResolves ==
    ASSUME CatalogueInv, Resolutions, prices' = prices, NEW r \in Request, End(r)
    PROVE  Resolutions'
<1>1. ResolveKept(prices, Idle)
  BY DEF ResolveKept, Idle
<1>. QED
  BY <1>1, OneResolves DEF End

\* What other steps leave on a request.
LEMMA LapseResolves ==
    ASSUME NEW book, NEW before, NEW row, NEW q \in Request, "op" \in DOMAIN before[q],
           ResolveKept(book, before[q])
    PROVE  ResolveKept(book, Lapse(row, before)[q])
BY DEF Lapse, ResolveKept

LEMMA DisturbResolves ==
    ASSUME NEW book, NEW before, NEW where, NEW q \in Request, "op" \in DOMAIN before[q],
           ResolveKept(book, before[q])
    PROVE  ResolveKept(book, Disturb(before, where)[q])
<1>. DEFINE req == before[q]
            v == req.disturbed \cup where
            told == [req EXCEPT !.disturbed = v]
<1>1. CASE "disturbed" \notin DOMAIN req
  BY <1>1 DEF Disturb
<1>2. CASE "disturbed" \in DOMAIN req
  <2>1. req.op \notin {"resolve", "resolved"}
    BY <1>2 DEF ResolveKept
  <2>2. Disturb(before, where)[q] = told
    BY <1>2 DEF Disturb
  <2>. HIDE DEF v
  <2>3. told.op = req.op
    OBVIOUS
  <2>. HIDE DEF told
  <2>. QED
    BY <2>1, <2>2, <2>3, OtherResolve
<1>. QED
  BY <1>1, <1>2

\* Master data and locations.
LEMMA MasterResolves ==
    ASSUME CatalogueInv, Resolutions, MasterNext, prices' = prices
    PROVE  Resolutions'
<1>0. \A q \in Request : "op" \in DOMAIN request[q] /\ ResolveKept(prices, request[q])
  BY DEF CatalogueInv, Requests, RequestKept, Resolutions
<1>1. \A r \in Request : End(r) => Resolutions'
  BY EndResolves
<1>2. \A r \in Request : \A req : Begin(r, req) /\ req.op \in {"create", "update"} => Resolutions'
  BY OneResolves, OtherResolve DEF Begin
<1>3. ASSUME NEW r \in Request, CheckReference(r)
      PROVE  Resolutions'
  <2>1. request[r].op \in {"create", "update"}
    BY <1>3 DEF CheckReference
  <2>2. End(r) \/ \E v : request' = [request EXCEPT ![r] = [request[r] EXCEPT !.unchecked = v]]
    BY <1>3 DEF CheckReference
  <2>3. \A v : [request[r] EXCEPT !.unchecked = v].op = request[r].op
    BY <1>0
  <2>. QED
    BY <1>1, <2>1, <2>2, <2>3, OneResolves, OtherResolve
<1>4. ASSUME NEW row, NEW r \in Request, NEW before,
             before \in {request, [request EXCEPT ![r] = Idle]},
             request' = before \/ request' = Lapse(row, before)
      PROVE  Resolutions'
  <2>1. \A q \in Request : "op" \in DOMAIN before[q] /\ ResolveKept(prices, before[q])
    BY <1>0, <1>4, OtherResolve DEF Idle, CatalogueInv, Requests
  <2>2. \A q \in Request : ResolveKept(prices, request'[q])
    BY <1>4, <2>1, LapseResolves
  <2>. QED
    BY <2>2 DEF Resolutions
<1>5. ASSUME NEW r \in Request, Create(r) \/ Update(r)
      PROVE  Resolutions'
  <2>1. CASE Create(r)
    BY <1>2, <2>1 DEF Create
  <2>2. CASE Update(r)
    BY <1>2, <2>2 DEF Update
  <2>. QED
    BY <1>5, <2>1, <2>2
<1>6. ASSUME NEW r \in Request, WriteUpdate(r)
      PROVE  Resolutions'
  <2>1. LET ended == [request EXCEPT ![r] = Idle]
        IN request' = ended \/ request' = Lapse(request[r].row, ended)
    BY <1>6 DEF WriteUpdate
  <2>. QED
    BY <1>4, <2>1
<1>7. ASSUME NEW r \in Request, Deactivate(r)
      PROVE  Resolutions'
  <2>1. \E row : request' = Lapse(row, request)
    BY <1>7 DEF Deactivate
  <2>. QED
    BY <1>4, <2>1
<1>8. BeginExport \/ ExportPage => Resolutions'
  BY DEF BeginExport, ExportPage, Resolutions
<1>. QED
  BY <1>1, <1>3, <1>5, <1>6, <1>7, <1>8 DEF MasterNext, WriteCreate

LEMMA LocationResolves ==
    ASSUME CatalogueInv, Resolutions, LocationNext, prices' = prices
    PROVE  Resolutions'
<1>0. \A q \in Request : "op" \in DOMAIN request[q] /\ ResolveKept(prices, request[q])
  BY DEF CatalogueInv, Requests, RequestKept, Resolutions
<1>1. \A r \in Request : End(r) => Resolutions'
  BY EndResolves
<1>2. \A r \in Request : \A req : Begin(r, req) /\ req.op \in LocationOps => Resolutions'
  BY OneResolves, OtherResolve DEF Begin, LocationOps
<1>3. ASSUME NEW r \in Request, CreateLocation(r) \/ UpdateLocation(r) \/ DeactivateLocation(r)
      PROVE  Resolutions'
  <2>1. CASE CreateLocation(r)
    BY <1>2, <2>1 DEF CreateLocation, LocationOps
  <2>2. CASE UpdateLocation(r)
    BY <1>2, <2>2 DEF UpdateLocation, LocationOps
  <2>3. CASE DeactivateLocation(r)
    BY <1>2, <2>3 DEF DeactivateLocation, LocationOps
  <2>. QED
    BY <1>3, <2>1, <2>2, <2>3
<1>4. ASSUME NEW r \in Request, CheckPlace(r) \/ CountStock(r)
      PROVE  Resolutions'
  <2>1. request[r].op \in LocationOps
    BY <1>4 DEF CheckPlace, CountStock
  <2>2. \/ End(r)
        \/ \E v : \/ request' = [request EXCEPT ![r] = [request[r] EXCEPT !.unchecked = v]]
                  \/ request' = [request EXCEPT ![r] = [request[r] EXCEPT !.counted = v]]
    BY <1>4 DEF CheckPlace, CountStock
  <2>3. \A v : /\ [request[r] EXCEPT !.unchecked = v].op = request[r].op
               /\ [request[r] EXCEPT !.counted = v].op = request[r].op
    BY <1>0
  <2>. QED
    BY <1>1, <2>1, <2>2, <2>3, OneResolves, OtherResolve DEF LocationOps
<1>5. ASSUME NEW before, NEW where, NEW r \in Request,
             before \in {request, [request EXCEPT ![r] = Idle]},
             request' = Disturb(before, where)
      PROVE  Resolutions'
  <2>1. \A q \in Request : "op" \in DOMAIN before[q] /\ ResolveKept(prices, before[q])
    BY <1>0, <1>5, OtherResolve DEF Idle, CatalogueInv, Requests
  <2>2. \A q \in Request : ResolveKept(prices, request'[q])
    BY <1>5, <2>1, DisturbResolves
  <2>. QED
    BY <2>2 DEF Resolutions
<1>6. ASSUME NEW r \in Request, WriteLocation(r)
      PROVE  Resolutions'
  <2>1. request' = Disturb([request EXCEPT ![r] = Idle], Around(request[r]))
    BY <1>6 DEF WriteLocation
  <2>. QED
    BY <1>5, <2>1
<1>7. ASSUME Post
      PROVE  Resolutions'
  <2>1. PICK l : request' = Disturb(request, {l})
    BY <1>7 DEF Post
  <2>2. \A q \in Request : ResolveKept(prices, request'[q])
    BY <1>0, <2>1, DisturbResolves
  <2>. QED
    BY <2>2 DEF Resolutions
<1>. QED
  BY <1>3, <1>4, <1>6, <1>7 DEF LocationNext

\* A write of prices takes the keys without an effective price from every resolution.
LEMMA StoreResolves ==
    ASSUME CatalogueInv, Resolutions, NEW r \in Request, NEW p, Store(r, p)
    PROVE  Resolutions'
<1>. DEFINE before == [request EXCEPT ![r] = Idle]
<1>1. request' = Notice(before, prices')
  BY DEF Store
<1>2. \A q \in Request : "op" \in DOMAIN before[q] /\ ResolveKept(prices, before[q])
  BY OtherResolve DEF Idle, CatalogueInv, Requests, RequestKept, Resolutions
<1>. HIDE DEF before
<1>3. ASSUME NEW q \in Request
      PROVE  ResolveKept(prices', request'[q])
  <2>. DEFINE req == before[q]
              v == {key \in req.steady : EffectivePrices(key, req.query, prices') # {}}
              told == [req EXCEPT !.obsolete = TRUE]
              seen == [req EXCEPT !.steady = v]
  <2>1. "op" \in DOMAIN req /\ ResolveKept(prices, req)
    BY <1>2
  <2>2. CASE req.op \in {"createPrice", "updatePrice"}
    <3>1. request'[q] = told
      BY <1>1, <2>2 DEF Notice
    <3>. HIDE DEF req
    <3>2. told.op = req.op
      BY <2>1
    <3>. QED
      BY <2>2, <3>1, <3>2, OtherResolve
  <2>3. CASE req.op = "resolve"
    <3>1. request'[q] = seen
      BY <1>1, <2>3 DEF Notice
    <3>. HIDE DEF req
    <3>2. v \subseteq req.steady /\ \A key \in v : EffectivePrices(key, req.query, prices') # {}
      OBVIOUS
    <3>. HIDE DEF v
    <3>3. /\ DOMAIN seen = DOMAIN req /\ seen.op = req.op /\ seen.query = req.query
          /\ seen.next = req.next /\ seen.steady = v
      BY <2>1, <2>3 DEF ResolveKept
    <3>. HIDE DEF seen
    <3>4. ResolveKept(prices', seen)
      BY <2>1, <2>3, <3>2, <3>3 DEF ResolveKept
    <3>. QED
      BY <3>1, <3>4
  <2>4. CASE req.op \notin {"createPrice", "updatePrice", "resolve"}
    <3>1. request'[q] = req
      BY <1>1, <2>4 DEF Notice
    <3>. HIDE DEF req
    <3>. QED
      BY <2>1, <2>4, <3>1 DEF ResolveKept
  <2>. QED
    BY <2>2, <2>3, <2>4
<1>. QED
  BY <1>3 DEF Resolutions

LEMMA PriceResolves ==
    ASSUME CatalogueInv, Resolutions, PriceNext
    PROVE  Resolutions'
<1>1. ASSUME NEW r \in Request, CreatePrice(r) \/ UpdatePrice(r)
      PROVE  Resolutions'
  <2>1. \A req : Begin(r, req) /\ req.op \in {"createPrice", "updatePrice"} /\ prices' = prices
                    => Resolutions'
    BY OneResolves, OtherResolve DEF Begin
  <2>2. CASE CreatePrice(r)
    BY <2>1, <2>2 DEF CreatePrice
  <2>3. CASE UpdatePrice(r)
    BY <2>1, <2>3 DEF UpdatePrice
  <2>. QED
    BY <1>1, <2>2, <2>3
<1>2. ASSUME NEW r \in Request, Resolve(r)
      PROVE  Resolutions'
  <2>1. PICK query \in [customer : BOOLEAN, quantity : Quantity, at : Time] :
          /\ Begin(r, [op |-> "resolve", query |-> query, next |-> FirstPlace(query),
                       steady |-> {key \in Key \cap Candidates(query) :
                                     EffectivePrices(key, query, prices) # {}}])
          /\ UNCHANGED <<prices, raced>>
    BY <1>2 DEF Resolve
  <2>. DEFINE steady == {key \in Key \cap Candidates(query) :
                            EffectivePrices(key, query, prices) # {}}
              next == FirstPlace(query)
              req == [op |-> "resolve", query |-> query, next |-> next, steady |-> steady]
  <2>2. next \in 1..4
    BY DEF FirstPlace
  <2>3. \A key \in steady : /\ EffectivePrices(key, query, prices) # {}
                            /\ \E n \in next..4 : key = Specificity[n]
    BY DEF Candidates
  <2>4. request' = [request EXCEPT ![r] = req] /\ prices' = prices
    BY <2>1 DEF Begin
  <2>. HIDE DEF next, steady
  <2>5. ResolveKept(prices, req)
    BY <2>2, <2>3 DEF ResolveKept
  <2>. QED
    BY <2>4, <2>5, OneResolves
<1>3. ASSUME NEW r \in Request, LookUp(r)
      PROVE  Resolutions'
  <2>. DEFINE old == request[r]
              next == old.next
              key == Specificity[next]
              found == EffectivePrices(key, old.query, prices)
              going == [old EXCEPT !.next = next + 1]
              done(answer) == [op |-> "resolved", key |-> answer, steady |-> old.steady]
  <2>1. /\ DOMAIN old = {"op", "query", "next", "steady"} /\ next \in 1..4
        /\ old.op = "resolve"
        /\ \A k \in old.steady : /\ EffectivePrices(k, old.query, prices) # {}
                                 /\ \E n \in next..4 : k = Specificity[n]
    BY <1>3 DEF LookUp, Resolutions, ResolveKept
  <2>2. /\ request' = [request EXCEPT ![r] =
             IF found = {} /\ next < 4 THEN going ELSE done(IF found = {} THEN None ELSE key)]
        /\ prices' = prices
    BY <1>3 DEF LookUp, Candidate
  <2>3. found = {} => \A k \in old.steady : \E n \in (next + 1)..4 : k = Specificity[n]
    <3> SUFFICES ASSUME found = {}, NEW k \in old.steady
                 PROVE  \E n \in (next + 1)..4 : k = Specificity[n]
      OBVIOUS
    <3>1. PICK n \in next..4 : k = Specificity[n]
      BY <2>1
    <3>2. n # next
      BY <2>1, <3>1
    <3>. QED
      BY <2>1, <3>1, <3>2
  <2>4. CASE found = {} /\ next < 4
    <3>. HIDE DEF old, found
    <3>1. /\ DOMAIN going = DOMAIN old /\ going.op = old.op /\ going.query = old.query
          /\ going.steady = old.steady /\ going.next = next + 1
      BY <2>1
    <3>2. next + 1 \in 1..4
      BY <2>1, <2>4
    <3>. HIDE DEF going, next
    <3>3. ResolveKept(prices, going)
      BY <2>1, <2>3, <2>4, <3>1, <3>2 DEF ResolveKept
    <3>. QED
      BY <2>2, <2>4, <3>3, OneResolves
  <2>5. CASE found = {} /\ ~ (next < 4)
    <3>1. old.steady = {}
      BY <2>1, <2>3, <2>5
    <3>2. ResolveKept(prices, done(None))
      BY <3>1 DEF ResolveKept
    <3>. HIDE DEF done, found
    <3>. QED
      BY <2>2, <2>5, <3>2, OneResolves
  <2>6. CASE found # {}
    <3>1. key # None /\ \A k \in old.steady : ~ Beats(k, key)
      BY <2>1, PlacesDiffer, LaterIsBeaten
    <3>. HIDE DEF key
    <3>2. ResolveKept(prices, done(key))
      BY <3>1 DEF ResolveKept
    <3>. HIDE DEF done, found
    <3>. QED
      BY <2>2, <2>6, <3>2, OneResolves
  <2>. QED
    BY <2>4, <2>5, <2>6
<1>4. ASSUME NEW r \in Request, Answer(r)
      PROVE  Resolutions'
  BY <1>4, EndResolves DEF Answer
<1>. QED
  BY <1>1, <1>2, <1>3, <1>4, StoreResolves DEF PriceNext, WritePrice

LEMMA ResolutionsStep ==
    CatalogueInv /\ Resolutions /\ [CatalogueNext]_catalogueVars => Resolutions'
<1> SUFFICES ASSUME CatalogueInv, Resolutions, [CatalogueNext]_catalogueVars
             PROVE  Resolutions'
  OBVIOUS
<1>1. CASE UNCHANGED catalogueVars
  BY <1>1 DEF catalogueVars, Resolutions
<1>. QED
  BY <1>1, MasterResolves, PriceResolves, LocationResolves DEF CatalogueNext

\* A resolution answers with no price while one was effective all the time for a key
\* that comes first, whatever is written between its look-ups (findPrice); and prices
\* overlap only where a write was raced.
THEOREM PricesStaySound == CatalogueSpec => []PricesSound
<1>1. CatalogueInit => Resolutions
  BY OtherResolve DEF CatalogueInit, MasterInit, Idle, Resolutions
<1>2. CatalogueInv /\ Resolutions => PricesSound
  BY DEF CatalogueInv, PricesSound, ResolvedFairly, Resolutions, ResolveKept
<1>. QED
  BY <1>1, <1>2, CatalogueStart, CatalogueStep, ResolutionsStep, PTL DEF CatalogueSpec

\* Who refers to what a write has left in the row.
Sound(row) ==
    (Exists(row)' /\ rows'[row] # rows[row] /\ ResourceOf[row] # "locations") =>
        \A t \in DOMAIN rows'[row].refs :
            LET chosen == rows'[row].refs[t]
            IN \/ chosen = None
               \/ Exists(row) /\ rows[row].refs[t] = chosen
               \/ Active(chosen)
               \/ \E r \in Request : request[r] # request'[r] /\ request[r].lapsed

\* A request that has looked at all its references.
LEMMA Vouched ==
    ASSUME CatalogueInv, NEW r \in Request, request[r].op \in {"create", "update"},
           request[r].unchecked = {}, NEW t \in DOMAIN request[r].refs
    PROVE  \/ request[r].refs[t] \in {None, "keep"}
           \/ Active(request[r].refs[t])
           \/ request[r].lapsed
BY DEF CatalogueInv, Requests, RequestKept, MasterKept, Active, Exists

LEMMA MasterSound ==
    ASSUME CatalogueInv, MasterNext, NEW row \in Row
    PROVE  Sound(row)
<1>1. ASSUME NEW r \in Request, WriteCreate(r)
      PROVE  Sound(row)
  <2>. DEFINE born == CHOOSE x \in Unborn(request[r].resource) : TRUE
              record == [status |-> "ACTIVE", refs |-> request[r].refs]
  <2>1. /\ request[r].op = "create" /\ request[r].unchecked = {}
        /\ request' = [request EXCEPT ![r] = Idle]
        /\ rows' = rows \/ rows' = [rows EXCEPT ![born] = record]
    BY <1>1 DEF WriteCreate, End
  <2>2. request'[r] # request[r]
    BY <2>1 DEF CatalogueInv, Requests, Idle
  <2>3. request[r].refs \in [References(request[r].resource) -> Row \cup {None}]
    BY <2>1 DEF CatalogueInv, Requests, RequestKept, MasterKept
  <2>4. \A t \in DOMAIN request[r].refs :
           request[r].refs[t] = None \/ Active(request[r].refs[t]) \/ request[r].lapsed
    BY <2>1, <2>3, Vouched, MasterAssumption
  <2>5. record.refs = request[r].refs
    OBVIOUS
  <2>. HIDE DEF born, record
  <2>6. rows'[row] = rows[row] \/ rows'[row] = record
    BY <2>1 DEF CatalogueInv, Rows
  <2>. QED
    BY <2>2, <2>4, <2>5, <2>6 DEF Sound
<1>2. ASSUME NEW r \in Request, WriteUpdate(r)
      PROVE  Sound(row)
  <2>. DEFINE written == request[r].row
              status == IF request[r].status = "keep" THEN rows[written].status
                                                      ELSE request[r].status
              refs == Kept(rows[written].refs, request[r].refs)
              record == [status |-> status, refs |-> refs]
              ended == [request EXCEPT ![r] = Idle]
  <2>1. /\ request[r].op = "update" /\ request[r].unchecked = {}
        /\ request' = Lapse(written, ended) \/ request' = ended
        /\ rows' = [rows EXCEPT ![written] = record]
    BY <1>2 DEF WriteUpdate
  <2>2. /\ written \in Row /\ rows[written] # None
        /\ rows[written] \in Record(ResourceOf[written])
        /\ request[r].refs \in PayloadRefs(ResourceOf[written])
    BY <2>1 DEF CatalogueInv, Rows, Requests, RequestKept, MasterKept
  <2>3. request'[r] # request[r]
    <3>1. ended[r] = Idle
      BY DEF CatalogueInv, Requests
    <3>2. request'[r] = Idle
      BY <2>1, <3>1 DEF Lapse, Idle
    <3>. QED
      BY <2>1, <3>2 DEF Idle
  <2>4. /\ DOMAIN refs = DOMAIN request[r].refs
        /\ \A t \in DOMAIN refs :
              refs[t] = IF request[r].refs[t] = "keep" THEN rows[written].refs[t]
                                                       ELSE request[r].refs[t]
    BY <2>2 DEF Kept, PayloadRefs, Record
  <2>5. \A t \in DOMAIN refs :
           \/ refs[t] = None \/ refs[t] = rows[written].refs[t]
           \/ Active(refs[t]) \/ request[r].lapsed
    BY <2>1, <2>4, Vouched
  <2>6. record.refs = refs
    OBVIOUS
  <2>. HIDE DEF record, refs, ended
  <2>7. rows'[row] = rows[row] \/ (row = written /\ rows'[row] = record)
    BY <2>1 DEF CatalogueInv, Rows
  <2>. QED
    BY <2>2, <2>3, <2>5, <2>6, <2>7 DEF Sound, Exists
<1>3. ASSUME NEW r \in Request, Deactivate(r)
      PROVE  Sound(row)
  <2>1. PICK x \in Row : Exists(x) /\ rows' = [rows EXCEPT ![x].status = "INACTIVE"]
    BY <1>3 DEF Deactivate
  <2>2. rows[x] \in Record(ResourceOf[x])
    BY <2>1 DEF CatalogueInv, Rows, Exists
  <2>3. rows'[row] = rows[row] \/ (Exists(row) /\ rows'[row].refs = rows[row].refs)
    BY <2>1, <2>2 DEF CatalogueInv, Rows, Record
  <2>. QED
    BY <2>3 DEF Sound
<1>4. UNCHANGED rows => Sound(row)
  BY DEF Sound
<1>. QED
  BY <1>1, <1>2, <1>3, <1>4 DEF MasterNext, Create, Update, CheckReference, BeginExport,
                                ExportPage, masterVars

\* A record refers only to what was active when it was written, or was taken out of
\* use after the request had looked at it (ensureActive of MasterDataService).
THEOREM ReferencesAreChosenWhileActive == CatalogueSpec => ChosenWhileActive
<1>1. CatalogueInv /\ [CatalogueNext]_catalogueVars => \A row \in Row : Sound(row)
  <2> SUFFICES ASSUME CatalogueInv, [CatalogueNext]_catalogueVars, NEW row \in Row
               PROVE  Sound(row)
    OBVIOUS
  <2>1. ASSUME NEW r \in Request, WriteLocation(r)
        PROVE  Sound(row)
    <3>1. request[r].row \in Location
      BY <2>1 DEF WriteLocation, CatalogueInv, Requests, RequestKept, LocationKept
    <3>2. ResourceOf[row] # "locations" => rows'[row] = rows[row]
      BY <2>1, <3>1 DEF WriteLocation, Location, CatalogueInv, Rows
    <3>. QED
      BY <3>2 DEF Sound
  <2>2. UNCHANGED rows => Sound(row)
    BY DEF Sound
  <2>3. LocationNext => UNCHANGED rows \/ \E r \in Request : WriteLocation(r)
    BY DEF LocationNext, CreateLocation, UpdateLocation, DeactivateLocation, CheckPlace,
           CountStock, Post, masterVars
  <2>. QED
    BY <2>1, <2>2, <2>3, MasterSound DEF CatalogueNext, catalogueVars, masterVars
<1>2. CatalogueSpec => [][\A row \in Row : Sound(row)]_catalogueVars
  BY <1>1, CatalogueInvariant, PTL DEF CatalogueSpec
<1>. QED
  BY <1>2 DEF ChosenWhileActive, Sound

(***************************************************************************)
(* The tree of locations.  A request that is overtaken at one of the       *)
(* places it is about is told of it (disturbed); one that is not finds at  *)
(* its write what it found at its checks.                                  *)
(***************************************************************************)

InUse(table, row) == table[row] # None /\ table[row].status = "ACTIVE"

Children(table, l) == {c \in Location : InUse(table, c) /\ Parent(table[c].refs) = l}

PlaceOf(table, req) ==
    Parent(IF table[req.row] # None THEN Kept(table[req.row].refs, req.refs) ELSE req.refs)

\* What a request that was not told knows of its row and of the parent.
Knows(table, stock, req) ==
    /\ req.op = "createLocation" => table[req.row] = None
    /\ req.op = "deactivateLocation" => req.status = "INACTIVE"
    /\ (req.op = "deactivateLocation" \/ req.leaf = "no") /\ req.op # "createLocation" /\ req.counted =>
          req.row \notin stock
    /\ req.op = "deactivateLocation" /\ req.counted => Children(table, req.row) = {}
    /\ req.op # "deactivateLocation" /\ PlaceOf(table, req) \in Location =>
          \/ PlaceOf(table, req) \in req.unchecked \cup req.disturbed
          \/ InUse(table, PlaceOf(table, req))

TreeKept(table, stock, req) ==
    req.op \in LocationOps =>
        /\ {"op", "row", "refs", "leaf", "status", "unchecked", "counted", "disturbed"}
              \subseteq DOMAIN req
        /\ req.row \in req.disturbed \/ Knows(table, stock, req)

Tree ==
    /\ leaf \subseteq Location
    /\ stocked \subseteq {l \in Location : rows[l] # None}
    /\ ClosedLocationsAreEmpty
    /\ \A r \in Request : TreeKept(rows, stocked, request[r])

\* A step elsewhere.
LEMMA TreeStays ==
    ASSUME CatalogueInv, Tree, UNCHANGED locationVars,
           \A l \in Location : rows'[l] = rows[l],
           \A q \in Request : request'[q] = request[q] \/ request'[q].op \notin LocationOps
    PROVE  Tree'
<1>1. ASSUME NEW q \in Request
      PROVE  TreeKept(rows', stocked', request'[q])
  <2>1. CASE request'[q].op \notin LocationOps
    BY <2>1 DEF TreeKept
  <2>2. CASE request'[q] = request[q] /\ request[q].op \in LocationOps
    <3>. DEFINE req == request[q]
    <3>1. req.row \in Location
      BY <2>2 DEF CatalogueInv, Requests, RequestKept, LocationKept
    <3>2. TreeKept(rows, stocked, req)
      BY DEF Tree
    <3>. HIDE DEF req
    <3>3. PlaceOf(rows', req) = PlaceOf(rows, req) /\ Children(rows', req.row) = Children(rows, req.row)
      BY <3>1 DEF PlaceOf, Children, InUse
    <3>4. PlaceOf(rows, req) \in Location => (InUse(rows', PlaceOf(rows, req)) <=> InUse(rows, PlaceOf(rows, req)))
      BY DEF InUse
    <3>5. TreeKept(rows', stocked', req)
      BY <3>1, <3>2, <3>3, <3>4 DEF TreeKept, Knows, locationVars
    <3>. QED
      BY <2>2, <3>5 DEF req
  <2>. QED
    BY <2>1, <2>2
<1>2. ClosedLocationsAreEmpty'
  <2>1. \A l \in Location : ActiveChildren(l)' = ActiveChildren(l) /\ (Active(l)' <=> Active(l))
                            /\ (Exists(l)' <=> Exists(l))
    BY DEF ActiveChildren, Active, Exists
  <2>. QED
    BY <2>1 DEF Tree, ClosedLocationsAreEmpty, locationVars
<1>. QED
  BY <1>1, <1>2 DEF Tree, locationVars

\* The steps of master data and prices are elsewhere.
LEMMA LapseElsewhere ==
    ASSUME NEW row, NEW before, NEW q \in Request, "op" \in DOMAIN before[q]
    PROVE  Lapse(row, before)[q] = before[q] \/ Lapse(row, before)[q].op \notin LocationOps
BY DEF Lapse, LocationOps

LEMMA NoticeElsewhere ==
    ASSUME NEW book, NEW before, NEW q \in Request, "op" \in DOMAIN before[q]
    PROVE  Notice(before, book)[q] = before[q] \/ Notice(before, book)[q].op \notin LocationOps
<1> DEFINE v == {key \in before[q].steady : EffectivePrices(key, before[q].query, book) # {}}
<1>1. \/ Notice(before, book)[q] = before[q]
      \/ /\ Notice(before, book)[q] \in {[before[q] EXCEPT !.obsolete = TRUE],
                                         [before[q] EXCEPT !.steady = v]}
         /\ before[q].op \in {"createPrice", "updatePrice", "resolve"}
  BY DEF Notice
<1> HIDE DEF v
<1>. QED
  BY <1>1 DEF LocationOps

LEMMA MasterElsewhere ==
    ASSUME CatalogueInv, Tree, MasterNext, UNCHANGED locationVars
    PROVE  Tree'
<1>0. \A q \in Request : /\ "op" \in DOMAIN request[q]
                         /\ request = [x \in Request |-> request[x]]
  BY DEF CatalogueInv, Requests, RequestKept
<1>1. ASSUME NEW r \in Request, NEW req, req.op \notin LocationOps,
             request' = [request EXCEPT ![r] = req], rows' = rows
      PROVE  Tree'
  BY <1>0, <1>1, TreeStays
<1>2. \A r \in Request : End(r) /\ rows' = rows => Tree'
  BY <1>1 DEF End, Idle, LocationOps
<1>3. ASSUME NEW r \in Request, Create(r) \/ Update(r)
      PROVE  Tree'
  <2>1. \A req : Begin(r, req) /\ req.op \in {"create", "update"} => Tree'
    BY <1>1, <1>3 DEF Begin, Create, Update, masterVars, LocationOps
  <2>2. CASE Create(r)
    BY <2>1, <2>2 DEF Create
  <2>3. CASE Update(r)
    BY <2>1, <2>3 DEF Update
  <2>. QED
    BY <1>3, <2>2, <2>3
<1>4. ASSUME NEW r \in Request, CheckReference(r)
      PROVE  Tree'
  <2>1. rows' = rows /\ request[r].op \in {"create", "update"}
    BY <1>4 DEF CheckReference, masterVars
  <2>2. End(r) \/ \E v : request' = [request EXCEPT ![r] = [request[r] EXCEPT !.unchecked = v]]
    BY <1>4 DEF CheckReference
  <2>3. \A v : [request[r] EXCEPT !.unchecked = v].op = request[r].op
    BY <1>0
  <2>. QED
    BY <1>1, <1>2, <2>1, <2>2, <2>3 DEF LocationOps
<1>5. ASSUME NEW row \in Row \ Location, NEW record, NEW r \in Request, NEW before,
             before \in {request, [request EXCEPT ![r] = Idle]},
             request' = before \/ request' = Lapse(row, before),
             rows' = [rows EXCEPT ![row] = record]
      PROVE  Tree'
  <2>1. \A l \in Location : rows'[l] = rows[l]
    BY <1>5 DEF CatalogueInv, Rows, Location
  <2>2. \A q \in Request : /\ "op" \in DOMAIN before[q]
                           /\ before[q] = request[q] \/ before[q].op \notin LocationOps
    BY <1>0, <1>5 DEF Idle, LocationOps
  <2>3. \A q \in Request : request'[q] = request[q] \/ request'[q].op \notin LocationOps
    BY <1>5, <2>2, LapseElsewhere
  <2>. QED
    BY <2>1, <2>3, TreeStays
<1>6. ASSUME NEW r \in Request, WriteCreate(r)
      PROVE  Tree'
  <2>. DEFINE born == CHOOSE x \in Unborn(request[r].resource) : TRUE
              record == [status |-> "ACTIVE", refs |-> request[r].refs]
  <2>1. CASE Unborn(request[r].resource) = {}
    BY <1>2, <1>6, <2>1 DEF WriteCreate
  <2>2. CASE Unborn(request[r].resource) # {}
    <3>1. born \in Row /\ ResourceOf[born] = request[r].resource
      BY <2>2 DEF Unborn
    <3>2. request[r].resource # "locations"
      BY <1>6 DEF WriteCreate, CatalogueInv, Requests, RequestKept, MasterKept
    <3>3. rows' = [rows EXCEPT ![born] = record] /\ request' = [request EXCEPT ![r] = Idle]
      BY <1>6, <2>2 DEF WriteCreate, End
    <3>. HIDE DEF born, record
    <3>. QED
      BY <1>5, <3>1, <3>2, <3>3 DEF Location
  <2>. QED
    BY <2>1, <2>2
<1>7. ASSUME NEW r \in Request, WriteUpdate(r)
      PROVE  Tree'
  <2>. DEFINE row == request[r].row
  <2>1. row \in Row \ Location
    BY <1>7 DEF WriteUpdate, CatalogueInv, Requests, RequestKept, MasterKept, Location
  <2>2. \E record : rows' = [rows EXCEPT ![row] = record]
    BY <1>7 DEF WriteUpdate
  <2>3. LET ended == [request EXCEPT ![r] = Idle]
        IN request' = ended \/ request' = Lapse(row, ended)
    BY <1>7 DEF WriteUpdate
  <2>. HIDE DEF row
  <2>. QED
    BY <1>5, <2>1, <2>2, <2>3
<1>8. ASSUME NEW r \in Request, Deactivate(r)
      PROVE  Tree'
  <2>1. PICK row \in Row : /\ ResourceOf[row] # "locations"
                           /\ rows' = [rows EXCEPT ![row] = [rows[row] EXCEPT !.status = "INACTIVE"]]
                           /\ request' = Lapse(row, request)
    BY <1>8 DEF Deactivate
  <2>. QED
    BY <1>5, <2>1 DEF Location
<1>9. BeginExport \/ ExportPage => Tree'
  BY <1>0, TreeStays DEF BeginExport, ExportPage
<1>. QED
  BY <1>3, <1>4, <1>6, <1>7, <1>8, <1>9 DEF MasterNext

LEMMA PricesElsewhere ==
    ASSUME CatalogueInv, Tree, PriceNext, UNCHANGED <<masterVars, locationVars>>
    PROVE  Tree'
<1>0. /\ rows' = rows /\ request = [x \in Request |-> request[x]]
      /\ \A q \in Request : "op" \in DOMAIN request[q]
  BY DEF masterVars, CatalogueInv, Requests, RequestKept
<1>1. ASSUME NEW r \in Request, NEW req, req.op \notin LocationOps,
             request' = [request EXCEPT ![r] = req]
      PROVE  Tree'
  BY <1>0, <1>1, TreeStays
<1>2. ASSUME NEW r \in Request, CreatePrice(r) \/ UpdatePrice(r) \/ Resolve(r)
      PROVE  Tree'
  <2>1. \A req : Begin(r, req) /\ req.op \in {"createPrice", "updatePrice", "resolve"} => Tree'
    BY <1>1 DEF Begin, LocationOps
  <2>2. CASE CreatePrice(r)
    BY <2>1, <2>2 DEF CreatePrice
  <2>3. CASE UpdatePrice(r)
    BY <2>1, <2>3 DEF UpdatePrice
  <2>4. CASE Resolve(r)
    BY <2>1, <2>4 DEF Resolve
  <2>. QED
    BY <1>2, <2>2, <2>3, <2>4
<1>3. ASSUME NEW r \in Request, NEW p, Store(r, p)
      PROVE  Tree'
  <2>. DEFINE before == [request EXCEPT ![r] = Idle]
  <2>1. \E book : request' = Notice(before, book)
    BY <1>3 DEF Store
  <2>2. \A q \in Request : /\ "op" \in DOMAIN before[q]
                           /\ before[q] = request[q] \/ before[q].op \notin LocationOps
    BY <1>0 DEF Idle, LocationOps
  <2>. HIDE DEF before
  <2>3. \A q \in Request : request'[q] = request[q] \/ request'[q].op \notin LocationOps
    BY <2>1, <2>2, NoticeElsewhere
  <2>. QED
    BY <1>0, <2>3, TreeStays
<1>4. ASSUME NEW r \in Request, LookUp(r)
      PROVE  Tree'
  <2>1. \/ \E key : request' = [request EXCEPT ![r] = [op |-> "resolved", key |-> key,
                                                        steady |-> request[r].steady]]
        \/ request' = [request EXCEPT ![r] = [request[r] EXCEPT !.next = request[r].next + 1]]
    BY <1>4 DEF LookUp
  <2>2. request[r].op = "resolve"
    BY <1>4 DEF LookUp
  <2>3. [request[r] EXCEPT !.next = request[r].next + 1].op = "resolve"
    BY <1>0, <2>2
  <2>. QED
    BY <1>1, <2>1, <2>3 DEF LocationOps
<1>5. ASSUME NEW r \in Request, Answer(r)
      PROVE  Tree'
  BY <1>1, <1>5 DEF Answer, End, Idle, LocationOps
<1>. QED
  BY <1>2, <1>3, <1>4, <1>5 DEF PriceNext, WritePrice

\* A request for a location begins, looks further or ends.
LEMMA LocationGoesOn ==
    ASSUME CatalogueInv, Tree, UNCHANGED locationVars, rows' = rows, NEW r \in Request, NEW req,
           request' = [request EXCEPT ![r] = req], TreeKept(rows, stocked, req)
    PROVE  Tree'
<1>1. \A q \in Request : TreeKept(rows', stocked', request'[q])
  BY DEF CatalogueInv, Requests, Tree, locationVars
<1>2. ClosedLocationsAreEmpty'
  BY DEF Tree, ClosedLocationsAreEmpty, ActiveChildren, Active, Exists, locationVars
<1>. QED
  BY <1>1, <1>2 DEF Tree, locationVars

LEMMA LocationBegins ==
    ASSUME CatalogueInv, Tree, NEW r \in Request,
           CreateLocation(r) \/ UpdateLocation(r) \/ DeactivateLocation(r)
    PROVE  Tree'
<1>0. UNCHANGED locationVars /\ rows' = rows
  BY DEF CreateLocation, UpdateLocation, DeactivateLocation, masterVars
<1>1. CASE CreateLocation(r)
  <2>1. PICK refs \in RefsPayload("locations", TRUE), isLeaf \in {"yes", "no"} :
          /\ FreshIds # {}
          /\ Begin(r, [op |-> "createLocation", row |-> CHOOSE l \in FreshIds : TRUE,
                       refs |-> refs, leaf |-> isLeaf, status |-> "ACTIVE",
                       unchecked |-> Named(refs), counted |-> TRUE, disturbed |-> {}])
    BY <1>1 DEF CreateLocation
  <2>. DEFINE row == CHOOSE l \in FreshIds : TRUE
              named == Named(refs)
              req == [op |-> "createLocation", row |-> row, refs |-> refs, leaf |-> isLeaf,
                      status |-> "ACTIVE", unchecked |-> named, counted |-> TRUE,
                      disturbed |-> {}]
  <2>2. rows[row] = None
    BY <2>1 DEF FreshIds, Unborn, Exists
  <2>3. request' = [request EXCEPT ![r] = req]
    BY <2>1 DEF Begin
  <2>4. "locations" \in DOMAIN refs
    <3>1. refs \in PayloadRefs("locations")
      BY PayloadKept
    <3>. QED
      BY <3>1 DEF PayloadRefs, References
  <2>5. Parent(refs) \in Location => Parent(refs) \in named
    BY <2>4, MasterAssumption DEF Parent, Named, Location
  <2>. HIDE DEF row, named
  <2>6. Knows(rows, stocked, req)
    BY <2>2, <2>5 DEF Knows, PlaceOf
  <2>7. TreeKept(rows, stocked, req)
    BY <2>6 DEF TreeKept
  <2>. QED
    BY <1>0, <2>3, <2>7, LocationGoesOn
<1>2. CASE UpdateLocation(r)
  <2>1. PICK row \in Location, refs \in RefsPayload("locations", FALSE) :
          \E isLeaf \in {"yes", "no", "keep"}, status \in Status \cup {"keep"} :
             /\ Exists(row)
             /\ Begin(r, [op |-> "updateLocation", row |-> row, refs |-> refs, leaf |-> isLeaf,
                          status |-> status, unchecked |-> Named(Merged(row, refs)),
                          counted |-> isLeaf # "no", disturbed |-> {}])
    BY <1>2 DEF UpdateLocation
  <2>. DEFINE named == Named(Merged(row, refs))
  <2>2. PICK isLeaf, status :
             /\ Exists(row)
             /\ Begin(r, [op |-> "updateLocation", row |-> row, refs |-> refs, leaf |-> isLeaf,
                          status |-> status, unchecked |-> named,
                          counted |-> isLeaf # "no", disturbed |-> {}])
    BY <2>1
  <2>. DEFINE req == [op |-> "updateLocation", row |-> row, refs |-> refs, leaf |-> isLeaf,
                      status |-> status, unchecked |-> named, counted |-> isLeaf # "no",
                      disturbed |-> {}]
              merged == Merged(row, refs)
  <2>3. rows[row] \in Record("locations")
    BY <2>2, LocationRow DEF Exists
  <2>4. DOMAIN merged = References("locations")
    BY <2>2, <2>3 DEF Merged, Kept, Record
  <2>5. Parent(merged) \in Location => Parent(merged) \in named
    <3>1. "locations" \in DOMAIN merged
      BY <2>4 DEF References
    <3>. HIDE DEF merged
    <3>2. Parent(merged) \in Location => Parent(merged) \in Named(merged)
      BY <3>1, MasterAssumption DEF Parent, Named, Location
    <3>. QED
      BY <3>2 DEF merged
  <2>6. PlaceOf(rows, req) = Parent(merged)
    BY <2>2 DEF PlaceOf, Merged, Exists
  <2>7. request' = [request EXCEPT ![r] = req]
    BY <2>2 DEF Begin
  <2>. HIDE DEF merged, named
  <2>8. Knows(rows, stocked, req)
    BY <2>5, <2>6 DEF Knows
  <2>9. TreeKept(rows, stocked, req)
    BY <2>8 DEF TreeKept
  <2>. QED
    BY <1>0, <2>7, <2>9, LocationGoesOn
<1>3. CASE DeactivateLocation(r)
  <2>. DEFINE refs == [t \in References("locations") |-> "keep"]
  <2>1. PICK row : Begin(r, [op |-> "deactivateLocation", row |-> row, refs |-> refs,
                             leaf |-> "keep", status |-> "INACTIVE", unchecked |-> {},
                             counted |-> FALSE, disturbed |-> {}])
    BY <1>3 DEF DeactivateLocation
  <2>. DEFINE req == [op |-> "deactivateLocation", row |-> row, refs |-> refs,
                      leaf |-> "keep", status |-> "INACTIVE", unchecked |-> {},
                      counted |-> FALSE, disturbed |-> {}]
  <2>2. request' = [request EXCEPT ![r] = req]
    BY <2>1 DEF Begin
  <2>. HIDE DEF refs
  <2>3. TreeKept(rows, stocked, req)
    BY DEF TreeKept, Knows
  <2>. QED
    BY <1>0, <2>2, <2>3, LocationGoesOn
<1>. QED
  BY <1>1, <1>2, <1>3

LEMMA LocationLooks ==
    ASSUME CatalogueInv, Tree, NEW r \in Request, CheckPlace(r) \/ CountStock(r)
    PROVE  Tree'
<1> DEFINE req == request[r]
<1>0. /\ UNCHANGED locationVars /\ rows' = rows /\ req.op \in LocationOps
      /\ TreeKept(rows, stocked, req)
  BY DEF CheckPlace, CountStock, masterVars, Tree
<1>1. End(r) => Tree'
  <2>1. TreeKept(rows, stocked, Idle)
    BY DEF TreeKept, Idle, LocationOps
  <2>. QED
    BY <1>0, <2>1, LocationGoesOn DEF End
<1>2. ASSUME NEW row \in req.unchecked, Active(row),
             request' = [request EXCEPT ![r] = [req EXCEPT !.unchecked = req.unchecked \ {row}]]
      PROVE  Tree'
  <2>. DEFINE next == [req EXCEPT !.unchecked = req.unchecked \ {row}]
  <2>1. TreeKept(rows, stocked, next)
    <3>. HIDE DEF req
    <3>1. /\ {"op", "row", "refs", "leaf", "status", "unchecked", "counted", "disturbed"}
                \subseteq DOMAIN next
          /\ next.op = req.op /\ next.row = req.row /\ next.refs = req.refs
          /\ next.leaf = req.leaf /\ next.counted = req.counted /\ next.status = req.status
          /\ next.disturbed = req.disturbed /\ next.unchecked = req.unchecked \ {row}
      BY <1>0 DEF TreeKept
    <3>. HIDE DEF next
    <3>2. PlaceOf(rows, next) = PlaceOf(rows, req)
      BY <3>1 DEF PlaceOf
    <3>. QED
      BY <1>0, <1>2, <3>1, <3>2 DEF TreeKept, Knows, InUse, Active, Exists
  <2>. HIDE DEF next
  <2>. QED
    BY <1>0, <1>2, <2>1, LocationGoesOn DEF next
<1>3. ASSUME Empty(req), request' = [request EXCEPT ![r] = [req EXCEPT !.counted = TRUE]]
      PROVE  Tree'
  <2>. DEFINE next == [req EXCEPT !.counted = TRUE]
  <2>1. TreeKept(rows, stocked, next)
    <3>1. Empty(req) => /\ req.row \notin stocked
                        /\ req.op = "deactivateLocation" => Children(rows, req.row) = {}
      BY DEF Empty, ActiveChildren, Children, InUse, Active, Exists
    <3>. HIDE DEF req
    <3>2. /\ {"op", "row", "refs", "leaf", "status", "unchecked", "counted", "disturbed"}
                \subseteq DOMAIN next
          /\ next.op = req.op /\ next.row = req.row /\ next.refs = req.refs
          /\ next.leaf = req.leaf /\ next.unchecked = req.unchecked
          /\ next.disturbed = req.disturbed /\ next.status = req.status
      BY <1>0 DEF TreeKept
    <3>. HIDE DEF next
    <3>3. PlaceOf(rows, next) = PlaceOf(rows, req)
      BY <3>2 DEF PlaceOf
    <3>. QED
      BY <1>0, <1>3, <3>1, <3>2, <3>3 DEF TreeKept, Knows
  <2>. HIDE DEF next
  <2>. QED
    BY <1>0, <1>3, <2>1, LocationGoesOn DEF next
<1>4. CASE CheckPlace(r)
  BY <1>1, <1>2, <1>4 DEF CheckPlace
<1>5. CASE CountStock(r)
  BY <1>1, <1>3, <1>5 DEF CountStock
<1>. QED
  BY <1>4, <1>5

\* What a request finds out when something happens at its place.
LEMMA DisturbTree ==
    ASSUME NEW table, NEW stock, NEW before, NEW where, NEW q \in Request,
           "op" \in DOMAIN before[q],
           before[q].op \in LocationOps =>
              /\ {"op", "row", "refs", "leaf", "status", "unchecked", "counted", "disturbed"}
                    \subseteq DOMAIN before[q]
              /\ before[q].row \in before[q].disturbed \cup where \/
                 Knows(table, stock, [before[q] EXCEPT !.disturbed = before[q].disturbed \cup where])
    PROVE  TreeKept(table, stock, Disturb(before, where)[q])
<1> DEFINE req == before[q]
           v == req.disturbed \cup where
           told == [req EXCEPT !.disturbed = v]
<1>1. CASE "disturbed" \notin DOMAIN req
  BY <1>1 DEF Disturb, TreeKept
<1>2. CASE "disturbed" \in DOMAIN req
  <2>1. Disturb(before, where)[q] = told
    BY <1>2 DEF Disturb
  <2>2. req.op \in LocationOps => req.row \in v \/ Knows(table, stock, told)
    OBVIOUS
  <2>. HIDE DEF v
  <2>3. /\ DOMAIN told = DOMAIN req /\ told.op = req.op /\ told.disturbed = v
        /\ "row" \in DOMAIN req => told.row = req.row
    BY <1>2
  <2>. HIDE DEF told
  <2>. QED
    BY <2>1, <2>2, <2>3 DEF TreeKept
<1>. QED
  BY <1>1, <1>2

\* A posting moves stock in an active leaf.
LEMMA PostMovesStock ==
    ASSUME CatalogueInv, Tree, Post
    PROVE  Tree'
<1>1. PICK l \in leaf : /\ Active(l)
                        /\ stocked' \in {stocked \cup {l}, stocked \ {l}}
                        /\ request' = Disturb(request, {l})
  BY DEF Post
<1>2. rows' = rows /\ UNCHANGED <<leaf, crossed, patched>>
  BY DEF Post, masterVars
<1>3. ASSUME NEW q \in Request
      PROVE  TreeKept(rows', stocked', request'[q])
  <2>. DEFINE req == request[q]
              v == req.disturbed \cup {l}
              told == [req EXCEPT !.disturbed = v]
  <2>1. "op" \in DOMAIN req /\ TreeKept(rows, stocked, req)
    BY DEF CatalogueInv, Requests, RequestKept, Tree
  <2>2. ASSUME req.op \in LocationOps
        PROVE  /\ {"op", "row", "refs", "leaf", "status", "unchecked", "counted", "disturbed"}
                     \subseteq DOMAIN req
               /\ req.row \in v \/ Knows(rows', stocked', told)
    <3>. HIDE DEF req
    <3>1. /\ {"op", "row", "refs", "leaf", "status", "unchecked", "counted", "disturbed"}
                \subseteq DOMAIN req
          /\ req.row \in req.disturbed \/ Knows(rows, stocked, req)
      BY <2>1, <2>2 DEF TreeKept
    <3>2. CASE req.row \in v
      BY <3>1, <3>2
    <3>3. CASE req.row \notin v
      <4>1. Knows(rows, stocked, req) /\ req.row # l
        BY <3>1, <3>3
      <4>2. req.row \in stocked' => req.row \in stocked
        BY <1>1, <4>1
      <4>3. req.disturbed \subseteq v
        OBVIOUS
      <4>. HIDE DEF v
      <4>4. /\ told.op = req.op /\ told.row = req.row /\ told.refs = req.refs
            /\ told.leaf = req.leaf /\ told.counted = req.counted /\ told.status = req.status
            /\ told.unchecked = req.unchecked /\ told.disturbed = v
        BY <3>1
      <4>. HIDE DEF told
      <4>5. PlaceOf(rows', told) = PlaceOf(rows, req)
        BY <1>2, <4>4 DEF PlaceOf
      <4>6. Knows(rows', stocked', told)
        BY <1>2, <4>1, <4>2, <4>3, <4>4, <4>5 DEF Knows
      <4>. QED
        BY <3>1, <4>6
    <3>. QED
      BY <3>2, <3>3
  <2>. QED
    BY <1>1, <2>1, <2>2, DisturbTree
<1>4. ClosedLocationsAreEmpty'
  BY <1>1, <1>2 DEF Tree, ClosedLocationsAreEmpty, ActiveChildren, Active, Exists
<1>. QED
  BY <1>1, <1>2, <1>3, <1>4 DEF Tree, Active, Exists

\* A location is written.  What the writer knows of it and of its parent still holds,
\* or the location or the parent is noted as crossed.
LEMMA LocationWritten ==
    ASSUME CatalogueInv, Tree, NEW r \in Request, WriteLocation(r)
    PROVE  Tree'
<1> DEFINE todo == request[r]
           row == todo.row
           status == WrittenStatus(todo)
           refs == Merged(row, todo.refs)
           parent == Parent(refs)
           record == [status |-> status, refs |-> refs]
           around == Around(todo)
           before == [request EXCEPT ![r] = Idle]
<1>1. /\ todo.op \in LocationOps /\ todo.unchecked = {} /\ todo.counted
      /\ rows' = [rows EXCEPT ![row] = record]
      /\ leaf' = CASE todo.leaf = "yes" -> leaf \cup {row}
                   [] todo.leaf = "no"  -> leaf \ {row}
                   [] OTHER             -> leaf
      /\ crossed' = crossed \cup (todo.disturbed \cap around)
      /\ patched' = IF todo.op = "updateLocation" /\ todo.status = "INACTIVE"
                    THEN patched \cup {row} ELSE patched
      /\ request' = Disturb(before, around)
      /\ stocked' = stocked
  BY DEF WriteLocation, WrittenStatus
<1>2. /\ row \in Location /\ row \in Row /\ ResourceOf[row] = "locations"
      /\ todo.op = "createLocation" => todo.status = "ACTIVE"
      /\ todo.op # "createLocation" => rows[row] # None
      /\ record \in Record("locations")
  BY <1>1, WrittenLocation
<1>3. around \subseteq Location /\ row \in around /\ (parent \in Location => parent \in around)
  BY <1>2 DEF Around
<1>4. PlaceOf(rows, todo) = parent
  BY DEF PlaceOf, Merged, Exists
<1>5. row \in todo.disturbed \/ Knows(rows, stocked, todo)
  BY <1>1 DEF Tree, TreeKept
<1>6. status = IF todo.status = "keep" THEN rows[row].status ELSE todo.status
  BY DEF WrittenStatus
<1> HIDE DEF status, refs, around
<1>7. record.status = status /\ record.refs = refs
  OBVIOUS
<1> HIDE DEF record
<1>8. record # None
  BY <1>2, MasterAssumption
<1>9. /\ rows'[row] = record
      /\ \A l \in Location : l # row => rows'[l] = rows[l]
  BY <1>1, <1>2 DEF CatalogueInv, Rows, Location
<1>10. /\ leaf \subseteq Location
       /\ stocked \subseteq {l \in Location : rows[l] # None}
       /\ ClosedLocationsAreEmpty
  BY DEF Tree
<1>11. Children(rows', row) \ {row} = Children(rows, row) \ {row}
  BY <1>9 DEF Children, InUse
\* The other requests.
<1>12. ASSUME NEW q \in Request
       PROVE  TreeKept(rows', stocked', request'[q])
  <2>. DEFINE req == request[q]
              v == req.disturbed \cup around
              told == [req EXCEPT !.disturbed = v]
  <2>1. "op" \in DOMAIN before[q] /\ TreeKept(rows, stocked, req)
        /\ (before[q] = req \/ before[q].op \notin LocationOps)
    BY DEF CatalogueInv, Requests, RequestKept, Tree, Idle, LocationOps
  <2>2. ASSUME req.op \in LocationOps
        PROVE  /\ {"op", "row", "refs", "leaf", "status", "unchecked", "counted", "disturbed"}
                     \subseteq DOMAIN req
               /\ req.row \in v \/ Knows(rows', stocked', told)
    <3>0. req.row \in Location
      BY <2>2, WrittenLocation
    <3>. HIDE DEF req
    <3>1. /\ {"op", "row", "refs", "leaf", "status", "unchecked", "counted", "disturbed"}
                \subseteq DOMAIN req
          /\ req.row \in req.disturbed \/ Knows(rows, stocked, req)
      BY <2>1, <2>2 DEF TreeKept
    <3>2. CASE req.row \in v
      BY <3>1, <3>2
    <3>3. CASE req.row \notin v
      <4>1. Knows(rows, stocked, req) /\ req.row \notin around /\ req.row # row
        BY <1>3, <3>1, <3>3
      <4>2. req.disturbed \subseteq v /\ around \subseteq v
        OBVIOUS
      <4>. HIDE DEF v, before
      <4>3. /\ told.op = req.op /\ told.row = req.row /\ told.refs = req.refs
            /\ told.leaf = req.leaf /\ told.counted = req.counted /\ told.status = req.status
            /\ told.unchecked = req.unchecked /\ told.disturbed = v
        BY <3>1
      <4>. HIDE DEF told
      <4>4. rows'[req.row] = rows[req.row]
        BY <1>9, <3>0, <4>1
      <4>5. PlaceOf(rows', told) = PlaceOf(rows, req)
        BY <4>3, <4>4 DEF PlaceOf
      <4>6. Children(rows, req.row) = {} => Children(rows', req.row) = {}
        BY <1>3, <1>7, <1>9, <3>0, <4>1 DEF Children, InUse
      <4>7. ASSUME PlaceOf(rows, req) \in Location, PlaceOf(rows, req) \notin v
            PROVE  InUse(rows', PlaceOf(rows, req)) <=> InUse(rows, PlaceOf(rows, req))
        BY <1>3, <1>9, <4>2, <4>7 DEF InUse
      <4>8. Knows(rows', stocked', told)
        BY <1>1, <4>1, <4>2, <4>3, <4>4, <4>5, <4>6, <4>7 DEF Knows
      <4>. QED
        BY <3>1, <4>8
    <3>. QED
      BY <3>2, <3>3
  <2>. HIDE DEF before
  <2>. QED
    BY <1>1, <2>1, <2>2, DisturbTree
\* The written location and the others.
<1>13. ASSUME NEW l \in Location \ (crossed' \cup patched'), l \in stocked'
       PROVE  l \in leaf' /\ Active(l)'
  <2>1. l \in leaf /\ Active(l) /\ l \in stocked
    BY <1>1, <1>10, <1>13 DEF ClosedLocationsAreEmpty
  <2>2. CASE l # row
    BY <1>1, <1>9, <2>1, <2>2 DEF Active, Exists
  <2>3. CASE l = row
    <3>1. Knows(rows, stocked, todo)
      BY <1>1, <1>3, <1>5, <1>13, <2>3
    <3>2. todo.op = "updateLocation" /\ todo.leaf # "no"
      BY <1>1, <2>1, <2>3, <3>1 DEF Knows, LocationOps, Active, Exists
    <3>3. l \in leaf'
      BY <1>1, <2>1, <3>2
    <3>4. todo.status # "INACTIVE"
      BY <1>1, <1>13, <2>3, <3>2
    <3>5. status = "ACTIVE"
      BY <1>2, <1>6, <1>7, <2>1, <2>3, <3>4 DEF Record, Status, Active
    <3>. QED
      BY <1>7, <1>8, <1>9, <2>3, <3>3, <3>5 DEF Active, Exists
  <2>. QED
    BY <2>2, <2>3
<1>14. ASSUME NEW l \in Location \ (crossed' \cup patched'), Exists(l)', ~ Active(l)',
              NEW c \in Location, InUse(rows', c), Parent(rows'[c].refs) = l
       PROVE  c \in crossed'
  <2>0. /\ l \notin crossed /\ l \notin patched /\ crossed \subseteq crossed'
        /\ rows'[l] # None /\ rows'[l].status # "ACTIVE"
    BY <1>1, <1>14 DEF Exists, Active
  <2>1. CASE c # row /\ l # row
    <3>1. Exists(l) /\ ~ Active(l) /\ c \in ActiveChildren(l)
      BY <1>9, <1>14, <2>0, <2>1 DEF Exists, Active, ActiveChildren, InUse
    <3>. QED
      BY <1>10, <2>0, <3>1 DEF ClosedLocationsAreEmpty
  <2>2. CASE c = row
    <3>1. parent = l /\ l # row /\ status = "ACTIVE"
      BY <1>7, <1>9, <1>14, <2>0, <2>2 DEF InUse
    <3>2. CASE row \in todo.disturbed
      BY <1>1, <1>3, <2>2, <3>2
    <3>3. CASE Knows(rows, stocked, todo)
      <4>1. todo.op # "deactivateLocation"
        BY <1>6, <3>1, <3>3 DEF Knows
      <4>2. l \in todo.disturbed \/ InUse(rows, l)
        BY <1>1, <1>4, <3>1, <3>3, <4>1 DEF Knows
      <4>3. l \notin todo.disturbed
        BY <1>1, <1>3, <1>14, <3>1
      <4>. QED
        BY <1>9, <2>0, <3>1, <4>2, <4>3 DEF InUse
    <3>. QED
      BY <1>5, <3>2, <3>3
  <2>3. CASE c # row /\ l = row
    <3>1. c \in Children(rows, row) /\ c \in ActiveChildren(row)
      BY <1>9, <1>14, <2>3 DEF Children, InUse, ActiveChildren, Active, Exists
    <3>2. Knows(rows, stocked, todo)
      BY <1>1, <1>3, <1>5, <1>14, <2>3
    <3>3. todo.op # "createLocation" /\ todo.op # "deactivateLocation"
      BY <1>1, <1>2, <1>6, <1>7, <1>9, <2>0, <2>3, <3>1, <3>2 DEF Knows
    <3>4. todo.status # "INACTIVE"
      BY <1>1, <1>14, <2>3, <3>3 DEF LocationOps
    <3>5. Exists(row) /\ ~ Active(row)
      BY <1>2, <1>6, <1>7, <1>9, <2>0, <2>3, <3>3, <3>4 DEF Exists, Active, Record, Status
    <3>. QED
      BY <1>2, <1>10, <2>0, <2>3, <3>1, <3>5 DEF ClosedLocationsAreEmpty
  <2>. QED
    BY <2>1, <2>2, <2>3
<1>15. ClosedLocationsAreEmpty'
  BY <1>13, <1>14 DEF ClosedLocationsAreEmpty, ActiveChildren, InUse, Active, Exists
<1>16. leaf' \subseteq Location /\ stocked' \subseteq {l \in Location : rows'[l] # None}
  BY <1>1, <1>2, <1>8, <1>9, <1>10
<1>. QED
  BY <1>12, <1>15, <1>16 DEF Tree

LEMMA TreeStart == CatalogueInit => Tree
<1> SUFFICES ASSUME CatalogueInit
             PROVE  Tree
  OBVIOUS
<1>1. leaf \subseteq Location /\ stocked = {}
  BY DEF CatalogueInit, LocationInit
<1>2. \A q \in Request : TreeKept(rows, stocked, request[q])
  BY DEF CatalogueInit, MasterInit, TreeKept, Idle, LocationOps
<1>3. ASSUME NEW l \in Location
      PROVE  Exists(l) => Active(l)
  <2>. DEFINE first == [status |-> "ACTIVE", refs |-> FirstRefs[l]]
  <2>1. rows[l] = first \/ rows[l] = None
    BY DEF CatalogueInit, MasterInit, Location
  <2>. QED
    BY <2>1 DEF Exists, Active
<1>. QED
  BY <1>1, <1>2, <1>3 DEF Tree, ClosedLocationsAreEmpty

LEMMA TreeStep == CatalogueInv /\ Tree /\ [CatalogueNext]_catalogueVars => Tree'
<1> SUFFICES ASSUME CatalogueInv, Tree, [CatalogueNext]_catalogueVars
             PROVE  Tree'
  OBVIOUS
<1>1. CASE UNCHANGED catalogueVars
  BY <1>1, TreeStays DEF catalogueVars, masterVars, locationVars
<1>2. LocationNext => Tree'
  BY LocationBegins, LocationLooks, LocationWritten, PostMovesStock DEF LocationNext
<1>. QED
  BY <1>1, <1>2, MasterElsewhere, PricesElsewhere DEF CatalogueNext

\* A location that nobody crossed between a check and its write holds stock only as an
\* active leaf, and has no active child once it is inactive (deactivateLocation,
\* updateLocation, createLocation of InventoryService).
THEOREM ClosedLocationsStayEmpty == CatalogueSpec => []ClosedLocationsAreEmpty
<1>1. Tree => ClosedLocationsAreEmpty
  BY DEF Tree
<1>. QED
  BY <1>1, TreeStart, TreeStep, CatalogueInvariant, PTL DEF CatalogueSpec

-----------------------------------------------------------------------------
(***************************************************************************)
(* Exports: what a page leaves out comes with the next.                    *)
(***************************************************************************)

\* The recursion of Matching.
Finds(query, table, born, found, i) ==
    IF i = 0 THEN << >>
    ELSE IF Matches(query, table, born[i]) THEN Append(found[i - 1], born[i])
    ELSE found[i - 1]

IsFound(query, table, born, found, n) ==
    found = [i \in 0..n |-> Finds(query, table, born, found, i)]

\* The first numbers have a solution, one after the other.
LEMMA FoundExists ==
    ASSUME NEW query, NEW table, NEW born, NEW n \in Nat
    PROVE  \E found : IsFound(query, table, born, found, n)
<1> DEFINE bad == {m \in Nat : ~ \E found : IsFound(query, table, born, found, m)}
<1> SUFFICES ASSUME bad # {} PROVE FALSE
  OBVIOUS
<1>1. PICK m \in bad : \A k \in bad : ~(k < m)
  BY LeastOf
<1>2. CASE m = 0
  <2> DEFINE found == [i \in 0..0 |-> << >>]
  <2>1. \A i \in 0..0 : Finds(query, table, born, found, i) = << >>
    BY DEF Finds
  <2>2. IsFound(query, table, born, found, 0)
    BY <2>1 DEF IsFound
  <2>. QED
    BY <1>1, <1>2, <2>2
<1>3. CASE m # 0
  <2>1. m - 1 \in Nat /\ m - 1 \notin bad
    BY <1>1, <1>3
  <2>2. PICK found : IsFound(query, table, born, found, m - 1)
    BY <2>1
  <2> DEFINE more == [i \in 0..m |-> IF i < m THEN found[i] ELSE Finds(query, table, born, found, m)]
  <2>3. \A i \in 0..m - 1 : more[i] = found[i]
    BY <1>1
  <2>4. more[m] = Finds(query, table, born, found, m)
    BY <1>1
  <2>5. more = [i \in 0..m |-> more[i]]
    OBVIOUS
  <2> HIDE DEF more
  <2>6. \A i \in 0..m : Finds(query, table, born, more, i) = Finds(query, table, born, found, i)
    BY <1>1, <2>3 DEF Finds
  <2>7. \A i \in 0..m - 1 : found[i] = Finds(query, table, born, found, i)
    BY <2>2 DEF IsFound
  <2>8. \A i \in 0..m : more[i] = Finds(query, table, born, more, i)
    BY <1>1, <2>3, <2>4, <2>6, <2>7
  <2>9. IsFound(query, table, born, more, m)
    BY <2>5, <2>8 DEF IsFound
  <2>. QED
    BY <1>1, <2>9
<1>. QED
  BY <1>2, <1>3

\* The rows are the same, and so is what matches.
Agree(query, table, born, other, longer, n) ==
    \A i \in 1..n : /\ longer[i] = born[i]
                    /\ Matches(query, other, born[i]) <=> Matches(query, table, born[i])

\* Two solutions agree as far as the rows and what matches do.
LEMMA FoundAgree ==
    ASSUME NEW query, NEW table, NEW born, NEW other, NEW longer,
           NEW found, NEW more, NEW n \in Nat, NEW m \in Nat, n <= m,
           IsFound(query, table, born, found, n), IsFound(query, other, longer, more, m),
           Agree(query, table, born, other, longer, n)
    PROVE  \A i \in 0..n : more[i] = found[i]
<1> DEFINE bad == {i \in 0..n : more[i] # found[i]}
<1> SUFFICES ASSUME bad # {} PROVE FALSE
  OBVIOUS
<1>0. bad \in SUBSET Nat
  OBVIOUS
<1>1. PICK i \in bad : \A k \in bad : ~(k < i)
  BY ONLY <1>0, bad # {}, LeastOf
<1>2. /\ found[i] = Finds(query, table, born, found, i)
      /\ more[i] = Finds(query, other, longer, more, i)
  <2>1. i \in 0..n /\ i \in 0..m
    BY <1>1
  <2>2. found[i] = Finds(query, table, born, found, i)
    BY <2>1 DEF IsFound
  <2>3. more[i] = Finds(query, other, longer, more, i)
    BY <2>1 DEF IsFound
  <2>. QED
    BY <2>2, <2>3
<1>3. CASE i = 0
  BY <1>1, <1>2, <1>3 DEF Finds
<1>4. CASE i # 0
  <2>1. i - 1 \in 0..n /\ i \in 1..n /\ i - 1 < i
    BY <1>1, <1>4
  <2>2. more[i - 1] = found[i - 1]
    BY <1>1, <2>1
  <2>. QED
    BY <1>1, <1>2, <1>4, <2>1, <2>2 DEF Finds, Agree
<1>. QED
  BY <1>3, <1>4

LEMMA MatchingFound ==
    ASSUME NEW query, NEW table, NEW born \in Seq(Row)
    PROVE  \E found : /\ IsFound(query, table, born, found, Len(born))
                      /\ Matching(query, table, born) = found[Len(born)]
<1> DEFINE found == CHOOSE f : IsFound(query, table, born, f, Len(born))
<1>1. IsFound(query, table, born, found, Len(born))
  BY FoundExists
<1>2. Matching(query, table, born) = found[Len(born)]
  BY DEF Matching, IsFound, Finds
<1>. QED
  BY <1>1, <1>2

LEMMA AppendedRow ==
    ASSUME NEW s \in Seq(Row), NEW x \in Row
    PROVE  /\ Append(s, x) \in Seq(Row) /\ Len(Append(s, x)) = Len(s) + 1 /\ Len(s) \in Nat
           /\ Append(s, x)[Len(s) + 1] = x /\ \A k \in 1..Len(s) : Append(s, x)[k] = s[k]
OBVIOUS

\* The sequence m has the rows that match, each at a place.
Collects(query, table, born, m, n) ==
    /\ m \in Seq(Row)
    /\ \A j \in 1..n : Matches(query, table, born[j]) => \E k \in 1..Len(m) : m[k] = born[j]
    /\ \A k \in 1..Len(m) : \E j \in 1..n : m[k] = born[j] /\ Matches(query, table, born[j])

\* A solution has the matching rows.
LEMMA FoundRows ==
    ASSUME NEW query, NEW table, NEW born \in Seq(Row), NEW found,
           IsFound(query, table, born, found, Len(born))
    PROVE  \A i \in 0..Len(born) : Collects(query, table, born, found[i], i)
<1> DEFINE Good(i) == Collects(query, table, born, found[i], i)
           bad == {i \in 0..Len(born) : ~Good(i)}
<1> SUFFICES ASSUME bad # {} PROVE FALSE
  OBVIOUS
<1>0. bad \in SUBSET Nat
  OBVIOUS
<1>1. PICK i \in bad : \A k \in bad : ~(k < i)
  BY ONLY <1>0, bad # {}, LeastOf
<1>2. found[i] = Finds(query, table, born, found, i)
  BY <1>1 DEF IsFound
<1>3. CASE i = 0
  <2>1. found[i] = << >>
    BY <1>2, <1>3 DEF Finds
  <2>2. Good(i)
    BY <1>3, <2>1 DEF Collects
  <2>. QED
    BY <1>1, <2>2
<1>4. CASE i # 0
  <2>1. PICK b \in Nat : b = i - 1 /\ b \in 0..Len(born) /\ i \in 1..Len(born) /\ i = b + 1
    BY <1>1, <1>4
  <2>2. Good(b)
    BY <1>1, <2>1
  <2> HIDE DEF bad
  <2>3. PICK x : x = born[i] /\ x \in Row
    BY <2>1
  <2>4. CASE Matches(query, table, x)
    <3>1. found[i] = Append(found[b], x)
      BY <1>2, <2>1, <2>3, <2>4 DEF Finds
    <3>2. PICK s \in Seq(Row) : s = found[b]
      BY <2>2 DEF Collects
    <3>3. PICK g \in Seq(Row) : /\ g = found[i] /\ Len(g) = Len(s) + 1
                                /\ g[Len(s) + 1] = x /\ \A k \in 1..Len(s) : g[k] = s[k]
      BY <2>3, <3>1, <3>2, AppendedRow
    <3>4. \A j \in 1..i : Matches(query, table, born[j]) => \E k \in 1..Len(g) : g[k] = born[j]
      <4> SUFFICES ASSUME NEW j \in 1..i, Matches(query, table, born[j])
                   PROVE  \E k \in 1..Len(g) : g[k] = born[j]
        OBVIOUS
      <4>1. CASE j = i
        BY <2>3, <3>3, <4>1
      <4>2. CASE j # i
        <5>1. j \in 1..b
          BY <2>1, <4>2
        <5>2. PICK k \in 1..Len(s) : s[k] = born[j]
          BY <2>2, <3>2, <5>1 DEF Collects
        <5>. QED
          BY <3>3, <5>2
      <4>. QED
        BY <4>1, <4>2
    <3>5. \A k \in 1..Len(g) : \E j \in 1..i : g[k] = born[j] /\ Matches(query, table, born[j])
      <4> SUFFICES ASSUME NEW k \in 1..Len(g)
                   PROVE  \E j \in 1..i : g[k] = born[j] /\ Matches(query, table, born[j])
        OBVIOUS
      <4>1. CASE k = Len(s) + 1
        BY <2>1, <2>3, <2>4, <3>3, <4>1
      <4>2. CASE k # Len(s) + 1
        <5>1. k \in 1..Len(s)
          BY <3>3, <4>2
        <5>2. PICK j \in 1..b : s[k] = born[j] /\ Matches(query, table, born[j])
          BY <2>2, <3>2, <5>1 DEF Collects
        <5>. QED
          BY <2>1, <3>3, <5>1, <5>2
      <4>. QED
        BY <4>1, <4>2
    <3>. QED
      BY <1>1, <3>3, <3>4, <3>5 DEF bad, Collects
  <2>5. CASE ~Matches(query, table, x)
    <3>1. found[i] = found[b]
      BY <1>2, <2>1, <2>3, <2>5 DEF Finds
    <3>2. \A j \in 1..i : Matches(query, table, born[j]) => j \in 1..b
      BY <2>1, <2>3, <2>5
    <3>3. \A j \in 1..b : j \in 1..i
      BY <2>1
    <3>4. PICK s \in Seq(Row) :
             /\ s = found[b]
             /\ \A j \in 1..b : Matches(query, table, born[j]) => \E k \in 1..Len(s) : s[k] = born[j]
             /\ \A k \in 1..Len(s) : \E j \in 1..b : s[k] = born[j] /\ Matches(query, table, born[j])
      BY <2>2 DEF Collects
    <3>5. Collects(query, table, born, s, i)
      BY <3>2, <3>3, <3>4 DEF Collects
    <3>. QED
      BY <1>1, <3>1, <3>4, <3>5 DEF bad
  <2>. QED
    BY <2>4, <2>5
<1>. QED
  BY <1>3, <1>4

LEMMA MatchingRows ==
    ASSUME NEW query, NEW table, NEW born \in Seq(Row)
    PROVE  Collects(query, table, born, Matching(query, table, born), Len(born))
<1>1. PICK found : /\ IsFound(query, table, born, found, Len(born))
                   /\ Matching(query, table, born) = found[Len(born)]
  BY MatchingFound
<1>2. PICK n \in Nat : n = Len(born) /\ n \in 0..n
  OBVIOUS
<1>3. Collects(query, table, born, found[n], n)
  BY <1>1, <1>2, FoundRows
<1>. QED
  BY <1>1, <1>2, <1>3

\* Without a filter a row that is appended comes last or is not listed.
LEMMA MatchingAppended ==
    ASSUME NEW query, query.status = None, NEW table, NEW other, NEW born \in Seq(Row)
    PROVE  LET m == Matching(query, table, born)
           IN /\ Matching(query, other, born) = m
              /\ \A x \in Row : Matching(query, other, Append(born, x)) \in {m, Append(m, x)}
<1>1. PICK found : /\ IsFound(query, table, born, found, Len(born))
                   /\ Matching(query, table, born) = found[Len(born)]
  BY MatchingFound
<1>2. \A row : Matches(query, other, row) <=> Matches(query, table, row)
  BY DEF Matches
<1>0. PICK n \in Nat : n = Len(born) /\ n <= n /\ n <= n + 1 /\ n \in 0..n /\ n + 1 \in 0..n + 1
  OBVIOUS
<1>3. Matching(query, other, born) = found[Len(born)]
  <2>1. PICK more : /\ IsFound(query, other, born, more, Len(born))
                    /\ Matching(query, other, born) = more[Len(born)]
    BY MatchingFound
  <2>2. \A i \in 0..n : more[i] = found[i]
    <3>1. Agree(query, table, born, other, born, n)
      BY <1>2 DEF Agree
    <3>2. IsFound(query, table, born, found, n) /\ IsFound(query, other, born, more, n)
      BY <1>0, <1>1, <2>1
    <3>. QED
      BY <1>0, <3>1, <3>2, FoundAgree
  <2>. QED
    BY <1>0, <2>1, <2>2
<1>4. ASSUME NEW x \in Row
      PROVE  Matching(query, other, Append(born, x)) \in {found[Len(born)], Append(found[Len(born)], x)}
  <2>1. PICK longer \in Seq(Row) :
           /\ longer = Append(born, x) /\ Len(longer) = n + 1 /\ longer[n + 1] = x
           /\ \A i \in 1..n : longer[i] = born[i]
    BY <1>0, AppendedRow
  <2>2. PICK more : /\ IsFound(query, other, longer, more, n + 1)
                    /\ Matching(query, other, longer) = more[n + 1]
    BY <2>1, MatchingFound
  <2>3. \A i \in 0..n : more[i] = found[i]
    <3>1. Agree(query, table, born, other, longer, n)
      BY <1>2, <2>1 DEF Agree
    <3>2. IsFound(query, table, born, found, n) /\ n + 1 \in Nat
      BY <1>0, <1>1
    <3>. QED
      BY <1>0, <2>2, <3>1, <3>2, FoundAgree
  <2>4. more[n + 1] = Finds(query, other, longer, more, n + 1)
    BY <1>0, <2>2 DEF IsFound
  <2>5. more[n] = found[n]
    BY <1>0, <2>3
  <2>6. more[n + 1] \in {more[n], Append(more[n], x)}
    BY <2>1, <2>4 DEF Finds
  <2>. QED
    BY <1>0, <2>1, <2>2, <2>5, <2>6
<1>. QED
  BY <1>1, <1>3, <1>4

\* What was listed is listed still, none of it before its old place.
Grows(old, new, x) ==
    /\ \A i \in 1..Len(new) : new[i] = x \/ \E j \in 1..Len(old) : j <= i /\ new[i] = old[j]
    /\ \A j \in 1..Len(old) : \E i \in 1..Len(new) : new[i] = old[j]

LEMMA ReversedRows ==
    ASSUME NEW s \in Seq(Row)
    PROVE  /\ Reverse(s) \in Seq(Row) /\ Len(Reverse(s)) = Len(s)
           /\ \A i \in 1..Len(s) : Reverse(s)[i] = s[(Len(s) - i) + 1]
<1>1. PICK n \in Nat : n = Len(s) /\ \A i \in 1..n : s[i] \in Row
  OBVIOUS
<1>2. Reverse(s) = [i \in 1..n |-> s[(n - i) + 1]]
  BY <1>1 DEF Reverse
<1>3. \A i \in 1..n : (n - i) + 1 \in 1..n
  OBVIOUS
<1>4. Reverse(s) \in [1..n -> Row]
  BY <1>1, <1>2, <1>3
<1>. QED
  BY <1>1, <1>2, <1>4

LEMMA ListedRows ==
    ASSUME NEW query, NEW table, NEW born \in Seq(Row)
    PROVE  LET listed == Listed(query, table, born)
           IN /\ listed \in Seq(Row)
              /\ \A k \in 1..Len(listed) : \E j \in 1..Len(born) :
                    listed[k] = born[j] /\ Matches(query, table, born[j])
<1> DEFINE m == Matching(query, table, born)
<1>1. /\ m \in Seq(Row)
      /\ \A k \in 1..Len(m) : \E j \in 1..Len(born) : m[k] = born[j] /\ Matches(query, table, born[j])
  BY MatchingRows DEF Collects
<1>2. Listed(query, table, born) \in {m, Reverse(m)}
  BY DEF Listed
<1> HIDE DEF m
<1>3. PICK n \in Nat : n = Len(m) /\ \A i \in 1..n : (n - i) + 1 \in 1..n
  <2>1. PICK n \in Nat : n = Len(m)
    BY <1>1
  <2>2. \A i \in 1..n : (n - i) + 1 \in 1..n
    OBVIOUS
  <2>. QED
    BY <2>1, <2>2
<1>4. /\ Reverse(m) \in Seq(Row) /\ Len(Reverse(m)) = Len(m)
      /\ \A k \in 1..Len(m) : \E j \in 1..Len(born) :
            Reverse(m)[k] = born[j] /\ Matches(query, table, born[j])
  BY <1>1, <1>3, ReversedRows
<1>. QED
  BY <1>1, <1>2, <1>4

\* The next row of a sequence in the order of creation, or against it.
LEMMA AppendedGrows ==
    ASSUME NEW s \in Seq(Row), NEW x \in Row
    PROVE  /\ Grows(s, s, x)
           /\ Grows(s, Append(s, x), x)
           /\ Grows(Reverse(s), Reverse(s), x)
           /\ Grows(Reverse(s), Reverse(Append(s, x)), x)
<1>1. \A t \in Seq(Row) : Grows(t, t, x)
  BY DEF Grows
<1>2. PICK n \in Nat : n = Len(s)
  OBVIOUS
<1>3. PICK more \in Seq(Row) : /\ more = Append(s, x) /\ Len(more) = n + 1
                               /\ more[n + 1] = x /\ \A i \in 1..n : more[i] = s[i]
  BY <1>2, AppendedRow
<1>4. Grows(s, more, x)
  <2>1. \A i \in 1..n + 1 : more[i] = x \/ \E j \in 1..n : j <= i /\ more[i] = s[j]
    <3> SUFFICES ASSUME NEW i \in 1..n + 1, i # n + 1 PROVE i \in 1..n
      BY <1>3
    <3>. QED
      OBVIOUS
  <2>2. \A j \in 1..n : j \in 1..n + 1
    OBVIOUS
  <2>. QED
    BY <1>2, <1>3, <2>1, <2>2 DEF Grows
<1>5. PICK back \in Seq(Row) : back = Reverse(s) /\ Len(back) = n
                               /\ \A i \in 1..n : back[i] = s[(n - i) + 1]
  BY <1>2, ReversedRows
<1>6. PICK m \in Nat : m = n + 1
  OBVIOUS
<1>7. PICK further \in Seq(Row) : /\ further = Reverse(more) /\ Len(further) = m
                                  /\ \A i \in 1..m : further[i] = more[(m - i) + 1]
  <2>1. Len(more) = m
    BY <1>3, <1>6
  <2>. QED
    BY <2>1, ReversedRows
<1>8. Grows(back, further, x)
  <2>1. ASSUME NEW j \in 1..n, NEW i \in 1..m, i = j + 1
        PROVE  further[i] = back[j]
    <3>1. PICK k \in 1..n : k = (n - j) + 1 /\ k = (m - i) + 1
      BY <1>6, <2>1
    <3>2. back[j] = s[k]
      BY <1>5, <3>1
    <3>3. further[i] = more[k]
      BY <1>7, <3>1
    <3>. QED
      BY <1>3, <3>2, <3>3
  <2>2. ASSUME NEW i \in 1..m
        PROVE  further[i] = x \/ \E j \in 1..n : j <= i /\ further[i] = back[j]
    <3>1. CASE i = 1
      <4>1. (m - i) + 1 = n + 1
        BY <1>6, <3>1
      <4>. QED
        BY <1>3, <1>7, <4>1
    <3>2. CASE i # 1
      <4>1. PICK j \in 1..n : i = j + 1 /\ j <= i
        <5>1. i - 1 \in 1..n /\ (i - 1) + 1 = i /\ i - 1 <= i
          BY <1>6, <3>2
        <5>. QED
          BY <5>1
      <4>2. further[i] = back[j]
        BY <2>1, <4>1
      <4>. QED
        BY <4>1, <4>2
    <3>. QED
      BY <3>1, <3>2
  <2>3. ASSUME NEW j \in 1..n
        PROVE  \E i \in 1..m : further[i] = back[j]
    <3>1. PICK i \in 1..m : i = j + 1
      BY <1>6
    <3>. QED
      BY <2>1, <3>1
  <2>. QED
    BY <1>5, <1>7, <2>2, <2>3 DEF Grows
<1>. QED
  BY <1>1, <1>3, <1>4, <1>5, <1>7, <1>8

\* A row that is created moves what is listed back, if anything.
LEMMA ListedGrows ==
    ASSUME NEW query, query.status = None, NEW table, NEW other, NEW born \in Seq(Row)
    PROVE  /\ Listed(query, other, born) = Listed(query, table, born)
           /\ \A x \in Row : Grows(Listed(query, table, born), Listed(query, other, Append(born, x)), x)
<1> DEFINE m == Matching(query, table, born)
<1>1. m \in Seq(Row)
  BY MatchingRows DEF Collects
<1>2. Matching(query, other, born) = m
  BY MatchingAppended
<1>3. Listed(query, table, born) = IF query.ascending THEN m ELSE Reverse(m)
  BY DEF Listed
<1>4. Listed(query, other, born) = Listed(query, table, born)
  BY <1>2, <1>3 DEF Listed
<1>5. ASSUME NEW x \in Row
      PROVE  Grows(Listed(query, table, born), Listed(query, other, Append(born, x)), x)
  <2> DEFINE more == Matching(query, other, Append(born, x))
  <2>1. more \in {m, Append(m, x)}
    BY MatchingAppended
  <2>2. Listed(query, other, Append(born, x)) = IF query.ascending THEN more ELSE Reverse(more)
    BY DEF Listed
  <2> HIDE DEF m, more
  <2>. QED
    BY <1>1, <1>3, <2>1, <2>2, AppendedGrows
<1>. QED
  BY <1>4, <1>5

-----------------------------------------------------------------------------

\* What an export that has no filter knows of the rows there were when it began: they
\* are still listed, and those it has not written are listed after its last page.
Passed(page) == (page - 1) * PageSize

Holds(s, row) == \E k \in 1..Len(s) : s[k] = row

Covers(table, born, e) ==
    LET listed == Listed(e.query, table, born)
    IN /\ \A row \in e.first : row \in Row /\ table[row] # None /\ ResourceOf[row] # "locations"
       /\ \A row \in e.first : Holds(listed, row)
       /\ \A i \in 1..Len(listed) : listed[i] \in e.first =>
             Holds(e.emitted, listed[i]) \/ i > Passed(e.page)

Export(pc, query, page, emitted, first) ==
    [pc |-> pc, query |-> query, page |-> page, emitted |-> emitted, first |-> first]

ExportRow(e) ==
    /\ e = Export("reading", e.query, e.page, e.emitted, e.first)
    /\ e.page \in Nat \ {0} /\ e.emitted \in Seq(Row) /\ e.query.limit \in Nat

ExportInv ==
    /\ order \in Seq(Row) /\ \A i \in 1..Len(order) : Exists(order[i])
    /\ export.pc = "reading" =>
          ExportRow(export) /\ (export.query.status = None => Covers(rows, order, export))
    /\ ExportMissesNone

\* A step leaves the export alone and creates a row or none, or it is a step of the export.
Stays == \A row \in Row : Exists(row) => Exists(row)'

Creates(x) == /\ x \in Row /\ rows'[x] # None /\ (~ Exists(x) \/ ResourceOf[x] = "locations")
              /\ order' = Append(order, x)

LEMMA RowStays ==
    ASSUME Rows, NEW row \in Row, NEW record \in Record(ResourceOf[row]),
           rows' = [rows EXCEPT ![row] = record]
    PROVE  Stays /\ rows'[row] # None
BY RowWritten, MasterAssumption DEF RowsGoOn, Stays, Exists, Rows

LEMMA MasterExportSteps ==
    ASSUME CatalogueInv, MasterNext
    PROVE  \/ Stays /\ UNCHANGED <<order, export>>
           \/ Stays /\ UNCHANGED export /\ \E x \in Row : Creates(x)
           \/ UNCHANGED <<rows, order>> /\ (BeginExport \/ ExportPage)
<1>1. ASSUME NEW r \in Request, Create(r) \/ Update(r) \/ CheckReference(r)
      PROVE  Stays /\ UNCHANGED <<order, export>>
  BY <1>1 DEF Create, Update, CheckReference, masterVars, Stays, Exists
<1>2. ASSUME NEW r \in Request, Deactivate(r)
      PROVE  Stays /\ UNCHANGED <<order, export>>
  <2>1. PICK row \in Row : Exists(row) /\ rows' = [rows EXCEPT ![row].status = "INACTIVE"]
    BY <1>2 DEF Deactivate
  <2>. DEFINE record == [status |-> "INACTIVE", refs |-> rows[row].refs]
  <2>2. rows[row] \in Record(ResourceOf[row])
    BY <2>1 DEF CatalogueInv, Rows, Exists
  <2>3. record \in Record(ResourceOf[row])
    BY <2>2 DEF Record, Status
  <2>4. [rows[row] EXCEPT !.status = "INACTIVE"] = record
    BY <2>2 DEF Record
  <2>5. rows' = [rows EXCEPT ![row] = record]
    BY <2>1, <2>4
  <2>6. UNCHANGED <<order, export>>
    BY <1>2 DEF Deactivate
  <2>. HIDE DEF record
  <2>. QED
    BY <2>1, <2>3, <2>5, <2>6, RowStays DEF CatalogueInv
<1>3. ASSUME NEW r \in Request, WriteCreate(r)
      PROVE  \/ Stays /\ UNCHANGED <<order, export>>
             \/ Stays /\ UNCHANGED export /\ \E x \in Row : Creates(x)
  <2>. DEFINE resource == request[r].resource
              row == CHOOSE row \in Unborn(resource) : TRUE
              record == [status |-> "ACTIVE", refs |-> request[r].refs]
  <2>1. CASE Unborn(resource) = {}
    BY <1>3, <2>1 DEF WriteCreate, Stays, Exists
  <2>2. CASE Unborn(resource) # {}
    <3>1. row \in Row /\ rows[row] = None /\ ResourceOf[row] = resource
      BY <2>2 DEF Unborn, Exists
    <3>2. request[r].refs \in [References(resource) -> Row \cup {None}]
      BY <1>3 DEF WriteCreate, CatalogueInv, Requests, RequestKept, MasterKept
    <3>3. record \in Record(ResourceOf[row])
      BY <3>1, <3>2 DEF Record, Status
    <3>4. rows' = [rows EXCEPT ![row] = record] /\ order' = Append(order, row) /\ UNCHANGED export
      BY <1>3, <2>2 DEF WriteCreate
    <3>. HIDE DEF record, row
    <3>5. Stays /\ rows'[row] # None
      BY <3>1, <3>3, <3>4, RowStays DEF CatalogueInv
    <3>6. Creates(row)
      BY <3>1, <3>4, <3>5 DEF Creates, Exists
    <3>. QED
      BY <3>1, <3>4, <3>5, <3>6
  <2>. QED
    BY <2>1, <2>2
<1>4. ASSUME NEW r \in Request, WriteUpdate(r)
      PROVE  Stays /\ UNCHANGED <<order, export>>
  <2>. DEFINE row == request[r].row
              status == IF request[r].status = "keep" THEN rows[row].status
                                                      ELSE request[r].status
              record == [status |-> status, refs |-> Kept(rows[row].refs, request[r].refs)]
  <2>1. /\ row \in Row /\ rows[row] \in Record(ResourceOf[row])
        /\ request[r].refs \in PayloadRefs(ResourceOf[row])
        /\ request[r].status \in Status \cup {"keep"}
    BY <1>4 DEF WriteUpdate, CatalogueInv, Rows, Requests, RequestKept, MasterKept
  <2>2. record \in Record(ResourceOf[row])
    BY <2>1, MergedRefs DEF Record
  <2>3. rows' = [rows EXCEPT ![row] = record] /\ UNCHANGED <<order, export>>
    BY <1>4 DEF WriteUpdate
  <2>. HIDE DEF record, row
  <2>4. row \in Row
    BY <2>1
  <2>. QED
    BY <2>2, <2>3, <2>4, RowStays DEF CatalogueInv
<1>5. BeginExport \/ ExportPage => UNCHANGED <<rows, order>>
  BY DEF BeginExport, ExportPage
<1>. QED
  BY <1>1, <1>2, <1>3, <1>4, <1>5 DEF MasterNext

LEMMA LocationExportSteps ==
    ASSUME CatalogueInv, LocationNext
    PROVE  \/ Stays /\ UNCHANGED <<order, export>>
           \/ Stays /\ UNCHANGED export /\ \E x \in Row : Creates(x)
<1>1. ASSUME NEW r \in Request, WriteLocation(r)
      PROVE  \/ Stays /\ UNCHANGED <<order, export>>
             \/ Stays /\ UNCHANGED export /\ \E x \in Row : Creates(x)
  <2>. DEFINE row == request[r].row
              record == [status |-> WrittenStatus(request[r]), refs |-> Merged(row, request[r].refs)]
  <2>1. /\ rows' = [rows EXCEPT ![row] = record]
        /\ order' \in {order, Append(order, row)} /\ UNCHANGED export
        /\ request[r].op \in LocationOps
    BY <1>1 DEF WriteLocation, WrittenStatus
  <2>2. row \in Row /\ ResourceOf[row] = "locations" /\ record \in Record("locations")
    BY <2>1, WrittenLocation
  <2>. HIDE DEF record, row
  <2>3. Stays /\ rows'[row] # None
    BY <2>1, <2>2, RowStays DEF CatalogueInv
  <2>4. order' # order => Creates(row)
    BY <2>1, <2>2, <2>3 DEF Creates
  <2>. QED
    BY <2>1, <2>2, <2>3, <2>4
<1>2. ASSUME NEW r \in Request, \/ CreateLocation(r) \/ UpdateLocation(r) \/ DeactivateLocation(r)
                                \/ CheckPlace(r) \/ CountStock(r)
      PROVE  Stays /\ UNCHANGED <<order, export>>
  BY <1>2 DEF CreateLocation, UpdateLocation, DeactivateLocation, CheckPlace, CountStock,
              masterVars, Stays, Exists
<1>3. Post => Stays /\ UNCHANGED <<order, export>>
  BY DEF Post, masterVars, Stays, Exists
<1>. QED
  BY <1>1, <1>2, <1>3 DEF LocationNext

LEMMA ExportSteps ==
    ASSUME CatalogueInv, [CatalogueNext]_catalogueVars
    PROVE  \/ Stays /\ UNCHANGED <<order, export>>
           \/ Stays /\ UNCHANGED export /\ \E x \in Row : Creates(x)
           \/ UNCHANGED <<rows, order>> /\ (BeginExport \/ ExportPage)
<1>1. UNCHANGED masterVars => Stays /\ UNCHANGED <<order, export>>
  BY DEF masterVars, Stays, Exists
<1>. QED
  BY <1>1, MasterExportSteps, LocationExportSteps DEF CatalogueNext, catalogueVars

\* A row that was created, or none, leaves what is still to be written where it is or
\* moves it to a later place.
LEMMA GrownCovers ==
    ASSUME NEW e, ExportRow(e), Covers(rows, order, e), Stays,
           NEW old, NEW new, old = Listed(e.query, rows, order),
           new = Listed(e.query, rows', order'), NEW x, x \notin e.first, Grows(old, new, x),
           new \in Seq(Row)
    PROVE  Covers(rows', order', e)
<1>1. \A row \in e.first : row \in Row /\ rows'[row] # None /\ ResourceOf[row] # "locations"
  BY DEF Covers, Stays, Exists
<1>2. \A row \in e.first : Holds(new, row)
  <2> SUFFICES ASSUME NEW row \in e.first PROVE Holds(new, row)
    OBVIOUS
  <2>1. PICK j \in 1..Len(old) : old[j] = row
    BY DEF Covers, Holds
  <2>2. PICK i \in 1..Len(new) : new[i] = old[j]
    BY DEF Grows
  <2>. QED
    BY <2>1, <2>2 DEF Holds
<1>3. ASSUME NEW i \in 1..Len(new), new[i] \in e.first
      PROVE  Holds(e.emitted, new[i]) \/ i > Passed(e.page)
  <2>1. PICK j \in 1..Len(old) : j <= i /\ new[i] = old[j]
    BY <1>3 DEF Grows
  <2>2. Holds(e.emitted, old[j]) \/ j > Passed(e.page)
    BY <1>3, <2>1 DEF Covers
  <2>3. Passed(e.page) \in Int /\ i \in Int /\ j \in Int
    <3>1. \A a \in Nat : a - 1 \in Int /\ (a - 1) * PageSize \in Int
      BY MasterAssumption
    <3>2. e.page \in Nat
      BY DEF ExportRow
    <3>. QED
      BY <2>1, <3>1, <3>2 DEF Passed
  <2>4. ASSUME NEW p \in Int, j > p PROVE i > p
    BY <2>1, <2>3, <2>4
  <2>. QED
    BY <2>1, <2>2, <2>3, <2>4
<1>. QED
  BY <1>1, <1>2, <1>3 DEF Covers

LEMMA RowsKeepExport ==
    ASSUME ExportInv, Rows, Stays, UNCHANGED export,
           UNCHANGED order \/ \E x \in Row : Creates(x)
    PROVE  ExportInv'
<1>1. order' \in Seq(Row) /\ \A i \in 1..Len(order') : rows'[order'[i]] # None
  <2>1. order \in Seq(Row) /\ \A i \in 1..Len(order) : order[i] \in Row /\ rows'[order[i]] # None
    BY DEF ExportInv, Stays, Exists
  <2>2. ASSUME NEW x \in Row, Creates(x)
        PROVE  order' \in Seq(Row) /\ \A i \in 1..Len(order') : rows'[order'[i]] # None
    <3>1. PICK n \in Nat : n = Len(order)
      BY <2>1
    <3>2. PICK more \in Seq(Row) : more = order' /\ Len(more) = n + 1 /\ more[n + 1] = x
                                   /\ \A i \in 1..n : more[i] = order[i]
      BY <2>1, <2>2, <3>1, AppendedRow DEF Creates
    <3>3. \A i \in 1..n + 1 : i = n + 1 \/ i \in 1..n
      BY <3>1
    <3>. QED
      BY <2>1, <2>2, <3>1, <3>2, <3>3 DEF Creates
  <2>. QED
    BY <2>1, <2>2
<1>2. ASSUME export.pc = "reading", export.query.status = None
      PROVE  Covers(rows', order', export)
  <2>1. ExportRow(export) /\ Covers(rows, order, export)
    BY <1>2 DEF ExportInv
  <2>2. PICK e : e = export
    OBVIOUS
  <2>3. /\ Listed(e.query, rows, order) \in Seq(Row)
        /\ Listed(e.query, rows', order') \in Seq(Row)
    BY <1>1, ListedRows DEF ExportInv
  <2>4. CASE UNCHANGED order
    <3>1. Listed(e.query, rows', order') = Listed(e.query, rows, order)
      <4>1. Listed(e.query, rows', order) = Listed(e.query, rows, order)
        BY <1>2, <2>2, ListedGrows DEF ExportInv
      <4>. QED
        BY <2>4, <4>1
    <3>2. PICK x : x \notin e.first
      BY <2>1, <2>2, MasterAssumption DEF Covers
    <3>3. Grows(Listed(e.query, rows, order), Listed(e.query, rows, order), x)
      BY <2>3 DEF Grows
    <3>. QED
      BY <2>1, <2>2, <2>3, <3>1, <3>2, <3>3, GrownCovers
  <2>5. ASSUME NEW x \in Row, Creates(x)
        PROVE  Covers(rows', order', export)
    <3>1. x \notin e.first
      BY <2>1, <2>2, <2>5 DEF Covers, Creates, Exists
    <3>2. Grows(Listed(e.query, rows, order), Listed(e.query, rows', order'), x)
      BY <1>2, <2>2, <2>5, ListedGrows DEF ExportInv, Creates
    <3>. QED
      BY <2>1, <2>2, <2>3, <3>1, <3>2, GrownCovers
  <2>. QED
    BY <2>4, <2>5
<1>3. export.pc = "reading" => ExportRow(export) /\ (export.query.status = None => Covers(rows', order', export))
  BY <1>2 DEF ExportInv
<1>4. ExportMissesNone'
  BY DEF ExportInv, ExportMissesNone
<1>. QED
  BY <1>1, <1>3, <1>4 DEF ExportInv, Exists

\* A page goes on where the one before it ended.
LEMMA PageRows ==
    ASSUME NEW listed \in Seq(Row), NEW page \in Nat \ {0}
    PROVE  /\ Page(listed, page) \in Seq(Row)
           /\ Passed(page + 1) = page * PageSize /\ page * PageSize \in Nat
           /\ \A i \in 1..Len(listed) : i > Passed(page) /\ i <= Passed(page + 1) =>
                 Holds(Page(listed, page), listed[i])
<1>1. PICK p \in Nat : p = Passed(page) /\ page * PageSize = p + PageSize
  <2>1. PICK b \in Nat : page = b + 1 /\ page - 1 = b
    <3>1. page - 1 \in Nat /\ page = (page - 1) + 1
      OBVIOUS
    <3>. QED
      BY <3>1
  <2>2. \A a, c \in Nat : a * c \in Nat /\ (a + 1) * c = a * c + c
    OBVIOUS
  <2>3. b * PageSize \in Nat /\ (b + 1) * PageSize = b * PageSize + PageSize
    BY <2>2, MasterAssumption
  <2>. QED
    BY <2>1, <2>3 DEF Passed
<1>2. Passed(page + 1) = page * PageSize
  <2>1. (page + 1) - 1 = page
    OBVIOUS
  <2>. QED
    BY <2>1 DEF Passed
<1>3. PICK n \in Nat, q \in Nat : n = Len(listed) /\ q = p + PageSize /\ q > p
  BY MasterAssumption
<1>4. PICK last \in Nat : last = (IF q < n THEN q ELSE n) /\ last <= n /\ last <= q
  BY <1>3
<1>5. Page(listed, page) = SubSeq(listed, p + 1, last)
  <2>1. page * PageSize = q /\ (page - 1) * PageSize = p
    BY <1>1, <1>3 DEF Passed
  <2>. QED
    BY <1>3, <1>4, <2>1 DEF Page
<1>6. CASE p <= last
  <2>1. PICK m \in Nat : m = p + 1 /\ m \in 1..Len(listed) + 1 /\ last \in m - 1..Len(listed)
    BY <1>3, <1>4, <1>6
  <2>2. /\ SubSeq(listed, m, last) \in Seq(Row)
        /\ Len(SubSeq(listed, m, last)) = IF m <= last THEN last - m + 1 ELSE 0
        /\ \A k \in 1..last - m + 1 : SubSeq(listed, m, last)[k] = listed[m + k - 1]
    <3>1. last \in Int /\ m \in Int /\ \A i \in m..last : listed[i] \in Row
      BY <1>3, <1>4, <2>1
    <3>. QED
      BY <3>1, SubSeqProperties
  <2>3. PICK size \in Nat : size = last - p /\ size = last - m + 1
                            /\ (m <= last => size = last - m + 1) /\ (~(m <= last) => size = 0)
    <3>1. last - p \in Nat
      BY <1>6
    <3>. QED
      BY <2>1, <3>1
  <2>4. Len(Page(listed, page)) = size
    BY <1>5, <2>1, <2>2, <2>3
  <2>5. ASSUME NEW i \in 1..n, i > p, i <= q
        PROVE  Holds(Page(listed, page), listed[i])
    <3>1. i - p \in 1..size /\ m + (i - p) - 1 = i
      BY <1>3, <1>4, <2>1, <2>3, <2>5
    <3>2. PICK k \in 1..size : k = i - p /\ m + k - 1 = i
      BY <3>1
    <3>3. SubSeq(listed, m, last)[k] = listed[m + k - 1]
      BY <2>2, <2>3
    <3>. QED
      BY <1>5, <2>1, <2>4, <3>2, <3>3 DEF Holds
  <2>. QED
    BY <1>1, <1>2, <1>3, <1>5, <2>1, <2>2, <2>5
<1>7. CASE ~(p <= last)
  <2>1. SubSeq(listed, p + 1, last) = << >>
    <3>1. ~(p + 1 <= last)
      BY <1>7
    <3>. QED
      BY <3>1, SubSeqEmpty
  <2>2. \A i \in 1..n : ~(i > p)
    BY <1>3, <1>4, <1>7
  <2>3. Page(listed, page) \in Seq(Row)
    <3>1. << >> \in Seq(Row)
      OBVIOUS
    <3>. QED
      BY <1>5, <2>1, <3>1
  <2>. QED
    BY <1>1, <1>2, <1>3, <2>2, <2>3
<1>. QED
  BY <1>6, <1>7

\* After the last page every row was passed.
LEMMA LastPage ==
    ASSUME NEW total \in Nat, NEW page \in Nat \ {0}, ~ HasNextPage(page, total)
    PROVE  total <= page * PageSize
<1>1. PICK size \in Nat \ {0} : size = PageSize
  BY MasterAssumption
<1>2. PICK pages \in Nat : /\ pages = (total + size - 1) \div size
                           /\ (total + size) - 1 < pages * size + size
  <2>1. PICK a \in Nat : a = (total + size) - 1
    BY <1>1
  <2>2. a \div size \in Nat /\ a < (a \div size) * size + size
    BY <2>1
  <2>. QED
    BY <2>1, <2>2
<1>3. pages <= page
  BY <1>1, <1>2 DEF HasNextPage
<1>4. pages * size <= page * size
  <2>1. PICK d \in Nat : page = pages + d
    <3>1. page - pages \in Nat /\ page = pages + (page - pages)
      BY <1>3
    <3>. QED
      BY <3>1
  <2>2. page * size = pages * size + d * size /\ d * size \in Nat /\ pages * size \in Nat
    BY <2>1
  <2>. QED
    BY <2>2
<1>5. PICK x \in Nat, y \in Nat : x = pages * size /\ y = page * size
  OBVIOUS
<1>. QED
  BY <1>1, <1>2, <1>4, <1>5

LEMMA JoinedRows ==
    ASSUME NEW s \in Seq(Row), NEW t \in Seq(Row)
    PROVE  /\ s \o t \in Seq(Row) /\ Len(s \o t) \in Nat
           /\ \A row : Holds(s, row) \/ Holds(t, row) => Holds(s \o t, row)
<1>1. PICK n \in Nat, m \in Nat : n = Len(s) /\ m = Len(t)
  OBVIOUS
<1>2. PICK all \in Nat : all = n + m
  OBVIOUS
<1>3. PICK both \in Seq(Row) : both = s \o t /\ Len(both) = all
  <2>1. s \o t \in Seq(Row) /\ Len(s \o t) = Len(s) + Len(t)
    OBVIOUS
  <2>. QED
    BY <1>1, <1>2, <2>1
<1>4. ASSUME NEW k \in 1..n PROVE k \in 1..all /\ both[k] = s[k]
  <2>1. (s \o t)[k] = s[k]
    BY <1>1
  <2>. QED
    BY <1>2, <1>3, <2>1
<1>5. ASSUME NEW k \in 1..m PROVE n + k \in 1..all /\ both[n + k] = t[k]
  <2>1. (s \o t)[Len(s) + k] = t[k]
    BY <1>1
  <2>. QED
    BY <1>1, <1>2, <1>3, <2>1
<1>. QED
  BY <1>1, <1>3, <1>4, <1>5 DEF Holds

\* The rows of a page go out.
LEMMA PageCovers ==
    ASSUME NEW e, ExportRow(e), Covers(rows, order, e), order \in Seq(Row),
           NEW listed, listed = Listed(e.query, rows, order),
           NEW lines, lines = e.emitted \o Page(listed, e.page)
    PROVE  Covers(rows, order, Export("reading", e.query, e.page + 1, lines, e.first))
<1>1. listed \in Seq(Row)
  BY ListedRows
<1>2. e.page \in Nat \ {0} /\ e.emitted \in Seq(Row)
  BY DEF ExportRow
<1>3. /\ Page(listed, e.page) \in Seq(Row)
      /\ \A i \in 1..Len(listed) : i > Passed(e.page) /\ i <= Passed(e.page + 1) =>
            Holds(Page(listed, e.page), listed[i])
  BY <1>1, <1>2, PageRows
<1>4. \A row : Holds(e.emitted, row) \/ Holds(Page(listed, e.page), row) => Holds(lines, row)
  BY <1>2, <1>3, JoinedRows
<1>5. ASSUME NEW i \in 1..Len(listed), listed[i] \in e.first
      PROVE  Holds(lines, listed[i]) \/ i > Passed(e.page + 1)
  <2>1. CASE Holds(e.emitted, listed[i])
    BY <1>4, <2>1
  <2>2. CASE i > Passed(e.page) /\ ~(i > Passed(e.page + 1))
    <3>1. PICK q \in Nat : q = Passed(e.page + 1)
      BY <1>1, <1>2, PageRows
    <3>2. i <= Passed(e.page + 1)
      BY <2>2, <3>1
    <3>. QED
      BY <1>3, <1>4, <2>2, <3>2
  <2>3. Holds(e.emitted, listed[i]) \/ i > Passed(e.page)
    BY <1>5 DEF Covers
  <2>. QED
    BY <2>1, <2>2, <2>3
<1>6. /\ \A row \in e.first : row \in Row /\ rows[row] # None /\ ResourceOf[row] # "locations"
      /\ \A row \in e.first : Holds(listed, row)
  BY DEF Covers
<1>7. PICK f : f = Export("reading", e.query, e.page + 1, lines, e.first)
  OBVIOUS
<1>8. f.query = e.query /\ f.page = e.page + 1 /\ f.emitted = lines /\ f.first = e.first
  BY <1>7 DEF Export
<1>9. Covers(rows, order, f)
  BY <1>5, <1>6, <1>8 DEF Covers
<1>. QED
  BY <1>7, <1>9

LEMMA PageKeepsExport ==
    ASSUME ExportInv, ExportPage
    PROVE  ExportInv'
<1>1. PICK e : e = export /\ ExportRow(e) /\ (e.query.status = None => Covers(rows, order, e))
  BY DEF ExportInv, ExportPage
<1>2. PICK listed \in Seq(Row) : listed = Listed(e.query, rows, order)
  BY ListedRows DEF ExportInv
<1>3. e.page \in Nat \ {0} /\ e.emitted \in Seq(Row) /\ e.query.limit \in Nat
  BY <1>1 DEF ExportRow
<1>4. PICK lines \in Seq(Row) : lines = e.emitted \o Page(listed, e.page)
  <2>1. Page(listed, e.page) \in Seq(Row)
    BY <1>3, PageRows
  <2>. QED
    BY <1>3, <2>1, JoinedRows
<1>5. PICK limit \in Nat, size \in Nat : limit = e.query.limit /\ size = Len(lines)
  BY <1>3
<1>6. PICK some : some = SubSeq(lines, 1, IF size < limit THEN size ELSE limit)
  OBVIOUS
<1>7. PICK pc : pc = (IF Len(some) < limit /\ HasNextPage(e.page, Len(listed)) THEN "reading" ELSE "sent")
  OBVIOUS
<1>8. export' = Export(pc, e.query, e.page + 1, some, e.first) /\ UNCHANGED <<rows, order>>
  <2>1. export' = [export EXCEPT !.emitted = some, !.page = @ + 1, !.pc = pc] /\ UNCHANGED <<rows, order>>
    BY <1>1, <1>2, <1>4, <1>5, <1>6, <1>7 DEF ExportPage
  <2>. QED
    BY <1>1, <2>1 DEF ExportRow, Export
<1>9. /\ some \in Seq(Row) /\ Len(some) \in Nat
      /\ size < limit => some = lines
      /\ ~(size < limit) => Len(some) = limit
  <2>1. CASE size < limit
    BY <1>5, <1>6, <2>1, SubSeqFull
  <2>2. CASE ~(size < limit)
    <3>1. 1 \in 1..Len(lines) + 1 /\ limit \in 1 - 1..Len(lines)
      BY <1>5, <2>2
    <3>2. /\ SubSeq(lines, 1, limit) \in Seq(Row)
          /\ Len(SubSeq(lines, 1, limit)) = IF 1 <= limit THEN limit - 1 + 1 ELSE 0
      BY <3>1, SubSeqProperties
    <3>. QED
      BY <1>6, <2>2, <3>2
  <2>. QED
    BY <2>1, <2>2
<1>10. /\ export'.pc = pc /\ export'.query = e.query /\ export'.page = e.page + 1
       /\ export'.emitted = some /\ export'.first = e.first
  BY <1>8 DEF Export
<1>11. ASSUME Len(some) < limit, e.query.status = None
       PROVE  some = lines /\ Covers(rows, order, Export("reading", e.query, e.page + 1, some, e.first))
  <2>1. some = lines
    BY <1>9, <1>11
  <2>2. Covers(rows, order, Export("reading", e.query, e.page + 1, lines, e.first))
    BY <1>1, <1>2, <1>4, <1>11, PageCovers DEF ExportInv
  <2>. QED
    BY <2>1, <2>2
<1>12. export'.pc = "reading" =>
          ExportRow(export') /\ (export'.query.status = None => Covers(rows', order', export'))
  <2> SUFFICES ASSUME export'.pc = "reading"
               PROVE  ExportRow(export') /\ (e.query.status = None => Covers(rows, order, export'))
    BY <1>8, <1>10
  <2>1. pc = "reading" /\ Len(some) < limit
    BY <1>7, <1>10
  <2>2. export' = Export("reading", e.query, e.page + 1, some, e.first)
    BY <1>8, <2>1
  <2>3. e.page + 1 \in Nat \ {0}
    BY <1>3
  <2>4. ExportRow(export')
    BY <1>3, <1>9, <1>10, <2>2, <2>3 DEF ExportRow
  <2>. QED
    BY <1>11, <2>1, <2>2, <2>4
<1>13. ExportMissesNone'
  <2> SUFFICES ASSUME pc = "sent", e.query.status = None, Len(some) < limit
               PROVE  e.first \subseteq ToSet(some)
    BY <1>5, <1>10 DEF ExportMissesNone
  <2>1. ~ HasNextPage(e.page, Len(listed))
    BY <1>7
  <2>2. PICK total \in Nat, q \in Nat : total = Len(listed) /\ q = Passed(e.page + 1) /\ total <= q
    <3>1. Len(listed) \in Nat
      BY <1>2
    <3>. QED
      BY <1>2, <1>3, <2>1, <3>1, LastPage, PageRows
  <2>3. PICK f : f = Export("reading", e.query, e.page + 1, some, e.first) /\ Covers(rows, order, f)
    BY <1>11
  <2>4. f.query = e.query /\ f.page = e.page + 1 /\ f.emitted = some /\ f.first = e.first
    BY <2>3 DEF Export
  <2>5. /\ \A row \in e.first : Holds(listed, row)
        /\ \A i \in 1..Len(listed) : listed[i] \in e.first =>
              Holds(some, listed[i]) \/ i > Passed(e.page + 1)
    BY <1>2, <2>3, <2>4 DEF Covers
  <2>6. ASSUME NEW row \in e.first
        PROVE  row \in ToSet(some)
    <3>1. PICK i \in 1..Len(listed) : listed[i] = row
      BY <2>5 DEF Holds
    <3>2. ~(i > Passed(e.page + 1))
      BY <2>2
    <3>3. PICK k \in 1..Len(some) : some[k] = row
      BY <2>5, <3>1, <3>2 DEF Holds
    <3>4. DOMAIN some = 1..Len(some)
      BY <1>9
    <3>. QED
      BY <3>3, <3>4 DEF ToSet
  <2>. QED
    BY <2>6
<1>. QED
  BY <1>8, <1>12, <1>13 DEF ExportInv, Exists

LEMMA BeginKeepsExport ==
    ASSUME ExportInv, BeginExport
    PROVE  ExportInv'
<1>1. PICK query \in [resource : {ResourceOf[row] : row \in Row} \ {"locations"},
                      status : Status \cup {None}, ascending : BOOLEAN,
                      limit : {1, Cardinality(Row)}] :
         export' = Export("reading", query, 1, << >>, ToSet(Listed(query, rows, order)))
  BY DEF BeginExport, Export
<1>2. UNCHANGED <<rows, order>>
  BY DEF BeginExport
<1>3. PICK listed \in Seq(Row) :
         /\ listed = Listed(query, rows, order)
         /\ \A k \in 1..Len(listed) : \E j \in 1..Len(order) :
               listed[k] = order[j] /\ Matches(query, rows, order[j])
  BY ListedRows DEF ExportInv
<1>4. PICK first : first = ToSet(listed) /\ \A row \in first : Holds(listed, row)
  <2>1. DOMAIN listed = 1..Len(listed)
    OBVIOUS
  <2>2. ASSUME NEW row \in ToSet(listed) PROVE Holds(listed, row)
    BY <2>1, <2>2 DEF ToSet, Holds
  <2>. QED
    BY <2>2
<1>5. PICK e : e = export'
  OBVIOUS
<1>6. e = Export("reading", query, 1, << >>, first)
  BY <1>1, <1>3, <1>4, <1>5
<1>7. e.pc = "reading" /\ e.query = query /\ e.page = 1 /\ e.emitted = << >> /\ e.first = first
  BY <1>6 DEF Export
<1>8. ExportRow(e)
  <2>1. query.limit \in Nat
    BY MasterAssumption, FS_CardinalityType
  <2>2. << >> \in Seq(Row) /\ 1 \in Nat \ {0}
    OBVIOUS
  <2>. QED
    BY <1>6, <1>7, <2>1, <2>2 DEF ExportRow
<1>9. Covers(rows, order, e)
  <2>1. ASSUME NEW row \in first
        PROVE  row \in Row /\ rows[row] # None /\ ResourceOf[row] # "locations"
    <3>1. PICK j \in 1..Len(order) : row = order[j] /\ Matches(query, rows, order[j])
      BY <1>3, <1>4 DEF Holds
    <3>2. order[j] \in Row /\ rows[order[j]] # None
      BY DEF ExportInv, Exists
    <3>3. ResourceOf[row] = query.resource /\ query.resource # "locations"
      BY <3>1 DEF Matches
    <3>. QED
      BY <3>1, <3>2, <3>3
  <2>2. ASSUME NEW i \in 1..Len(listed)
        PROVE  i > Passed(1)
    <3>1. Passed(1) = 0
      BY MasterAssumption DEF Passed
    <3>. QED
      BY <3>1
  <2>. QED
    BY <1>3, <1>4, <1>7, <2>1, <2>2 DEF Covers
<1>10. ExportMissesNone'
  BY <1>5, <1>7 DEF ExportMissesNone
<1>. QED
  BY <1>2, <1>5, <1>8, <1>9, <1>10 DEF ExportInv, Exists

\* An export without a filter, in the order of creation, has each record that there was
\* when it began, unless it reached its limit, whatever is written between its pages
\* (exportCsv, paginationMeta of MasterDataService).
THEOREM ExportsMissNone == CatalogueSpec => []ExportMissesNone
<1>1. CatalogueInit => ExportInv
  <2> SUFFICES ASSUME MasterInit PROVE ExportInv
    BY DEF CatalogueInit
  <2>1. order \in Seq(Row) /\ order = FirstRows /\ DOMAIN order = 1..Len(order)
    BY MasterAssumption DEF MasterInit
  <2>2. ASSUME NEW i \in 1..Len(order)
        PROVE  rows[order[i]] # None
    <3>1. order[i] \in ToSet(FirstRows) /\ order[i] \in Row
      BY <2>1 DEF ToSet
    <3>2. rows[order[i]] = [status |-> "ACTIVE", refs |-> FirstRefs[order[i]]]
      BY <3>1 DEF MasterInit
    <3>3. FirstRefs[order[i]] \in [References(ResourceOf[order[i]]) -> Row \cup {None}]
      BY <3>1, MasterAssumption
    <3>4. rows[order[i]] \in Record(ResourceOf[order[i]])
      BY <3>2, <3>3 DEF Record, Status
    <3>. QED
      BY <3>1, <3>4, MasterAssumption
  <2>3. export.pc = "idle"
    BY DEF MasterInit, NoExport
  <2>. QED
    BY <2>1, <2>2, <2>3 DEF ExportInv, ExportMissesNone, Exists
<1>2. CatalogueInv /\ ExportInv /\ [CatalogueNext]_catalogueVars => ExportInv'
  BY ExportSteps, RowsKeepExport, BeginKeepsExport, PageKeepsExport DEF CatalogueInv
<1>3. ExportInv => ExportMissesNone
  BY DEF ExportInv
<1>. QED
  BY <1>1, <1>2, <1>3, CatalogueStart, CatalogueStep, PTL DEF CatalogueSpec

=============================================================================
